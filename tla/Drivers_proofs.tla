--------------------------- MODULE Drivers_proofs ---------------------------
(***************************************************************************)
(* Proofs about the drivers, for every value of the constants that they    *)
(* assume: the Ethernet controller, its ring of frames and its registers,  *)
(* the table of the temperature sensors, and the search for them.          *)
(***************************************************************************)
EXTENDS Enc28j60, OneWire, Ds18x20, FoldLemmas

(***************************************************************************)
(* The Ethernet controller (Enc28j60).                                     *)
(*                                                                         *)
(* What the driver hands out is right because of what stands in the ring,  *)
(* whatever the controller stores while the driver is reading.             *)
(***************************************************************************)

(* The rest is what the arithmetic of addresses makes of a distance.       *)
Rem(d) == d % RXSIZE
(* For distances of less than a turn.                                      *)
LEMMA RemIs ==
  ASSUME RXSIZE \in Nat \ {0}, NEW d \in Int, -RXSIZE <= d, d < 2 * RXSIZE
  PROVE  Rem(d) = IF d < 0 THEN d + RXSIZE ELSE IF d < RXSIZE THEN d ELSE d - RXSIZE
  BY Z3 DEF Rem
(* The smaller of two.                                                     *)
LEMMA SmallestOf ==
  ASSUME NEW a \in Int, NEW b \in Int
  PROVE  Min({a, b}) = IF a <= b THEN a ELSE b
  BY DEF Min

(* Addresses are added around the ring.                                    *)
LEMMA PlusIs ==
  ASSUME RXSIZE \in Nat \ {0}, NEW p \in Ring, NEW x \in Ring
  PROVE  /\ Plus(p, x) = IF p + x < RXSIZE THEN p + x ELSE p + x - RXSIZE
         /\ Plus(p, x) \in Ring
<1> DEFINE d == p + x
<1>1. Plus(p, x) = Rem(d)
  BY DEF Plus, Rem
<1>2. d \in Int /\ 0 <= d /\ -RXSIZE <= d /\ d < 2 * RXSIZE /\ d - RXSIZE < RXSIZE
  BY DEF Ring
<1>3. Plus(p, x) = IF d < RXSIZE THEN d ELSE d - RXSIZE
  <2> HIDE DEF d
  <2> QED
    BY <1>1, <1>2, RemIs
<1> QED
  BY <1>2, <1>3 DEF Ring

(* In two steps or in one, when it is less than a turn.                    *)
LEMMA PlusPlus ==
  ASSUME RXSIZE \in Nat \ {0}, NEW p \in Ring, NEW x \in Nat, NEW y \in Nat, x + y < RXSIZE
  PROVE  Plus(Plus(p, x), y) = Plus(p, x + y)
<1> DEFINE a == Plus(p, x)
           b == Plus(a, y)
           c == Plus(p, x + y)
<1>1. x \in Ring /\ y \in Ring /\ x + y \in Ring
  BY DEF Ring
<1>2. a \in Ring /\ a = IF p + x < RXSIZE THEN p + x ELSE p + x - RXSIZE
  BY <1>1, PlusIs
<1>3. b \in Ring /\ b = IF a + y < RXSIZE THEN a + y ELSE a + y - RXSIZE
  <2> HIDE DEF a
  <2> QED
    BY <1>1, <1>2, PlusIs
<1>4. c \in Ring /\ c = IF p + (x + y) < RXSIZE THEN p + (x + y) ELSE p + (x + y) - RXSIZE
  BY <1>1, PlusIs
<1>5. b = c
  <2> HIDE DEF a, b, c
  <2> QED
    BY <1>2, <1>3, <1>4 DEF Ring
<1> QED
  BY <1>5

(* The distance from an address to one before it.                          *)
LEMMA FarFrom ==
  ASSUME RXSIZE \in Nat \ {0}, NEW p \in Ring, NEW x \in Ring, NEW y \in Ring
  PROVE  Rem(Plus(p, x) - Plus(p, y)) = IF x >= y THEN x - y ELSE x - y + RXSIZE
<1> DEFINE a == Plus(p, x)
           b == Plus(p, y)
           d == a - b
<1>1. a \in Ring /\ a = IF p + x < RXSIZE THEN p + x ELSE p + x - RXSIZE
  BY PlusIs
<1>2. b \in Ring /\ b = IF p + y < RXSIZE THEN p + y ELSE p + y - RXSIZE
  BY PlusIs
<1>3. d \in Int /\ -RXSIZE <= d /\ d < RXSIZE /\ d < 2 * RXSIZE
  <2> HIDE DEF a, b
  <2> QED
    BY <1>1, <1>2 DEF Ring
<1>4. Rem(d) = IF d < 0 THEN d + RXSIZE ELSE d
  <2> HIDE DEF d
  <2> QED
    BY <1>3, RemIs
<1>5. Rem(d) = IF x >= y THEN x - y ELSE x - y + RXSIZE
  <2> HIDE DEF a, b
  <2> QED
    BY <1>1, <1>2, <1>4 DEF Ring
<1> QED
  BY <1>5

(* What is free when y cells are in use.                                   *)
LEMMA SpaceIs ==
  ASSUME RXSIZE \in Nat \ {0}, NEW p \in Ring, NEW x \in Ring
  PROVE  Rem(p - Plus(p, x) - 1) = RXSIZE - 1 - x
<1> DEFINE a == Plus(p, x)
           d == p - a - 1
<1>1. a \in Ring /\ a = IF p + x < RXSIZE THEN p + x ELSE p + x - RXSIZE
  BY PlusIs
<1>2. d \in Int /\ -RXSIZE <= d /\ d < RXSIZE /\ d < 2 * RXSIZE
  <2> HIDE DEF a
  <2> QED
    BY <1>1 DEF Ring
<1>3. Rem(d) = IF d < 0 THEN d + RXSIZE ELSE d
  <2> HIDE DEF d
  <2> QED
    BY <1>2, RemIs
<1>4. Rem(d) = RXSIZE - 1 - x
  <2> HIDE DEF a
  <2> QED
    BY <1>1, <1>3 DEF Ring
<1> QED
  BY <1>4


(* A frame stands at p: its header and then its parts.                     *)
FrameAt(ram, p, f) ==
  /\ ram[p] = [next |-> Plus(p, Len(f) + 1), len |-> Len(f)]
  /\ \A j \in 1..Len(f) : ram[Plus(p, j)] = f[j]
(* The frames of q stand one behind the other from base, each at its       *)
(* distance.                                                               *)
Laid(ram, base, q, at) ==
  /\ at \in [1..(Len(q) + 1) -> Ring] /\ at[1] = 0
  /\ \A i, k \in 1..(Len(q) + 1) : i < k => at[i] < at[k]
  /\ \A i \in 1..Len(q) : /\ at[i + 1] = at[i] + Len(q[i]) + 1
                          /\ FrameAt(ram, Plus(base, at[i]), q[i])
(* They fill the ring from base to wr, and do not meet.                    *)
Ringed(ram, base, q, wr) ==
  \E at : Laid(ram, base, q, at) /\ wr = Plus(base, at[Len(q) + 1])

(* What the controller makes of the ring when it stores f at wr.           *)
Written(ram, wr, f) ==
  LET next == Plus(wr, Len(f) + 1)
      Cell(p) == LET i == (p - wr) % RXSIZE
                 IN  CASE i = 0      -> [next |-> next, len |-> Len(f)]
                       [] i \in 1..Len(f) -> f[i]
                       [] i > Len(f) -> ram[p]
  IN  [p \in Ring |-> Cell(p)]

(* One cell of it: a header,                                               *)
LEMMA CellIs ==
  ASSUME NEW ram, NEW a \in Ring, NEW w, NEW f
  PROVE  Written(ram, w, f)[a] =
           CASE Rem(a - w) = 0 -> [next |-> Plus(w, Len(f) + 1), len |-> Len(f)]
             [] Rem(a - w) \in 1..Len(f) -> f[Rem(a - w)]
             [] Rem(a - w) > Len(f) -> ram[a]
  BY DEF Written, Rem

(* the header of the new frame, or                                         *)
LEMMA CellHeader ==
  ASSUME EthSizes, NEW ram, NEW p \in Ring, NEW y \in Ring, NEW f \in Frames
  PROVE  Written(ram, Plus(p, y), f)[Plus(p, y)] =
           [next |-> Plus(Plus(p, y), Len(f) + 1), len |-> Len(f)]
<1> DEFINE w == Plus(p, y)
<1>1. w \in Ring /\ Rem(0) = 0
  <2>1. RXSIZE \in Nat \ {0} /\ 0 \in Int /\ -RXSIZE <= 0 /\ 0 < 2 * RXSIZE /\ 0 < RXSIZE
    BY DEF EthSizes
  <2>2. Rem(0) = 0
    BY <2>1, RemIs
  <2> QED
    BY <2>1, <2>2, PlusIs
<1>3. w - w = 0
  BY <1>1 DEF Ring
<1>2. 0 \notin 1..Len(f) /\ ~(0 > Len(f))
  BY DEF EthSizes
<1> QED
  <2> HIDE DEF w
  <2>1. Written(ram, w, f)[w] = [next |-> Plus(w, Len(f) + 1), len |-> Len(f)]
    BY <1>1, <1>2, <1>3, CellIs
  <2> QED
    BY <2>1 DEF w

(* what was there, in the cells in use.                                    *)
LEMMA CellOther ==
  ASSUME EthSizes, NEW ram, NEW p \in Ring, NEW x \in Ring, NEW y \in Ring, NEW f \in Frames,
         x < y, x + RXSIZE > y + Len(f)
  PROVE  Written(ram, Plus(p, y), f)[Plus(p, x)] = ram[Plus(p, x)]
<1> DEFINE a == Plus(p, x)
           w == Plus(p, y)
           i == x - y + RXSIZE
<1>1. Rem(a - w) = i /\ a \in Ring
  BY FarFrom, PlusIs DEF EthSizes, Ring
<1>2. i \notin 1..Len(f) /\ i # 0 /\ i > Len(f)
  BY DEF EthSizes, Ring
<1> QED
  <2> HIDE DEF a, w, i
  <2>1. Written(ram, w, f)[a] = ram[a]
    BY <1>1, <1>2, CellIs
  <2> QED
    BY <2>1 DEF a, w, i

(* A frame has a length.                                                   *)
LEMMA FrameSteps ==
  ASSUME EthSizes, NEW f \in Frames
  PROVE  Len(f) \in Nat
  BY DEF EthSizes

(* A frame that fits is stored behind the others.                          *)
LEMMA RingAppend ==
  ASSUME EthSizes, NEW ram, NEW base \in Ring, NEW q \in Seq(Frames), NEW wr,
         Ringed(ram, base, q, wr), NEW f \in Frames, Rem(base - wr - 1) > Len(f)
  PROVE  Ringed(Written(ram, wr, f), base, Append(q, f), Plus(wr, Len(f) + 1))
<1> DEFINE n == Len(q)
           new == Written(ram, wr, f)
<1>1. n \in Nat /\ Len(f) \in Nat /\ RXSIZE \in Nat \ {0}
  BY FrameSteps DEF EthSizes
<1>2. PICK at : Laid(ram, base, q, at) /\ wr = Plus(base, at[n + 1])
  BY DEF Ringed
<1> DEFINE y == at[n + 1]
           at2 == [i \in 1..(n + 2) |-> IF i = n + 2 THEN y + Len(f) + 1 ELSE at[i]]
<1>3. y \in Ring
  BY <1>1, <1>2 DEF Laid
<1>4. y + Len(f) + 1 < RXSIZE /\ y + Len(f) + 1 \in Ring /\ Len(f) + 1 \in Nat
  <2>1. Rem(base - wr - 1) = RXSIZE - 1 - y
    BY <1>1, <1>2, <1>3, SpaceIs
  <2> QED
    BY <1>1, <1>3, <2>1 DEF Ring
<1>5. Plus(wr, Len(f) + 1) = Plus(base, y + (Len(f) + 1))
  BY <1>1, <1>2, <1>3, <1>4, PlusPlus DEF Ring
<1>6. ASSUME NEW i \in 1..n, NEW g, g = q[i]
      PROVE  /\ at[i] \in Ring /\ at[i + 1] \in Ring /\ Len(g) \in Nat
             /\ at[i + 1] = at[i] + Len(g) + 1 /\ at[i + 1] <= y
             /\ FrameAt(ram, Plus(base, at[i]), g)
  <2>1. g \in Frames /\ i + 1 \in 1..(n + 1) /\ i \in 1..(n + 1)
    BY <1>1, <1>6
  <2>2. at[i] \in Ring /\ at[i + 1] \in Ring
    BY <1>2, <2>1 DEF Laid
  <2>3. at[i + 1] <= y
    <3>1. CASE i = n
      BY <1>3, <3>1 DEF Ring
    <3>2. CASE i < n
      <4>1. n + 1 \in 1..(n + 1) /\ i + 1 < n + 1
        BY <1>1, <3>2
      <4>2. at[i + 1] < at[n + 1]
        BY <1>2, <2>1, <4>1 DEF Laid
      <4> QED
        BY <1>3, <2>2, <4>2 DEF Ring
    <3> QED
      BY <1>1, <3>1, <3>2
  <2> QED
    BY <1>2, <1>6, <2>1, <2>2, <2>3, FrameSteps DEF Laid
<1>7. ASSUME NEW x \in Ring, x < y
      PROVE  new[Plus(base, x)] = ram[Plus(base, x)]
  <2>1. x + RXSIZE > y + Len(f)
    BY <1>1, <1>3, <1>4 DEF Ring
  <2> QED
    BY <1>2, <1>3, <1>7, <2>1, CellOther
<1>8. ASSUME NEW i \in 1..n
      PROVE  FrameAt(new, Plus(base, at[i]), q[i])
  <2> DEFINE g == q[i]
             a == at[i]
             p == Plus(base, a)
  <2>1. /\ a \in Ring /\ at[i + 1] \in Ring /\ Len(g) \in Nat
        /\ at[i + 1] = a + Len(g) + 1 /\ at[i + 1] <= y
        /\ FrameAt(ram, p, g)
    BY <1>6
  <2> HIDE DEF g, a, new
  <2>2. new[p] = ram[p]
    BY <1>3, <1>7, <2>1 DEF Ring
  <2>3. ASSUME NEW j \in 1..Len(g) PROVE new[Plus(p, j)] = ram[Plus(p, j)]
    <3>1. a + j \in Ring /\ a + j < y /\ a + j < RXSIZE /\ a \in Nat /\ j \in Nat
      BY <1>1, <1>3, <2>1, <2>3 DEF Ring
    <3>2. Plus(p, j) = Plus(base, a + j)
      BY <1>1, <3>1, PlusPlus
    <3> QED
      BY <1>7, <3>1, <3>2
  <2>4. FrameAt(new, p, g)
    BY <2>1, <2>2, <2>3 DEF FrameAt
  <2> QED
    BY <2>4 DEF g, a
<1>9. FrameAt(new, wr, f)
  <2>1. new[wr] = [next |-> Plus(wr, Len(f) + 1), len |-> Len(f)]
    <3>1. wr = Plus(base, y)
      BY <1>2
    <3> HIDE DEF y
    <3> QED
      BY <1>3, <3>1, CellHeader
  <2>2. ASSUME NEW j \in 1..Len(f) PROVE new[Plus(wr, j)] = f[j]
    <3> DEFINE x == y + j
    <3>1. x \in Ring /\ x = y + j /\ y \in Nat /\ j \in Nat
      BY <1>1, <1>3, <1>4, <2>2 DEF Ring
    <3>2. Plus(wr, j) = Plus(base, x) /\ wr = Plus(base, y)
      BY <1>1, <1>2, <3>1, PlusPlus DEF Ring
    <3>3. x >= y /\ x - y = j
      BY <1>1, <1>3, <2>2, <3>1 DEF Ring
    <3> DEFINE a == Plus(base, x)
               w == Plus(base, y)
    <3>4. a \in Ring
      BY <1>1, <3>1, PlusIs
    <3>5. Rem(a - w) = j
      <4>1. Rem(a - w) = IF x >= y THEN x - y ELSE x - y + RXSIZE
        <5> HIDE DEF x, y
        <5> QED
          BY <1>1, <1>3, <3>1, FarFrom
      <4> HIDE DEF a, w, x, y
      <4> QED
        BY <3>3, <4>1
    <3>6. j # 0 /\ ~(j > Len(f))
      BY <1>1, <2>2
    <3> HIDE DEF a, w
    <3>7. Written(ram, w, f)[a] = f[j]
      BY <2>2, <3>4, <3>5, <3>6, CellIs
    <3> QED
      BY <3>2, <3>7 DEF a, w
  <2> QED
    BY <2>1, <2>2 DEF FrameAt
<1>10. Laid(new, base, Append(q, f), at2) /\ at2[n + 2] = y + (Len(f) + 1)
  <2> DEFINE q2 == Append(q, f)
  <2>1. /\ Len(q2) = n + 1 /\ q2[n + 1] = f
        /\ \A i \in 1..n : q2[i] = q[i]
    BY <1>1
  <2>2. /\ at2[n + 2] = y + (Len(f) + 1) /\ at2[n + 1] = y /\ at2[1] = 0
        /\ \A i \in 1..(n + 1) : at2[i] = at[i] /\ at2[i] \in Ring
    <3>1. \A i \in 1..(n + 1) : at[i] \in Ring
      BY <1>1, <1>2 DEF Laid
    <3>2. at[1] = 0
      BY <1>2 DEF Laid
    <3>3. \A i \in 1..(n + 1) : at2[i] = at[i]
      BY <1>1
    <3>4. at2[n + 2] = y + Len(f) + 1 /\ y = at[n + 1]
      BY <1>1
    <3>5. y + Len(f) + 1 = y + (Len(f) + 1)
      <4> HIDE DEF y
      <4> QED
        BY <1>1, <1>3 DEF Ring
    <3>6. 1 \in 1..(n + 1) /\ n + 1 \in 1..(n + 1)
      BY <1>1
    <3> HIDE DEF at2, y
    <3> QED
      BY <3>1, <3>2, <3>3, <3>4, <3>5, <3>6
  <2>3. \A i, k \in 1..(n + 2) : i < k => at2[i] < at2[k]
    <3> SUFFICES ASSUME NEW i \in 1..(n + 2), NEW k \in 1..(n + 2), i < k
                 PROVE  at2[i] < at2[k]
      OBVIOUS
    <3>1. i \in 1..(n + 1) /\ at2[i] = at[i] /\ at[i] \in Ring
      <4>1. i \in 1..(n + 1)
        BY <1>1
      <4> HIDE DEF at2
      <4> QED
        BY <2>2, <4>1
    <3>2. at[i] <= y
      <4>1. CASE i = n + 1
        BY <1>3, <4>1 DEF Ring
      <4>2. CASE i < n + 1
        <5>1. n + 1 \in 1..(n + 1)
          BY <1>1
        <5>2. at[i] < at[n + 1]
          BY <1>2, <3>1, <4>2, <5>1 DEF Laid
        <5> QED
          BY <1>3, <3>1, <5>2 DEF Ring
      <4> QED
        BY <1>1, <3>1, <4>1, <4>2
    <3>3. CASE k = n + 2
      BY <1>1, <1>3, <2>2, <3>1, <3>2, <3>3 DEF Ring
    <3>4. CASE k \in 1..(n + 1)
      BY <1>2, <2>2, <3>1, <3>4 DEF Laid
    <3> QED
      BY <1>1, <3>3, <3>4
  <2>4. at2 \in [1..(Len(q2) + 1) -> Ring]
    <3>1. Len(q2) + 1 = n + 2
      BY <1>1, <2>1
    <3>2. \A i \in 1..(n + 2) : (IF i = n + 2 THEN y + Len(f) + 1 ELSE at[i]) \in Ring
      <4>1. at \in [1..(n + 1) -> Ring]
        BY <1>2 DEF Laid
      <4>2. \A i \in 1..(n + 2) : i # n + 2 => i \in 1..(n + 1)
        BY <1>1
      <4> HIDE DEF y
      <4> QED
        BY <1>4, <4>1, <4>2
    <3>3. at2 \in [1..(n + 2) -> Ring]
      BY <3>2
    <3> HIDE DEF at2, q2
    <3> QED
      BY <3>1, <3>3
  <2>5. ASSUME NEW i \in 1..Len(q2)
        PROVE  /\ at2[i + 1] = at2[i] + Len(q2[i]) + 1
               /\ FrameAt(new, Plus(base, at2[i]), q2[i])
    <3>1. CASE i = n + 1
      BY <1>1, <1>2, <1>3, <1>9, <2>1, <2>2, <3>1 DEF Ring
    <3>2. CASE i \in 1..n
      <4>1. i + 1 \in 1..(n + 1) /\ i \in 1..(n + 1) /\ q2[i] = q[i]
        BY <1>1, <2>1, <3>2
      <4>2. at2[i] = at[i] /\ at2[i + 1] = at[i + 1]
        BY <2>2, <4>1
      <4> HIDE DEF at2, q2, new
      <4> QED
        BY <1>6, <1>8, <3>2, <4>1, <4>2
    <3> QED
      BY <1>1, <2>1, <3>1, <3>2
  <2> HIDE DEF at2, q2, new
  <2>6. Laid(new, base, q2, at2)
    BY <1>1, <2>1, <2>2, <2>3, <2>4, <2>5 DEF Laid
  <2> QED
    BY <2>2, <2>6 DEF q2
<1> QED
  <2> HIDE DEF at2, new
  <2>1. Len(Append(q, f)) = n + 1
    BY <1>1
  <2>2. Plus(wr, Len(f) + 1) = Plus(base, at2[Len(Append(q, f)) + 1])
    BY <1>1, <1>5, <1>10, <2>1
  <2>3. Ringed(new, base, Append(q, f), Plus(wr, Len(f) + 1))
    BY <1>10, <2>2 DEF Ringed
  <2> QED
    BY <2>3 DEF new

(* The first frame is taken out.                                           *)
LEMMA RingTail ==
  ASSUME EthSizes, NEW ram, NEW base \in Ring, NEW q \in Seq(Frames), NEW wr,
         Ringed(ram, base, q, wr), q # <<>>
  PROVE  /\ FrameAt(ram, base, Head(q)) /\ Len(Head(q)) + 1 \in Ring
         /\ Ringed(ram, Plus(base, Len(Head(q)) + 1), Tail(q), wr)
<1> DEFINE n == Len(q)
           x == Len(Head(q)) + 1
           b2 == Plus(base, x)
<1>1. n \in Nat \ {0} /\ Head(q) = q[1] /\ Head(q) \in Frames /\ RXSIZE \in Nat \ {0}
  BY DEF EthSizes
<1>2. PICK at : Laid(ram, base, q, at) /\ wr = Plus(base, at[n + 1])
  BY DEF Ringed
<1> DEFINE at2 == [i \in 1..n |-> at[i + 1] - x]
<1>3. Len(Head(q)) \in Nat /\ x \in Nat
  BY <1>1, FrameSteps
<1>4. /\ at[1] = 0 /\ at[2] = x /\ x \in Ring
      /\ FrameAt(ram, Plus(base, 0), Head(q))
  <2>1. /\ at[1] = 0 /\ at[1 + 1] = at[1] + Len(q[1]) + 1
        /\ FrameAt(ram, Plus(base, at[1]), q[1])
    BY <1>1, <1>2 DEF Laid
  <2>2. 2 \in 1..(n + 1) /\ at[2] \in Ring
    BY <1>1, <1>2 DEF Laid
  <2> QED
    BY <1>1, <1>3, <2>1, <2>2
<1>5. Plus(base, 0) = base /\ b2 \in Ring
  <2>1. 0 \in Ring /\ base + 0 = base /\ base < RXSIZE
    BY <1>1 DEF Ring
  <2> HIDE DEF x
  <2> QED
    BY <1>1, <1>4, <2>1, PlusIs
<1>6. \A i \in 1..n : /\ at[i + 1] \in Ring /\ x <= at[i + 1] /\ at2[i] = at[i + 1] - x
                      /\ at2[i] \in Ring
  <2> SUFFICES ASSUME NEW i \in 1..n
               PROVE /\ at[i + 1] \in Ring /\ x <= at[i + 1] /\ at[i + 1] - x \in Ring
    OBVIOUS
  <2>1. i + 1 \in 1..(n + 1) /\ 2 \in 1..(n + 1) /\ at[i + 1] \in Ring
    <3>1. i + 1 \in 1..(n + 1) /\ 2 \in 1..(n + 1)
      BY <1>1
    <3>2. at \in [1..(n + 1) -> Ring]
      BY <1>2 DEF Laid
    <3> QED
      BY <3>1, <3>2
  <2>2. x <= at[i + 1]
    <3>1. CASE i = 1
      BY <1>3, <1>4, <3>1
    <3>2. CASE i # 1
      <4>1. at[2] < at[i + 1]
        BY <1>1, <1>2, <2>1, <3>2 DEF Laid
      <4> HIDE DEF x
      <4> QED
        BY <1>3, <1>4, <2>1, <4>1 DEF Ring
    <3> QED
      BY <3>1, <3>2
  <2> QED
    BY <1>1, <1>3, <2>1, <2>2 DEF Ring
<1>7. ASSUME NEW i \in 1..n
      PROVE  Plus(b2, at2[i]) = Plus(base, at[i + 1])
  <2>1. at2[i] \in Nat /\ x + at2[i] = at[i + 1] /\ x + at2[i] < RXSIZE
    BY <1>1, <1>3, <1>6 DEF Ring
  <2> HIDE DEF at2, x
  <2> QED
    BY <1>1, <1>3, <2>1, PlusPlus
<1>8. /\ Tail(q) \in Seq(Frames) /\ Len(Tail(q)) = n - 1
      /\ \A i \in 1..(n - 1) : Tail(q)[i] = q[i + 1]
  BY <1>1
<1>9. at2 \in [1..n -> Ring] /\ at2[1] = 0
  BY <1>1, <1>3, <1>4, <1>6 DEF Ring
<1>10. \A i, k \in 1..n : i < k => at2[i] < at2[k]
  <2> SUFFICES ASSUME NEW i \in 1..n, NEW k \in 1..n, i < k PROVE at2[i] < at2[k]
    OBVIOUS
  <2>1. i + 1 \in 1..(n + 1) /\ k + 1 \in 1..(n + 1) /\ i + 1 < k + 1
    BY <1>1
  <2>2. at[i + 1] < at[k + 1]
    BY <1>2, <2>1 DEF Laid
  <2>3. /\ at2[i] = at[i + 1] - x /\ at2[k] = at[k + 1] - x
        /\ at[i + 1] \in Ring /\ at[k + 1] \in Ring
    BY <1>6
  <2> HIDE DEF at2, x
  <2> QED
    BY <1>3, <2>2, <2>3 DEF Ring
<1>11. ASSUME NEW i \in 1..(n - 1)
       PROVE  /\ at2[i + 1] = at2[i] + Len(Tail(q)[i]) + 1
              /\ FrameAt(ram, Plus(b2, at2[i]), Tail(q)[i])
  <2> DEFINE g == Tail(q)[i]
  <2>1. g = q[i + 1] /\ g \in Frames /\ i + 1 \in 1..n /\ i \in 1..n
    BY <1>1, <1>8
  <2>2. at[i + 2] = at[i + 1] + Len(g) + 1 /\ FrameAt(ram, Plus(base, at[i + 1]), g)
    BY <1>1, <1>2, <2>1 DEF Laid
  <2>3. at2[i] = at[i + 1] - x /\ at2[i + 1] = at[i + 2] - x
        /\ at[i + 1] \in Ring /\ at[i + 2] \in Ring
    BY <1>1, <1>6, <2>1
  <2>4. Len(g) \in Nat
    BY <2>1, FrameSteps
  <2>5. Plus(b2, at2[i]) = Plus(base, at[i + 1])
    BY <1>7, <2>1
  <2> HIDE DEF g, x, at2, b2
  <2>6. at2[i + 1] = at2[i] + Len(g) + 1 /\ FrameAt(ram, Plus(b2, at2[i]), g)
    BY <1>3, <2>2, <2>3, <2>4, <2>5 DEF Ring
  <2> QED
    BY <2>6 DEF g
<1>12. Laid(ram, b2, Tail(q), at2)
  <2> HIDE DEF at2, b2
  <2> QED
    BY <1>1, <1>8, <1>9, <1>10, <1>11 DEF Laid
<1>13. wr = Plus(b2, at2[Len(Tail(q)) + 1])
  <2>1. n \in 1..n /\ Len(Tail(q)) + 1 = n
    BY <1>1, <1>8
  <2> HIDE DEF at2, b2
  <2> QED
    BY <1>2, <1>7, <2>1
<1>14. Ringed(ram, b2, Tail(q), wr)
  <2> HIDE DEF at2, b2
  <2> QED
    BY <1>12, <1>13 DEF Ringed
<1> QED
  BY <1>4, <1>5, <1>14

(* The record of the driver and the controller; the driver knows the bank. *)
EthShaped(t) ==
  /\ t = [pc |-> t.pc, Enc28j60Bank |-> t.Enc28j60Bank, bank |-> t.bank, reg |-> t.reg,
          NextPacketPtr |-> t.NextPacketPtr, from |-> t.from, len |-> t.len,
          packet |-> t.packet, mac |-> t.mac, ram |-> t.ram, wr |-> t.wr,
          stored |-> t.stored, tx |-> t.tx]
  /\ DOMAIN t.reg = Registers /\ t.reg = [r \in Registers |-> t.reg[r]]
  /\ t.bank = t.Enc28j60Bank
(* What the registers of the controller tell.                              *)
Tells(t) ==
  /\ t.stored \in Seq(Frames) /\ t.reg[EPKTCNT] = Len(t.stored)
  /\ t.reg[ERXRDPT] \in Ring /\ t.NextPacketPtr \in Ring
  /\ t.mac \in MACS /\ t.reg[MAADR] \in MACS
(* The frames whose cells are in use, and what is copied of the first.     *)
Queue(t) == IF t.pc = "count" THEN Tail(t.stored) ELSE t.stored
Room(t) == Min({Len(Head(t.stored)), MAXLEN})
(* How far the driver has come with the first frame.                       *)
Reads(t) ==
  /\ t.pc \in {"idle", "copy", "free", "count"}
  /\ t.pc \in {"idle", "count"} => t.NextPacketPtr = t.reg[ERXRDPT]
  /\ t.pc # "idle" => t.stored # <<>> /\ t.len = Room(t)
  /\ t.pc \in {"copy", "free"} =>
       t.NextPacketPtr = Plus(t.reg[ERXRDPT], Len(Head(t.stored)) + 1)
  /\ t.pc = "copy" => t.from = Plus(t.reg[ERXRDPT], 1)
  /\ t.pc \in {"free", "count"} => t.packet = [i \in 1..t.len |-> Head(t.stored)[i]]
(* The invariant: the ring holds the frames stored and not freed, from the *)
(* read pointer to the write pointer.                                      *)
EthHolds(t) ==
  /\ EthShaped(t) /\ Tells(t) /\ Reads(t)
  /\ Ringed(t.ram, t.reg[ERXRDPT], Queue(t), t.wr)
EthInv == EthHolds(eth)

(* What an access to a register does.                                      *)
SetTo(t, r, v) == [t EXCEPT !.bank = r.bank, !.Enc28j60Bank = r.bank,
                            !.reg = [t.reg EXCEPT ![r] = v]]
(* Reading a register selects its bank,                                    *)
LEMMA ReadIs ==
  ASSUME NEW t, EthShaped(t), NEW r \in Registers
  PROVE  /\ Value(t, r) = t.reg[r]
         /\ Read(t, r) = [t EXCEPT !.bank = r.bank, !.Enc28j60Bank = r.bank]
<1> DEFINE u == SetBank(t, r)
<1>1. u = [t EXCEPT !.bank = r.bank, !.Enc28j60Bank = r.bank]
  BY DEF SetBank, EthShaped
<1>2. u.bank = r.bank /\ u.reg = t.reg
  BY <1>1 DEF EthShaped
<1>3. Reg(u.bank, r.addr) = r
  BY <1>2 DEF Reg, Registers
<1>4. Value(t, r) = t.reg[r]
  BY <1>2, <1>3 DEF Value
<1> QED
  BY <1>1, <1>4 DEF Read
(* and so does writing one.                                                *)
LEMMA WriteIs ==
  ASSUME NEW t, EthShaped(t), NEW r \in Registers, NEW v
  PROVE  Write(t, r, v) = SetTo(t, r, v)
<1> DEFINE u == SetBank(t, r)
<1>1. u = [t EXCEPT !.bank = r.bank, !.Enc28j60Bank = r.bank]
  BY DEF SetBank, EthShaped
<1>2. u.bank = r.bank /\ u.reg = t.reg
  BY <1>1 DEF EthShaped
<1>3. Reg(u.bank, r.addr) = r
  BY <1>2 DEF Reg, Registers
<1>4. Write(t, r, v) = [u EXCEPT !.reg[r] = v]
  BY <1>3 DEF Write
<1>5. [u EXCEPT !.reg[r] = v] = SetTo(t, r, v)
  BY <1>1 DEF EthShaped, SetTo
<1> QED
  BY <1>4, <1>5

(* The registers are different ones.                                       *)
LEMMA TheRegisters ==
  /\ {ERDPT, EWRPT, ETXND, ERXRDPT, EPKTCNT, MACON1, MICMD, MAADR, MISTAT} \subseteq Registers
  /\ ERXRDPT \notin {ERDPT, EWRPT, ETXND, EPKTCNT, MACON1, MICMD, MAADR, MISTAT}
  /\ EPKTCNT \notin {ERDPT, EWRPT, ETXND, MACON1, MICMD, MAADR, MISTAT}
  /\ MAADR \notin {ERDPT, EWRPT, ETXND, MACON1, MICMD, MISTAT}
  BY DEF Registers, ERDPT, EWRPT, ETXND, ERXRDPT, EPKTCNT, MACON1, MICMD, MAADR, MISTAT, Reg

(* Nothing that the invariant speaks of differs.                           *)
SameView(u, t) ==
  /\ u.pc = t.pc /\ u.NextPacketPtr = t.NextPacketPtr /\ u.from = t.from /\ u.len = t.len
  /\ u.packet = t.packet /\ u.mac = t.mac /\ u.ram = t.ram /\ u.wr = t.wr
  /\ u.stored = t.stored /\ u.reg[ERXRDPT] = t.reg[ERXRDPT] /\ u.reg[EPKTCNT] = t.reg[EPKTCNT]
LEMMA SameHolds ==
  ASSUME NEW t, EthHolds(t), NEW u, EthShaped(u), SameView(u, t), u.reg[MAADR] \in MACS
  PROVE  EthHolds(u)
<1>1. Tells(u)
  BY DEF EthHolds, SameView, Tells
<1>2. Queue(u) = Queue(t) /\ Room(u) = Room(t)
  BY DEF SameView, Queue, Room
<1>3. Reads(u)
  BY <1>2 DEF EthHolds, SameView, Reads
<1> QED
  BY <1>1, <1>2, <1>3 DEF EthHolds, SameView

(* So an access to a register keeps the invariant.                         *)
LEMMA ReadHolds ==
  ASSUME NEW t, EthHolds(t), NEW r \in Registers
  PROVE  /\ EthHolds(Read(t, r)) /\ SameView(Read(t, r), t) /\ EthShaped(Read(t, r))
         /\ Read(t, r).reg = t.reg
<1> DEFINE u == Read(t, r)
<1>1. EthShaped(t) /\ t.reg[MAADR] \in MACS
  BY DEF EthHolds, Tells
<1>2. u = [t EXCEPT !.bank = r.bank, !.Enc28j60Bank = r.bank]
  BY <1>1, ReadIs
<1>3. EthShaped(u) /\ SameView(u, t) /\ u.reg = t.reg
  <2> HIDE DEF u
  <2> QED
    BY <1>1, <1>2 DEF EthShaped, SameView
<1> QED
  <2> HIDE DEF u
  <2>1. EthHolds(u)
    BY <1>1, <1>3, SameHolds
  <2> QED
    BY <1>3, <2>1 DEF u

LEMMA WriteHolds ==
  ASSUME NEW t, EthHolds(t), NEW r \in Registers \ {ERXRDPT, EPKTCNT}, NEW v,
         r = MAADR => v \in MACS
  PROVE  /\ EthHolds(Write(t, r, v)) /\ SameView(Write(t, r, v), t) /\ EthShaped(Write(t, r, v))
         /\ Write(t, r, v).reg = [t.reg EXCEPT ![r] = v]
<1> DEFINE u == Write(t, r, v)
<1>1. EthShaped(t) /\ t.reg[MAADR] \in MACS
  BY DEF EthHolds, Tells
<1>2. u = [t EXCEPT !.bank = r.bank, !.Enc28j60Bank = r.bank, !.reg = [t.reg EXCEPT ![r] = v]]
  <2>1. u = SetTo(t, r, v)
    BY <1>1, WriteIs
  <2> QED
    BY <2>1 DEF SetTo
<1>3. EthShaped(u) /\ SameView(u, t) /\ u.reg = [t.reg EXCEPT ![r] = v] /\ u.reg[MAADR] \in MACS
  <2> HIDE DEF u
  <2> QED
    BY <1>1, <1>2, TheRegisters DEF EthShaped, SameView
<1> QED
  <2> HIDE DEF u
  <2>1. EthHolds(u)
    BY <1>3, SameHolds
  <2> QED
    BY <1>3, <2>1 DEF u

(* The frame to be read stands at the read pointer.                        *)
LEMMA HeadStands ==
  ASSUME EthSizes, NEW t, EthHolds(t), t.pc # "count", t.stored # <<>>
  PROVE  /\ FrameAt(t.ram, t.reg[ERXRDPT], Head(t.stored)) /\ Len(Head(t.stored)) + 1 \in Ring
         /\ Head(t.stored) \in Frames /\ t.reg[ERXRDPT] \in Ring
         /\ Ringed(t.ram, Plus(t.reg[ERXRDPT], Len(Head(t.stored)) + 1), Tail(t.stored), t.wr)
<1>1. /\ t.stored \in Seq(Frames) /\ t.reg[ERXRDPT] \in Ring
      /\ Ringed(t.ram, t.reg[ERXRDPT], t.stored, t.wr)
  BY DEF EthHolds, Tells, Queue
<1> QED
  BY <1>1, RingTail

(* The driver reads the header,                                            *)
LEMMA HeaderHolds ==
  ASSUME EthSizes, NEW t, EthHolds(t), t.pc = "idle", t.stored # <<>>
  PROVE  EthHolds(Header(t))
<1> DEFINE u == Write(t, ERDPT, t.NextPacketPtr)
           h == u.ram[Value(u, ERDPT)]
           w == Header(t)
           f == Head(t.stored)
<1>1. /\ EthHolds(u) /\ EthShaped(u) /\ SameView(u, t)
      /\ u.reg = [t.reg EXCEPT ![ERDPT] = t.NextPacketPtr]
  <2>1. ERDPT \in Registers \ {ERXRDPT, EPKTCNT} /\ ERDPT # MAADR
    BY TheRegisters
  <2> DEFINE next == t.NextPacketPtr
  <2> HIDE DEF next
  <2>2. /\ EthHolds(Write(t, ERDPT, next)) /\ EthShaped(Write(t, ERDPT, next))
        /\ SameView(Write(t, ERDPT, next), t)
        /\ Write(t, ERDPT, next).reg = [t.reg EXCEPT ![ERDPT] = next]
    BY <2>1, WriteHolds
  <2> QED
    BY <2>2 DEF next
<1>2. EthShaped(t) /\ t.NextPacketPtr = t.reg[ERXRDPT]
  BY DEF EthHolds, Reads
<1>3. Value(u, ERDPT) = t.reg[ERXRDPT]
  <2>1. u.reg[ERDPT] = t.reg[ERXRDPT]
    BY <1>1, <1>2, TheRegisters DEF EthShaped
  <2> HIDE DEF u
  <2> QED
    BY <1>1, <2>1, ReadIs, TheRegisters
<1>4. /\ h = [next |-> Plus(t.reg[ERXRDPT], Len(f) + 1), len |-> Len(f)]
      /\ Plus(t.reg[ERXRDPT], Len(f) + 1) \in Ring
  <2>1. FrameAt(t.ram, t.reg[ERXRDPT], f) /\ Len(f) + 1 \in Ring /\ t.reg[ERXRDPT] \in Ring
    BY HeadStands
  <2>2. u.ram = t.ram
    BY <1>1 DEF SameView
  <2> HIDE DEF u, f
  <2> QED
    BY <1>3, <2>1, <2>2, PlusIs DEF FrameAt, EthSizes
<1>5. w = [u EXCEPT !.pc = "copy", !.from = Plus(t.reg[ERXRDPT], 1),
                    !.NextPacketPtr = Plus(t.reg[ERXRDPT], Len(f) + 1),
                    !.len = Min({Len(f), MAXLEN})]
  <2>1. w = [u EXCEPT !.pc = "copy", !.from = Plus(Value(u, ERDPT), 1),
                    !.NextPacketPtr = h.next, !.len = Min({h.len, MAXLEN})]
    BY DEF Header
  <2> HIDE DEF u, h, w, f
  <2> QED
    BY <1>3, <1>4, <2>1
<1> HIDE DEF u, h, w
<1>6. EthShaped(w)
  BY <1>1, <1>5 DEF EthShaped
<1>7. /\ w.pc = "copy" /\ w.from = Plus(w.reg[ERXRDPT], 1) /\ w.stored = t.stored
      /\ w.NextPacketPtr = Plus(w.reg[ERXRDPT], Len(f) + 1) /\ w.len = Min({Len(f), MAXLEN})
      /\ w.reg = u.reg /\ w.mac = u.mac /\ w.ram = u.ram /\ w.wr = u.wr /\ w.stored = u.stored
      /\ w.reg[ERXRDPT] = t.reg[ERXRDPT]
  BY <1>1, <1>5 DEF EthShaped, SameView
<1>8. Tells(w)
  BY <1>1, <1>4, <1>7 DEF EthHolds, Tells
<1>9. Reads(w)
  BY <1>7 DEF Reads, Room
<1>10. Ringed(w.ram, w.reg[ERXRDPT], Queue(w), w.wr)
  <2>1. Queue(w) = Queue(u)
    BY <1>1, <1>7 DEF Queue, SameView
  <2> QED
    BY <1>1, <1>7, <2>1 DEF EthHolds
<1>11. EthHolds(w)
  BY <1>6, <1>8, <1>9, <1>10 DEF EthHolds
<1> QED
  BY <1>11 DEF w

(* copies the frame, and                                                   *)
LEMMA CopiedHolds ==
  ASSUME EthSizes, NEW t, EthHolds(t), t.pc = "copy"
  PROVE  EthHolds(CopiedOut(t))
<1> DEFINE w == CopiedOut(t)
           f == Head(t.stored)
           base == t.reg[ERXRDPT]
           copy == [i \in 1..t.len |-> t.ram[Plus(t.from, i - 1)]]
<1>1. EthShaped(t) /\ t.stored # <<>> /\ t.len = Min({Len(f), MAXLEN}) /\ t.from = Plus(base, 1)
  BY DEF EthHolds, Reads, Room
<1>2. FrameAt(t.ram, base, f) /\ Len(f) + 1 \in Ring /\ base \in Ring /\ f \in Frames
  BY <1>1, HeadStands
<1>3. Len(f) \in Nat /\ RXSIZE \in Nat \ {0} /\ MAXLEN \in Nat
  BY <1>2, FrameSteps DEF EthSizes
<1>4. t.len \in Nat /\ t.len <= Len(f)
  <2> HIDE DEF f
  <2> QED
    BY <1>1, <1>3, SmallestOf
<1>5. ASSUME NEW i \in 1..t.len PROVE t.ram[Plus(t.from, i - 1)] = f[i]
  <2>1. i \in 1..Len(f) /\ i - 1 \in Nat /\ 1 + (i - 1) = i /\ 1 + (i - 1) < RXSIZE
    BY <1>2, <1>3, <1>4 DEF Ring
  <2> HIDE DEF f, base
  <2>2. Plus(Plus(base, 1), i - 1) = Plus(base, 1 + (i - 1))
    BY <1>2, <1>3, <2>1, PlusPlus
  <2> QED
    BY <1>1, <1>2, <2>1, <2>2 DEF FrameAt
<1>6. copy = [i \in 1..t.len |-> f[i]]
  BY <1>5
<1>7. w = [t EXCEPT !.pc = "free", !.packet = copy]
  BY DEF CopiedOut
<1> HIDE DEF w, copy, f
<1>8. /\ EthShaped(w) /\ w.pc = "free" /\ w.packet = copy /\ w.NextPacketPtr = t.NextPacketPtr
      /\ w.len = t.len /\ w.mac = t.mac /\ w.ram = t.ram /\ w.wr = t.wr /\ w.stored = t.stored
      /\ w.reg = t.reg
  BY <1>1, <1>7 DEF EthShaped
<1>9. Tells(w)
  BY <1>8 DEF EthHolds, Tells
<1>10. Reads(w)
  BY <1>1, <1>6, <1>8 DEF EthHolds, Reads, Room, f
<1>11. Queue(w) = Queue(t)
  BY <1>8 DEF Queue
<1>12. EthHolds(w)
  BY <1>8, <1>9, <1>10, <1>11 DEF EthHolds
<1> QED
  BY <1>12 DEF w

(* The cells of the frame are given back.                                  *)
LEMMA FreedHolds ==
  ASSUME EthSizes, NEW t, EthHolds(t), t.pc = "free"
  PROVE  EthHolds(Freed(t))
<1> DEFINE w == Freed(t)
           f == Head(t.stored)
           next == t.NextPacketPtr
<1>1. EthShaped(t) /\ t.stored # <<>> /\ next = Plus(t.reg[ERXRDPT], Len(f) + 1) /\ next \in Ring
  BY DEF EthHolds, Reads, Tells
<1>2. Ringed(t.ram, Plus(t.reg[ERXRDPT], Len(f) + 1), Tail(t.stored), t.wr)
  BY <1>1, HeadStands
<1>3. w = [t EXCEPT !.pc = "count", !.bank = ERXRDPT.bank, !.Enc28j60Bank = ERXRDPT.bank,
                    !.reg = [t.reg EXCEPT ![ERXRDPT] = next]]
  <2> DEFINE u == Write(t, ERXRDPT, next)
  <2>1. w = [u EXCEPT !.pc = "count"]
    BY DEF Freed
  <2> HIDE DEF next
  <2>2. u = [t EXCEPT !.bank = ERXRDPT.bank, !.Enc28j60Bank = ERXRDPT.bank,
                      !.reg = [t.reg EXCEPT ![ERXRDPT] = next]]
    <3>1. u = SetTo(t, ERXRDPT, next)
      BY <1>1, WriteIs, TheRegisters
    <3> QED
      BY <3>1 DEF SetTo
  <2> HIDE DEF u, w
  <2> QED
    BY <1>1, <2>1, <2>2 DEF EthShaped
<1> HIDE DEF w, f
<1>4. /\ EthShaped(w) /\ w.pc = "count" /\ w.packet = t.packet /\ w.NextPacketPtr = next
      /\ w.len = t.len /\ w.mac = t.mac /\ w.ram = t.ram /\ w.wr = t.wr /\ w.stored = t.stored
      /\ w.reg[ERXRDPT] = next /\ w.reg[EPKTCNT] = t.reg[EPKTCNT] /\ w.reg[MAADR] = t.reg[MAADR]
  BY <1>1, <1>3, TheRegisters DEF EthShaped
<1> HIDE DEF next
<1>5. Tells(w)
  BY <1>1, <1>4 DEF EthHolds, Tells, next
<1>6. Reads(w)
  BY <1>1, <1>4 DEF EthHolds, Reads, Room
<1>7. Queue(w) = Tail(t.stored)
  BY <1>4 DEF Queue
<1>8. EthHolds(w)
  BY <1>1, <1>2, <1>4, <1>5, <1>6, <1>7 DEF EthHolds
<1> QED
  BY <1>8 DEF w

(* The frame is counted off.                                               *)
LEMMA CountedHolds ==
  ASSUME EthSizes, NEW t, EthHolds(t), t.pc = "count"
  PROVE  EthHolds(Counted(t))
<1> DEFINE w == Counted(t)
           none == <<>>
<1>1. EthShaped(t) /\ t.stored # <<>> /\ t.stored \in Seq(Frames) /\ t.reg[EPKTCNT] = Len(t.stored)
  BY DEF EthHolds, Reads, Tells
<1> HIDE DEF none
<1>2. w = [t EXCEPT !.pc = "idle", !.reg = [t.reg EXCEPT ![EPKTCNT] = t.reg[EPKTCNT] - 1],
                    !.stored = Tail(t.stored), !.packet = none, !.len = 0]
  BY <1>1 DEF Counted, EthShaped, none
<1> HIDE DEF w
<1>3. /\ EthShaped(w) /\ w.pc = "idle" /\ w.NextPacketPtr = t.NextPacketPtr
      /\ w.mac = t.mac /\ w.ram = t.ram /\ w.wr = t.wr /\ w.stored = Tail(t.stored)
      /\ w.reg[ERXRDPT] = t.reg[ERXRDPT] /\ w.reg[EPKTCNT] = t.reg[EPKTCNT] - 1
      /\ w.reg[MAADR] = t.reg[MAADR]
  BY <1>1, <1>2, TheRegisters DEF EthShaped
<1>4. Tail(t.stored) \in Seq(Frames) /\ Len(Tail(t.stored)) = Len(t.stored) - 1
  BY <1>1
<1>5. Tells(w)
  BY <1>1, <1>3, <1>4 DEF EthHolds, Tells
<1>6. Reads(w)
  BY <1>3 DEF EthHolds, Reads
<1>7. Queue(w) = Tail(t.stored) /\ Queue(t) = Tail(t.stored)
  BY <1>3 DEF Queue
<1>8. EthHolds(w)
  BY <1>3, <1>5, <1>6, <1>7 DEF EthHolds
<1> QED
  BY <1>8 DEF w

(* The first of a queue is not changed by what comes behind it.            *)
LEMMA TailAppend ==
  ASSUME NEW S, NEW q \in Seq(S), q # <<>>, NEW f \in S
  PROVE  /\ Tail(Append(q, f)) = Append(Tail(q), f) /\ Head(Append(q, f)) = Head(q)
         /\ Append(q, f) # <<>> /\ Tail(q) \in Seq(S)
  OBVIOUS

(* A frame is stored while the driver is at any point of a receive.        *)
LEMMA StoredHolds ==
  ASSUME EthSizes, NEW t, EthHolds(t), NEW f \in Frames, Space(t) > Len(f)
  PROVE  EthHolds(Stored(t, f))
<1> DEFINE w == Stored(t, f)
           base == t.reg[ERXRDPT]
           q == Queue(t)
           next == Plus(t.wr, Len(f) + 1)
           ram == Written(t.ram, t.wr, f)
<1>1. /\ EthShaped(t) /\ t.stored \in Seq(Frames) /\ t.reg[EPKTCNT] = Len(t.stored) /\ base \in Ring
      /\ t.pc = "count" => t.stored # <<>> 
      /\ t.pc # "idle" => t.stored # <<>> 
      /\ Ringed(t.ram, base, q, t.wr)
  BY DEF EthHolds, Reads, Tells
<1>2. q \in Seq(Frames) /\ Append(q, f) \in Seq(Frames)
  BY <1>1 DEF Queue
<1>3. Rem(base - t.wr - 1) > Len(f)
  BY DEF Space, Rem
<1>4. Ringed(ram, base, Append(q, f), next)
  <2> HIDE DEF q, base
  <2> QED
    BY <1>1, <1>2, <1>3, RingAppend
<1>5. w = [t EXCEPT !.ram = ram, !.wr = next,
                    !.reg = [t.reg EXCEPT ![EPKTCNT] = t.reg[EPKTCNT] + 1],
                    !.stored = Append(t.stored, f)]
  BY <1>1 DEF Stored, Written, EthShaped
<1> HIDE DEF w, ram, next
<1>6. /\ EthShaped(w) /\ w.pc = t.pc /\ w.NextPacketPtr = t.NextPacketPtr
      /\ w.len = t.len /\ w.packet = t.packet /\ w.from = t.from
      /\ w.mac = t.mac /\ w.ram = ram /\ w.wr = next /\ w.stored = Append(t.stored, f)
      /\ w.reg[ERXRDPT] = t.reg[ERXRDPT] /\ w.reg[EPKTCNT] = t.reg[EPKTCNT] + 1
      /\ w.reg[MAADR] = t.reg[MAADR]
  BY <1>1, <1>5, TheRegisters DEF EthShaped
<1>7. Append(t.stored, f) \in Seq(Frames) /\ Len(Append(t.stored, f)) = Len(t.stored) + 1
  BY <1>1
<1>8. Tells(w)
  BY <1>1, <1>6, <1>7 DEF EthHolds, Tells
<1>9. t.pc # "idle" => Head(w.stored) = Head(t.stored) /\ w.stored # <<>>
  BY <1>1, <1>6, TailAppend
<1>10. Reads(w)
  BY <1>1, <1>6, <1>9 DEF EthHolds, Reads, Room
<1>11. Queue(w) = Append(q, f)
  BY <1>1, <1>6, TailAppend DEF Queue
<1>12. EthHolds(w)
  BY <1>4, <1>6, <1>8, <1>10, <1>11 DEF EthHolds
<1> QED
  BY <1>12 DEF w


(* The start: nothing is stored, and the driver has noted the bank.        *)
LEMMA RingEmpty ==
  ASSUME EthSizes, NEW ram
  PROVE  Ringed(ram, 0, <<>>, 0)
<1> DEFINE at == [i \in 1..1 |-> 0]
<1>1. 0 \in Ring /\ RXSIZE \in Nat \ {0}
  BY DEF Ring, EthSizes
<1>2. Plus(0, 0) = 0
  BY <1>1, PlusIs
<1>3. Laid(ram, 0, <<>>, at)
  BY <1>1 DEF Laid
<1>4. 0 = Plus(0, at[Len(<<>>) + 1])
  BY <1>2
<1> QED
  <2> HIDE DEF at
  <2> QED
    BY <1>3, <1>4 DEF Ringed

(* A controller that has been reset.                                       *)
Fresh(t) ==
  /\ EthShaped(t) /\ t.pc = "idle" /\ t.NextPacketPtr = 0 /\ t.wr = 0 /\ t.stored = <<>>
  /\ t.reg[ERXRDPT] = 0 /\ t.reg[EPKTCNT] = 0 /\ t.mac = OWN
LEMMA FreshWrite ==
  ASSUME NEW t, Fresh(t), NEW r \in Registers \ {ERXRDPT, EPKTCNT}, NEW v
  PROVE  Fresh(Write(t, r, v)) /\ Write(t, r, v).reg = [t.reg EXCEPT ![r] = v]
<1> DEFINE u == Write(t, r, v)
<1>1. u = SetTo(t, r, v)
  BY WriteIs DEF Fresh
<1>2. r \in Registers /\ r # ERXRDPT /\ r # EPKTCNT
  OBVIOUS
<1> HIDE DEF u
<1>3. Fresh(u) /\ u.reg = [t.reg EXCEPT ![r] = v]
  BY <1>1, <1>2, TheRegisters DEF Fresh, SetTo, EthShaped
<1> QED
  BY <1>3 DEF u
LEMMA FreshRead ==
  ASSUME NEW t, Fresh(t), NEW r \in Registers
  PROVE  Fresh(Read(t, r)) /\ Read(t, r).reg = t.reg
<1> DEFINE u == Read(t, r)
<1>1. u = [t EXCEPT !.bank = r.bank, !.Enc28j60Bank = r.bank]
  BY ReadIs DEF Fresh
<1> HIDE DEF u
<1>2. Fresh(u) /\ u.reg = t.reg
  BY <1>1 DEF Fresh, EthShaped
<1> QED
  BY <1>2 DEF u
LEMMA FreshPhy ==
  ASSUME NEW t, Fresh(t)
  PROVE  Fresh(PhyWrite(t)) /\ PhyWrite(t).reg[MAADR] = t.reg[MAADR]
<1> DEFINE u == Write(t, MICMD, 1)
           w == Read(u, MISTAT)
<1>1. /\ MICMD \in Registers \ {ERXRDPT, EPKTCNT} /\ MISTAT \in Registers
      /\ MICMD # MAADR /\ MAADR \in Registers
  BY TheRegisters
<1>2. Fresh(u) /\ u.reg = [t.reg EXCEPT ![MICMD] = 1]
  BY <1>1, FreshWrite
<1>3. u.reg[MAADR] = t.reg[MAADR]
  <2> HIDE DEF u
  <2> QED
    BY <1>1, <1>2 DEF Fresh, EthShaped
<1>4. Fresh(w) /\ w.reg = u.reg
  <2> HIDE DEF u
  <2> QED
    BY <1>1, <1>2, FreshRead
<1> QED
  BY <1>3, <1>4 DEF PhyWrite

(* The invariant holds after network_init,                                 *)
LEMMA EthInitInv ==
  ASSUME EthSizes, EthInit
  PROVE  EthInv
<1> DEFINE zero == [r \in Registers |-> 0]
           reset == [PowerOn EXCEPT !.bank = 0, !.reg = zero, !.wr = 0, !.NextPacketPtr = 0]
           t1 == Read(reset, ECON1)
           t2 == Write(t1, ERXRDPT, 0)
           t3 == Write(t2, MACON1, 1)
           t4 == network_set_MAC(t3, OWN)
           t5 == PhyWrite(t4)
           t6 == SetBank(t5, ECON1)
           t7 == PhyWrite(t6)
<1>1. eth = t7
  BY DEF EthInit, network_init, enc28j60Init
<1> HIDE DEF zero
<1>2. /\ DOMAIN zero = Registers /\ zero = [r \in Registers |-> zero[r]]
      /\ \A r \in Registers : zero[r] = 0
  BY DEF zero
<1>3. /\ EthShaped(reset) /\ reset.pc = "idle" /\ reset.NextPacketPtr = 0 /\ reset.wr = 0
      /\ reset.stored = <<>> /\ reset.reg = zero /\ reset.mac = OWN /\ reset.Enc28j60Bank = 0
  <2> DEFINE none  == <<>>
             cells == [p \in Ring |-> [next |-> 0, len |-> 0]]
             on    == PowerOn
  <2>1. on = [pc |-> "idle", Enc28j60Bank |-> 0, bank |-> 0, reg |-> zero,
              NextPacketPtr |-> 0, from |-> 0, len |-> 0, packet |-> none, mac |-> OWN,
              ram |-> cells, wr |-> 0, stored |-> none, tx |-> none]
    BY DEF PowerOn, zero
  <2>2. reset = [on EXCEPT !.bank = 0, !.reg = zero, !.wr = 0, !.NextPacketPtr = 0]
    OBVIOUS
  <2>3. none = <<>>
    OBVIOUS
  <2> HIDE DEF on, none, cells, reset
  <2>4. reset = [pc |-> "idle", Enc28j60Bank |-> 0, bank |-> 0, reg |-> zero,
                 NextPacketPtr |-> 0, from |-> 0, len |-> 0, packet |-> none, mac |-> OWN,
                 ram |-> cells, wr |-> 0, stored |-> none, tx |-> none]
    BY <2>1, <2>2
  <2> QED
    BY <1>2, <2>3, <2>4 DEF EthShaped
<1> HIDE DEF reset
<1>4. t1 = reset
  BY <1>3 DEF Read, SetBank, ECON1, Reg
<1>5. Fresh(t1) /\ t1.reg = zero
  <2> HIDE DEF t1
  <2> QED
    BY <1>2, <1>3, <1>4, TheRegisters DEF Fresh
<1> HIDE DEF t1
<1>6. Fresh(t2)
  <2>1. t2 = SetTo(t1, ERXRDPT, 0)
    BY <1>5, WriteIs, TheRegisters DEF Fresh
  <2> HIDE DEF t2
  <2> QED
    BY <1>5, <2>1, TheRegisters DEF Fresh, SetTo, EthShaped
<1> HIDE DEF t2
<1>7. Fresh(t3)
  BY <1>6, FreshWrite, TheRegisters
<1> HIDE DEF t3
<1>8. Fresh(t4) /\ t4.reg[MAADR] = OWN
  <2>1. t4 = Write(t3, MAADR, OWN)
    BY DEF network_set_MAC
  <2>2. MAADR \in Registers \ {ERXRDPT, EPKTCNT}
    BY TheRegisters
  <2>3. Fresh(t4) /\ t4.reg = [t3.reg EXCEPT ![MAADR] = OWN]
    <3>1. Fresh(Write(t3, MAADR, OWN)) /\ Write(t3, MAADR, OWN).reg = [t3.reg EXCEPT ![MAADR] = OWN]
      BY <1>7, <2>2, FreshWrite
    <3> QED
      BY <2>1, <3>1
  <2> HIDE DEF t4
  <2> QED
    BY <1>7, <2>2, <2>3 DEF Fresh, EthShaped
<1> HIDE DEF t4
<1>9. Fresh(t5) /\ t5.reg[MAADR] = OWN
  BY <1>8, FreshPhy
<1> HIDE DEF t5
<1>10. Fresh(t6) /\ t6.reg[MAADR] = OWN
  <2>1. t6 = t5 \/ t6 = [t5 EXCEPT !.bank = ECON1.bank, !.Enc28j60Bank = ECON1.bank]
    BY DEF SetBank
  <2> HIDE DEF t6
  <2> QED
    BY <1>9, <2>1 DEF Fresh, EthShaped
<1> HIDE DEF t6
<1>11. Fresh(eth) /\ eth.reg[MAADR] = OWN
  BY <1>1, <1>10, FreshPhy
<1>12. OWN \in MACS /\ 0 \in Ring
  BY DEF EthSizes, Ring
<1>13. Tells(eth)
  BY <1>11, <1>12 DEF Fresh, Tells
<1>14. Reads(eth)
  BY <1>11 DEF Fresh, Reads
<1>15. Queue(eth) = <<>>
  BY <1>11 DEF Fresh, Queue
<1> QED
  BY <1>11, <1>13, <1>14, <1>15, RingEmpty DEF EthInv, EthHolds, Fresh


(* and after every step.                                                   *)
LEMMA EthNextInv ==
  ASSUME EthSizes, EthInv, [EthNext]_eth
  PROVE  EthInv'
<1>0. EthHolds(eth) /\ (EthInv' <=> EthHolds(eth'))
  BY DEF EthInv
<1>1. CASE UNCHANGED eth
  BY <1>0, <1>1
<1>2. ASSUME Idle, Value(eth, EPKTCNT) = 0, eth' = Read(eth, EPKTCNT)
      PROVE  EthHolds(eth')
  BY <1>0, <1>2, ReadHolds, TheRegisters
<1>3. ASSUME Idle, Value(eth, EPKTCNT) # 0, eth' = Header(Read(eth, EPKTCNT))
      PROVE  EthHolds(eth')
  <2> DEFINE u == Read(eth, EPKTCNT)
  <2>1. EthHolds(u) /\ SameView(u, eth)
    BY <1>0, ReadHolds, TheRegisters
  <2>2. eth.reg[EPKTCNT] # 0
    BY <1>0, <1>3, ReadIs, TheRegisters DEF EthHolds
  <2>3. eth.stored # <<>>
    BY <1>0, <2>2 DEF EthHolds, Tells
  <2> HIDE DEF u
  <2>4. u.pc = "idle" /\ u.stored # <<>>
    BY <1>3, <2>1, <2>3 DEF SameView, Idle
  <2>5. EthHolds(Header(u))
    BY <2>1, <2>4, HeaderHolds
  <2> QED
    BY <1>3, <2>5 DEF u
<1>4. CASE PacketReceive
  BY <1>0, <1>2, <1>3, <1>4, CopiedHolds, FreedHolds, CountedHolds DEF PacketReceive
<1>5. CASE PacketSend
  <2>1. PICK f \in Frames : eth' = [Write(Write(eth, EWRPT, 1), ETXND, 1 + Len(f)) EXCEPT !.tx = f]
    BY <1>5 DEF PacketSend
  <2> DEFINE u == Write(eth, EWRPT, 1)
             l == 1 + Len(f)
             w == Write(u, ETXND, l)
  <2>2. /\ EWRPT \in Registers \ {ERXRDPT, EPKTCNT} /\ EWRPT # MAADR
        /\ ETXND \in Registers \ {ERXRDPT, EPKTCNT} /\ ETXND # MAADR
    BY TheRegisters
  <2>3. EthHolds(u)
    BY <1>0, <2>2, WriteHolds
  <2> HIDE DEF u, l
  <2>4. EthHolds(w)
    BY <2>2, <2>3, WriteHolds
  <2>5. eth' = [w EXCEPT !.tx = f]
    BY <2>1 DEF u, l
  <2> HIDE DEF w
  <2>6. EthShaped(eth') /\ SameView(eth', w) /\ eth'.reg[MAADR] \in MACS
    BY <2>4, <2>5 DEF EthHolds, EthShaped, SameView, Tells
  <2> QED
    BY <1>0, <2>4, <2>6, SameHolds
<1>6. CASE SetMac
  <2>1. PICK mac \in MACS : eth' = Write(eth, MAADR, mac)
    BY <1>6 DEF SetMac, network_set_MAC
  <2>2. MAADR \in Registers \ {ERXRDPT, EPKTCNT}
    BY TheRegisters
  <2> QED
    BY <1>0, <2>1, <2>2, WriteHolds
<1>7. CASE GetMac
  <2> DEFINE u == Read(eth, MAADR)
  <2>1. EthHolds(u) /\ Value(eth, MAADR) = eth.reg[MAADR] /\ u.reg = eth.reg
    BY <1>0, ReadHolds, ReadIs, TheRegisters DEF EthHolds
  <2>2. eth' = [u EXCEPT !.mac = eth.reg[MAADR]] /\ eth.reg[MAADR] \in MACS
    BY <1>0, <1>7, <2>1 DEF GetMac, network_get_MAC, EthHolds, Tells
  <2> HIDE DEF u
  <2>3. /\ EthShaped(eth') /\ eth'.mac \in MACS
        /\ eth'.pc = u.pc /\ eth'.NextPacketPtr = u.NextPacketPtr /\ eth'.from = u.from
        /\ eth'.len = u.len /\ eth'.packet = u.packet /\ eth'.ram = u.ram /\ eth'.wr = u.wr
        /\ eth'.stored = u.stored /\ eth'.reg = u.reg
    BY <2>1, <2>2 DEF EthHolds, EthShaped
  <2> DEFINE w == eth'
  <2> HIDE DEF w
  <2>4. Tells(w) /\ Reads(w) /\ Queue(w) = Queue(u)
    BY <2>1, <2>3 DEF EthHolds, Tells, Reads, Room, Queue, w
  <2>5. EthHolds(w)
    BY <2>1, <2>3, <2>4 DEF EthHolds, w
  <2> QED
    BY <1>0, <2>5 DEF w
<1>8. CASE FrameArrives
  BY <1>0, <1>8, StoredHolds DEF FrameArrives
<1>9. CASE Transmitted
  <2> DEFINE none == <<>>
  <2> HIDE DEF none
  <2>1. eth' = [eth EXCEPT !.tx = none]
    BY <1>9 DEF Transmitted, none
  <2>2. EthShaped(eth') /\ SameView(eth', eth) /\ eth'.reg[MAADR] \in MACS
    BY <1>0, <2>1 DEF EthHolds, EthShaped, SameView, Tells
  <2> QED
    BY <1>0, <2>2, SameHolds
<1> QED
  BY <1>0, <1>1, <1>4, <1>5, <1>6, <1>7, <1>8, <1>9 DEF EthNext

(* The invariant says what the property does.                              *)
LEMMA EthShows ==
  ASSUME EthSizes, EthInv
  PROVE  FramesInOrder
<1> DEFINE f == Head(eth.stored)
           base == eth.reg[ERXRDPT]
<1>1. EthHolds(eth) /\ eth.reg[EPKTCNT] = Len(eth.stored) /\ eth.mac \in MACS
  BY DEF EthInv, EthHolds, Tells
<1>2. ASSUME Idle, eth.stored # <<>>
      PROVE  eth.ram[eth.NextPacketPtr].len = Len(f)
  <2>1. eth.NextPacketPtr = base /\ eth.pc # "count"
    BY <1>1, <1>2 DEF EthHolds, Reads, Idle
  <2>2. FrameAt(eth.ram, base, f)
    BY <1>1, <1>2, <2>1, HeadStands
  <2> HIDE DEF f, base
  <2> QED
    BY <2>1, <2>2 DEF FrameAt
<1>3. ASSUME eth.pc \in {"free", "count"}
      PROVE  eth.packet = SubSeq(f, 1, Min({MAXLEN, Len(f)}))
  <2>1. /\ eth.stored # <<>> /\ eth.len = Min({Len(f), MAXLEN})
        /\ eth.packet = [i \in 1..eth.len |-> f[i]]
    BY <1>1, <1>3 DEF EthHolds, Reads, Room
  <2>2. f \in Frames /\ f \in Seq(Range(f)) /\ Len(f) \in Nat /\ MAXLEN \in Nat
    BY <1>1, <2>1 DEF EthHolds, Tells, EthSizes
  <2> HIDE DEF f
  <2>3. eth.len = Min({MAXLEN, Len(f)}) /\ eth.len \in Nat /\ eth.len <= Len(f)
    BY <2>1, <2>2, SmallestOf
  <2> DEFINE k == eth.len
  <2> HIDE DEF k
  <2>4. SubSeq(f, 1, k) = [i \in 1..k |-> f[i]]
    BY <2>2, <2>3 DEF k
  <2> QED
    BY <2>1, <2>3, <2>4 DEF k
<1> QED
  BY <1>1, <1>2, <1>3 DEF FramesInOrder

(* Frames are handed over as they came, whole with their CRC (enc28j60.c   *)
(* 353-355: the comment takes it off, the code does not), once and in      *)
(* order, while others arrive, for any ring and any frames that fit it.    *)
THEOREM ReceivedInOrder == EthSpec => []FramesInOrder
<1> USE EthAssumption
<1>1. EthInit => EthInv
  BY EthInitInv
<1>2. EthInv /\ [EthNext]_eth => EthInv'
  BY EthNextInv
<1>3. EthInv => FramesInOrder
  BY EthShows
<1> QED
  BY <1>1, <1>2, <1>3, PTL DEF EthSpec

(***************************************************************************)
(* The temperature sensors (Ds18x20).                                      *)
(***************************************************************************)

(* An entry of the table, its size in sixteenths, and whether it tells a   *)
(* temperature to the precision of its sensor.                             *)
Entries == [id : Sensors \cup {NoSensor}, subzero : BOOLEAN, cel : Nat, frac : 0..15]
Size(v) == 16 * v.cel + v.frac
Fits(v, t) ==
  /\ Abs((IF v.subzero THEN -Size(v) ELSE Size(v)) - t) <= Tolerance(v.id)
  /\ ~v.subzero => Abs(16 * DS18X20_temp_to_decicel(v) - 10 * Size(v)) <= 8

(* Rounding to tenths.                                                     *)
LEMMA Rounded ==
  ASSUME NEW v \in Entries, ~v.subzero
  PROVE  Abs(16 * DS18X20_temp_to_decicel(v) - 10 * Size(v)) <= 8
<1> DEFINE f == v.frac
           c == v.cel
           e == (f * 625) \div 1000 + (IF f \in {1, 3, 4, 6, 9, 11, 12, 14} THEN 1 ELSE 0)
<1>1. f \in 0..15 /\ c \in Nat
  BY DEF Entries
<1>2. DS18X20_temp_to_decicel(v) =
        (f * 625) \div 1000 + 10 * c + (IF f \in {1, 3, 4, 6, 9, 11, 12, 14} THEN 1 ELSE 0)
  BY DEF DS18X20_temp_to_decicel
<1>3. e \in Int /\ -8 <= 16 * e - 10 * f /\ 16 * e - 10 * f <= 8
  <2> HIDE DEF f
  <2> QED
    BY <1>1
<1>4. DS18X20_temp_to_decicel(v) = e + 10 * c
  <2> HIDE DEF f, c
  <2> QED
    BY <1>1, <1>2
<1>5. Abs(16 * (e + 10 * c) - 10 * (16 * c + f)) <= 8
  <2> HIDE DEF e, f, c
  <2> QED
    BY <1>1, <1>3 DEF Abs
<1> QED
  BY <1>4, <1>5 DEF Size

(* Below zero the word is the temperature and 65536.                       *)
Sizes    == 0..4000
Whole(z) == (z \div 16) % 256
Rest(z)  == z % 16
Splits(z) == Whole(z) \in Nat /\ Rest(z) \in 0..15 /\ z = 16 * Whole(z) + Rest(z)
(* A size is put together from its degrees and its sixteenths.             *)
LEMMA Parts16 ==
  ASSUME NEW z \in Sizes
  PROVE  Splits(z)
<1>1. PICK q : q = z \div 16
  OBVIOUS
<1>2. PICK f : f = z % 16
  OBVIOUS
<1>3. 16 * q + f = z /\ q \in 0..250 /\ f \in 0..15 /\ q % 256 = q
  BY <1>1, <1>2 DEF Sizes
<1>4. Whole(z) = q /\ Rest(z) = f
  BY <1>1, <1>2, <1>3 DEF Whole, Rest
<1> QED
  BY <1>3, <1>4 DEF Splits

(* What is made of the word of a temperature: of all its bits,             *)
LEMMA WordOf ==
  ASSUME NEW t \in SensorRange, NEW w, w = IF t >= 0 THEN t ELSE t + 65536
  PROVE  /\ Positive(w) \in Sizes
         /\ Abs((IF w >= Word \div 2 THEN -Positive(w) ELSE Positive(w)) - t) <= 0
<1>1. Word = 65536 /\ Word \div 2 = 32768 /\ t \in -880..2000
  BY DEF Word, SensorRange
<1>2. CASE t >= 0
  <2>1. Positive(w) = t /\ ~(w >= Word \div 2)
    BY <1>1, <1>2 DEF Positive
  <2> QED
    BY <1>1, <1>2, <2>1 DEF Abs, Sizes
<1>3. CASE t < 0
  <2>1. Positive(w) = -t /\ w >= Word \div 2
    BY <1>1, <1>3 DEF Positive
  <2> QED
    BY <1>1, <1>3, <2>1 DEF Abs, Sizes
<1> QED
  BY <1>1, <1>2, <1>3

LEMMA Fine ==
  ASSUME NEW t \in SensorRange, NEW w, w = t % Word
  PROVE  /\ Positive(w) \in Sizes
         /\ Abs((IF w >= Word \div 2 THEN -Positive(w) ELSE Positive(w)) - t) <= 0
<1>1. t \in -880..2000
  BY DEF SensorRange
<1>2. w = IF t >= 0 THEN t ELSE t + 65536
  BY <1>1 DEF Word
<1> QED
  BY <1>2, WordOf

(* of a word and the rest of its division,                                 *)
LEMMA Extended ==
  ASSUME NEW t \in SensorRange
  PROVE  LET m == (2 * ((t + 4) \div 16)) % Word
             r == 16 - ((t + 4) % 16)
         IN  (8 * (m - (m % 2)) + 16 - r - 4) % Word = t % Word
  BY DEF SensorRange, Word

(* and of the word of a sensor that counts in steps of s.                  *)
CoarseWord(t, s, u) == (s * (t \div s) + u) % Word
Whole_steps(w, s) == s * (Positive(w) \div s)
LEMMA Coarse ==
  ASSUME NEW s \in {2, 4, 8}, NEW t \in SensorRange, NEW u \in {0, s - 1},
         NEW w, w = CoarseWord(t, s, u)
  PROVE  /\ Whole_steps(w, s) \in Sizes
         /\ Abs((IF w >= Word \div 2 THEN -Whole_steps(w, s) ELSE Whole_steps(w, s)) - t) <= s
<1> DEFINE k == t \div s
<1>1. /\ k \in -440..1000 /\ t \in Int /\ s * k <= t /\ t < s * k + s
      /\ s * k \in -888..2000
  <2>1. CASE s = 2 BY <2>1 DEF SensorRange
  <2>2. CASE s = 4 BY <2>2 DEF SensorRange
  <2>3. CASE s = 8 BY <2>3 DEF SensorRange
  <2> QED BY <2>1, <2>2, <2>3
<1>2. w = (s * k + u) % 65536 /\ Word \div 2 = 32768 BY DEF CoarseWord, Word
<1> HIDE DEF k
<1> DEFINE sk == s * k
<1>3. u \in 0..7 /\ sk \in -888..2000 BY <1>1
<1>4. CASE k >= 0
  <2>0. sk >= 0 BY <1>1, <1>4
  <2>1. w = sk + u /\ w < 32768 /\ Positive(w) = sk + u
    <3>1. w = (sk + u) % 65536 BY <1>2
    <3> HIDE DEF sk
    <3>2. w = sk + u /\ w < 32768 BY <1>3, <2>0, <3>1
    <3> QED BY <1>3, <2>0, <3>2 DEF Positive, Word
  <2>2. Whole_steps(w, s) = sk
    <3>1. CASE s = 2 BY <1>1, <1>4, <2>1, <3>1 DEF Whole_steps
    <3>2. CASE s = 4 BY <1>1, <1>4, <2>1, <3>2 DEF Whole_steps
    <3>3. CASE s = 8 BY <1>1, <1>4, <2>1, <3>3 DEF Whole_steps
    <3> QED BY <3>1, <3>2, <3>3
  <2>3. sk \in Sizes /\ Abs(sk - t) <= s /\ ~(w >= Word \div 2)
    <3> HIDE DEF sk
    <3>1. sk \in Int /\ sk <= t /\ t < sk + s /\ s \in Int BY <1>1, <1>3 DEF sk
    <3> QED BY <1>1, <1>2, <1>3, <2>0, <2>1, <3>1 DEF Sizes, Abs
  <2> QED BY <2>2, <2>3
<1>5. CASE k < 0
  <2>0. sk < 0 /\ sk + u < 0
    <3>1. CASE s = 2 BY <1>1, <1>5, <3>1
    <3>2. CASE s = 4 BY <1>1, <1>5, <3>2
    <3>3. CASE s = 8 BY <1>1, <1>5, <3>3
    <3> QED BY <3>1, <3>2, <3>3
  <2>1. w >= 32768 /\ Positive(w) = -(sk + u)
    <3>1. w = (sk + u) % 65536 BY <1>2
    <3> HIDE DEF sk
    <3>2. sk + u \in Int /\ -65536 <= sk + u /\ sk + u < 0 BY <1>3, <2>0
    <3>3. \A n \in Int : -65536 <= n /\ n < 0 => n % 65536 = 65536 + n OBVIOUS
    <3>4. w = 65536 + (sk + u) BY <3>1, <3>2, <3>3
    <3> QED BY <1>3, <2>0, <3>4 DEF Positive, Word
  <2>2. Whole_steps(w, s) = IF u = 0 THEN -sk ELSE -(sk + s)
    <3>1. CASE s = 2 BY <1>1, <1>5, <2>1, <3>1 DEF Whole_steps
    <3>2. CASE s = 4 BY <1>1, <1>5, <2>1, <3>2 DEF Whole_steps
    <3>3. CASE s = 8 BY <1>1, <1>5, <2>1, <3>3 DEF Whole_steps
    <3> QED BY <3>1, <3>2, <3>3
  <2>3. w >= Word \div 2 BY <1>2, <2>1
  <2> DEFINE z == IF u = 0 THEN sk ELSE sk + s
  <2>4. z \in Int /\ -z \in Sizes /\ Abs(z - t) <= s
    <3>1. sk \in Int /\ sk <= t /\ t < sk + s /\ s \in 2..8 BY <1>1, <1>3
    <3>2. sk + s <= 0
      <4>1. CASE s = 2 BY <1>1, <1>5, <4>1
      <4>2. CASE s = 4 BY <1>1, <1>5, <4>2
      <4>3. CASE s = 8 BY <1>1, <1>5, <4>3
      <4> QED BY <4>1, <4>2, <4>3
    <3> HIDE DEF sk
    <3> QED BY <1>1, <1>3, <2>0, <3>1, <3>2 DEF Sizes, Abs
  <2>5. Whole_steps(w, s) = -z /\ -(-z) = z BY <2>2, <2>4
  <2> HIDE DEF z
  <2> QED BY <2>3, <2>4, <2>5
<1> QED BY <1>1, <1>4, <1>5

(* What is stored of an answer is right.                                   *)
LEMMA Converted ==
  ASSUME DsSizes, NEW id \in Sensors, NEW t \in SensorRange, NEW sp \in Scratchpads(id, t)
  PROVE  /\ DS18X20_meas_to_cel(id, sp) \in Entries /\ DS18X20_meas_to_cel(id, sp).id = id
         /\ Fits(DS18X20_meas_to_cel(id, sp), t)
<1> DEFINE meas == IF Family[id] = "18S20"
                   THEN (8 * (sp.meas - (sp.meas % 2)) + 16 - sp.remain - 4) % Word ELSE sp.meas
           size == Step(id) * (Positive(meas) \div Step(id))
           sub  == meas >= Word \div 2
           v    == [id |-> id, subzero |-> sub, cel |-> Whole(size), frac |-> Rest(size)]
           tol  == Tolerance(id)
<1>1. DS18X20_meas_to_cel(id, sp) = v
  BY DEF DS18X20_meas_to_cel, Whole, Rest
<1>2. size \in Sizes /\ Abs((IF sub THEN -size ELSE size) - t) <= tol
  <2>f. ASSUME meas = t % Word, Step(id) = 1
        PROVE  size \in Sizes /\ Abs((IF sub THEN -size ELSE size) - t) <= tol
    <3>1. tol = 0 BY <2>f DEF Tolerance
    <3>2. /\ Positive(meas) \in Sizes
          /\ Abs((IF sub THEN -Positive(meas) ELSE Positive(meas)) - t) <= 0
      <4> HIDE DEF meas
      <4> QED BY <2>f, Fine
    <3>3. size = Positive(meas)
      <4> DEFINE z == Positive(meas)
                 d == Step(id)
      <4>0. size = d * (z \div d) OBVIOUS
      <4> HIDE DEF size
      <4>1. z \in Nat /\ d = 1
        <5>1. z \in Sizes BY <3>2
        <5>2. d = 1 BY <2>f
        <5> HIDE DEF z, d
        <5> QED BY <5>1, <5>2 DEF Sizes
      <4> HIDE DEF z, d
      <4>2. 1 * (z \div 1) = z BY <4>1
      <4>3. size = z BY <4>0, <4>1, <4>2, Zenon
      <4> QED BY <4>3 DEF z
    <3> HIDE DEF size, tol, sub
    <3> QED BY <3>1, <3>2, <3>3
  <2>1. CASE Family[id] = "18S20"
    <3>1. sp = [meas |-> (2 * ((t + 4) \div 16)) % Word, remain |-> 16 - ((t + 4) % 16)]
      BY <2>1 DEF Scratchpads
    <3>2. meas = t % Word
      <4> DEFINE m == (2 * ((t + 4) \div 16)) % Word
                 k == 16 - ((t + 4) % 16)
      <4>1. sp.meas = m /\ sp.remain = k BY <3>1
      <4>2. (8 * (m - (m % 2)) + 16 - k - 4) % Word = t % Word BY Extended
      <4> HIDE DEF m, k
      <4> QED BY <2>1, <4>1, <4>2
    <3>3. Step(id) = 1 BY <2>1 DEF Step
    <3> HIDE DEF meas, size, tol, sub
    <3> QED BY <2>f, <3>2, <3>3
  <2>2. CASE Family[id] # "18S20"
    <3> DEFINE st == Step(id)
    <3>1. st \in {1, 2, 4, 8} BY <2>2 DEF DsSizes, Step
    <3>2. PICK u \in {0, st - 1} : sp = [meas |-> (st * (t \div st) + u) % Word, remain |-> 0]
      BY <2>2 DEF Scratchpads
    <3>3. meas = CoarseWord(t, st, u) BY <2>2, <3>2 DEF CoarseWord
    <3>4. size = Whole_steps(meas, st) BY DEF Whole_steps
    <3>5. CASE st = 1
      <4>1. u = 0 /\ (1 * (t \div 1) + 0) % Word = t % Word BY <3>5 DEF SensorRange
      <4>2. meas = t % Word BY <3>3, <3>5, <4>1 DEF CoarseWord
      <4> HIDE DEF meas, size, tol, sub
      <4> QED BY <2>f, <3>5, <4>2 DEF st
    <3>6. CASE st # 1
      <4>1. st \in {2, 4, 8} /\ tol = st BY <3>1, <3>6 DEF Tolerance
      <4> HIDE DEF st, meas
      <4>2. /\ Whole_steps(meas, st) \in Sizes
            /\ Abs((IF meas >= Word \div 2 THEN -Whole_steps(meas, st)
                    ELSE Whole_steps(meas, st)) - t) <= st
        BY <3>2, <3>3, <4>1, Coarse
      <4> HIDE DEF size, tol
      <4> QED BY <3>4, <4>1, <4>2
    <3> QED BY <3>5, <3>6
  <2> QED
    BY <2>1, <2>2
<1>3. sub \in BOOLEAN
  OBVIOUS
<1> HIDE DEF size, sub
<1>4. v \in Entries /\ v.id = id /\ v.subzero = sub /\ Size(v) = size
  <2>1. Whole(size) \in Nat /\ Rest(size) \in 0..15 /\ size = 16 * Whole(size) + Rest(size)
    <3>1. Splits(size)
      BY <1>2, Parts16
    <3> QED
      BY <3>1 DEF Splits
  <2>2. v.id = id /\ v.subzero = sub /\ v.cel = Whole(size) /\ v.frac = Rest(size)
    OBVIOUS
  <2>3. v \in Entries
    BY <1>3, <2>1 DEF Entries
  <2> HIDE DEF v
  <2> QED
    BY <2>1, <2>2, <2>3 DEF Size
<1> HIDE DEF v
<1>5. Fits(v, t)
  BY <1>2, <1>4, Rounded DEF Fits
<1> QED
  BY <1>1, <1>4, <1>5


(* The table and the sensors.                                              *)
DsRecs ==
  [DS18B20Conv : BOOLEAN, next : 0..(MAXSENSORS + 1), values : [Places -> Entries],
   bus : SUBSET Sensors, measured : [Sensors -> SensorRange], read : [Sensors -> SensorRange]]
Slots == 0..(MAXSENSORS - 1)
(* An entry tells what its sensor answered last, and no other is of it.    *)
Told(t, p) == t.values[p].id # NoSensor => Fits(t.values[p], t.read[t.values[p].id])
Once(t, p) == t.values[p].id # NoSensor => \A q \in Slots : t.values[q].id = t.values[p].id => q = p
Table(t) == \A p \in Slots : Told(t, p) /\ Once(t, p)
(* The invariant.                                                          *)
DsInv == ds \in DsRecs /\ Table(ds)

(* The first of some entries.                                              *)
LEMMA LeastSlot ==
  ASSUME NEW S \in SUBSET Nat, S # {}
  PROVE  Min(S) \in S
  BY MinIs

(* One answer is stored.                                                   *)
LEMMA StoredTable ==
  ASSUME DsSizes, NEW t \in DsRecs, Table(t), NEW id \in Sensors,
         NEW sp \in Scratchpads(id, t.measured[id])
  PROVE  /\ StoredValue(t, id, sp) \in DsRecs /\ Table(StoredValue(t, id, sp))
         /\ StoredValue(t, id, sp).measured = t.measured
<1> DEFINE u == StoredValue(t, id, sp)
           v == DS18X20_meas_to_cel(id, sp)
           m == t.measured[id]
           known == {p \in Slots : t.values[p].id = id}
           found == findSensor(t, id)
           n == MAXSENSORS
<1>1. n \in Nat \ {0} /\ id # NoSensor /\ m \in SensorRange
  BY DEF DsSizes, DsRecs
<1>2. v \in Entries /\ v.id = id /\ Fits(v, m)
  BY <1>1, Converted
<1>3. /\ found.pos \in Places /\ found.next \in 0..(n + 1)
      /\ \A p \in Slots : t.values[p].id = id => p = found.pos
  <2> DEFINE next == IF t.next > n THEN 0 ELSE t.next
  <2>1. found = IF known # {} THEN [pos |-> Min(known), next |-> t.next]
                ELSE [pos |-> next, next |-> next + 1]
    BY DEF findSensor, Slots
  <2>2. t.next \in 0..(n + 1)
    BY DEF DsRecs
  <2>3. next \in 0..n /\ next + 1 \in 0..(n + 1)
    BY <1>1, <2>2
  <2>4. CASE known = {}
    BY <2>1, <2>3, <2>4 DEF Places
  <2>5. CASE known # {}
    <3>1. known \in SUBSET Nat
      BY <1>1 DEF Slots
    <3>2. Min(known) \in known
      <4> HIDE DEF known
      <4> QED
        BY <2>5, <3>1, LeastSlot
    <3>3. Min(known) \in Slots /\ t.values[Min(known)].id = id
      BY <3>2
    <3> HIDE DEF known
    <3>4. Min(known) \in Places
      BY <1>1, <3>3 DEF Slots, Places
    <3>5. found.pos = Min(known) /\ found.next = t.next
      BY <2>1, <2>5
    <3>6. ASSUME NEW p \in Slots, t.values[p].id = id PROVE p = Min(known)
      BY <1>1, <3>3, <3>6 DEF Table, Once
    <3> QED
      BY <2>2, <3>4, <3>5, <3>6
  <2> QED
    BY <2>4, <2>5
<1> DEFINE pos == found.pos
           nxt == found.next
<1>4. u = [t EXCEPT !.values = [t.values EXCEPT ![pos] = v], !.next = nxt,
                    !.read = [t.read EXCEPT ![id] = m]]
  <2> HIDE DEF v
  <2> QED
    BY DEF StoredValue, DsRecs, v
<1> HIDE DEF u, v, pos, nxt, m, n
<1>5. /\ u.values = [t.values EXCEPT ![pos] = v] /\ u.read = [t.read EXCEPT ![id] = m]
      /\ u.measured = t.measured /\ u \in DsRecs
  BY <1>1, <1>2, <1>3, <1>4 DEF DsRecs, pos, nxt, n
<1>6. ASSUME NEW p \in Slots
      PROVE  /\ p = pos => u.values[p] = v
             /\ p # pos => u.values[p] = t.values[p] /\ u.values[p].id # id
  <2>1. p \in Places
    BY <1>1 DEF Slots, Places, n
  <2>2. t.values \in [Places -> Entries]
    BY DEF DsRecs
  <2> QED
    BY <1>3, <1>5, <2>1, <2>2 DEF pos
<1>7. \A i \in Sensors : u.read[i] = IF i = id THEN m ELSE t.read[i]
  BY <1>5 DEF DsRecs
<1>8. ASSUME NEW p \in Slots PROVE Told(u, p) /\ Once(u, p)
  <2>1. p \in Places /\ t.values[p] \in Entries
    BY <1>1 DEF Slots, Places, n, DsRecs
  <2>2. CASE p = pos
    <3>1. u.values[p] = v /\ u.read[v.id] = m
      BY <1>2, <1>6, <1>7, <2>2
    <3>2. ASSUME NEW q \in Slots, u.values[q].id = id PROVE q = p
      BY <1>6, <2>2, <3>2
    <3> QED
      BY <1>2, <3>1, <3>2 DEF Told, Once
  <2>3. CASE p # pos
    <3>1. u.values[p] = t.values[p] /\ u.values[p].id # id
      BY <1>6, <2>3
    <3>2. t.values[p].id # NoSensor => u.read[t.values[p].id] = t.read[t.values[p].id]
      BY <1>7, <2>1, <3>1 DEF Entries
    <3>3. Told(t, p) /\ Once(t, p)
      BY DEF Table
    <3>4. ASSUME NEW q \in Slots, u.values[q].id = u.values[p].id PROVE u.values[q] = t.values[q]
      BY <1>2, <1>6, <3>1, <3>4
    <3> QED
      BY <3>1, <3>2, <3>3, <3>4 DEF Told, Once
  <2> QED
    BY <2>2, <2>3
<1> QED
  BY <1>5, <1>8 DEF Table, u

(* All the answers of a call are.                                          *)
LEMMA AllStored ==
  ASSUME DsSizes, NEW t \in DsRecs, Table(t), NEW good \in SUBSET Sensors,
         NEW order \in Seq(good), NEW sp,
         \A id \in good : sp[id] \in Scratchpads(id, t.measured[id])
  PROVE  StoreAll(t, order, sp) \in DsRecs /\ Table(StoreAll(t, order, sp))
<1> DEFINE T == {u \in DsRecs : Table(u) /\ u.measured = t.measured}
           F == [u \in T |-> [id \in good |-> StoredValue(u, id, sp[id])]]
           Is(g) == g = [S \in SUBSET DOMAIN order |->
                           IF S = {} THEN t
                           ELSE StoredValue(g[S \ {Max(S)}], order[Max(S)], sp[order[Max(S)]])]
           g == CHOOSE iter : Is(iter)
<1>1. \A u \in T : \A id \in good : StoredValue(u, id, sp[id]) \in T
  <2> SUFFICES ASSUME NEW u \in T, NEW id \in good
               PROVE  StoredValue(u, id, sp[id]) \in T
    OBVIOUS
  <2>1. u \in DsRecs /\ Table(u) /\ u.measured = t.measured /\ id \in Sensors
    OBVIOUS
  <2>2. sp[id] \in Scratchpads(id, u.measured[id])
    BY <2>1
  <2> QED
    BY <2>1, <2>2, StoredTable
<1>2. F \in [T -> [good -> T]] /\ t \in T
  <2> HIDE DEF T
  <2>1. t \in T
    BY DEF T
  <2> QED
    BY <1>1, <2>1
<1>3. \A u \in T : \A d \in good : F[u][d] = StoredValue(u, d, sp[d])
  OBVIOUS
<1>4. DOMAIN order = 1..Len(order) /\ \A i \in 1..Len(order) : order[i] \in good
  BY LenProperties, ElementOfSeq
<1>m. ASSUME NEW S \in SUBSET DOMAIN order, S # {}
      PROVE  Max(S) \in DOMAIN order /\ S \ {Max(S)} \in SUBSET DOMAIN order
  <2>1. Len(order) \in Nat /\ S \in SUBSET (0..Len(order))
    BY <1>4, LenProperties
  <2> QED
    BY <1>m, <2>1, MaxIs
<1> HIDE DEF T
<1>5. Is(g)
  <2> HIDE DEF F
  <2>1. PICK e : Folded(e, T, t, F, order)
    BY <1>2, FoldExists
  <2>2. ASSUME NEW S \in SUBSET DOMAIN order
        PROVE  e[S] = IF S = {} THEN t
                      ELSE StoredValue(e[S \ {Max(S)}], order[Max(S)], sp[order[Max(S)]])
    BY <2>1, <1>3, <1>4, <1>m DEF Folded
  <2>3. e = [S \in SUBSET DOMAIN order |-> e[S]]
    BY <2>1 DEF Folded
  <2>4. Is(e)
    BY <2>2, <2>3
  <2> HIDE DEF Is
  <2> QED
    BY <2>4
<1>6. StoreAll(t, order, sp) = g[DOMAIN order]
  BY DEF StoreAll, FoldLeft, MapThenFoldSet
<1> HIDE DEF g
<1>7. g[{}] = t
  BY <1>5
<1>8. ASSUME NEW S \in SUBSET DOMAIN order, S # {}, g[S \ {Max(S)}] \in T
      PROVE  g[S] = F[g[S \ {Max(S)}]][order[Max(S)]]
  <2> HIDE DEF F
  <2>1. g[S] = StoredValue(g[S \ {Max(S)}], order[Max(S)], sp[order[Max(S)]])
    BY <1>5, <1>8
  <2> QED
    BY <1>3, <1>4, <1>m, <1>8, <2>1
<1>9. Folds(g, T, F, order)
  <2> HIDE DEF F
  <2> QED
    BY <1>2, <1>7, <1>8 DEF Folds
<1>10. g[DOMAIN order] \in T
  <2> HIDE DEF F
  <2>1. PICK h : Through(h, g, T, F, order)
    BY <1>2, <1>9, FoldSteps
  <2>2. Len(order) \in 0..Len(order)
    BY LenProperties
  <2> QED
    BY <2>1, <2>2 DEF Through
<1> QED
  BY <1>6, <1>10 DEF T

(* Every sequence of some sensors is one of SetToSeqs.                     *)
LEMMA OrdersAre ==
  ASSUME NEW good, IsFiniteSet(good), NEW order \in SetToSeqs(good)
  PROVE  order \in Seq(good)
<1>1. Cardinality(good) \in Nat
  BY FS_CardinalityType
<1>2. order \in [1..Cardinality(good) -> good]
  BY DEF SetToSeqs
<1> QED
  BY <1>1, <1>2, SeqDef

(* A sensor has a temperature at first.                                    *)
LEMMA StartIs ==
  ASSUME DsSizes
  PROVE  Start \in SensorRange
<1> DEFINE K == {k \in 0..2880 : k - 880 \in Temps}
<1>1. \A t \in Temps : t \in Int /\ t + 880 \in 0..2880 /\ (t + 880) - 880 = t
  BY DEF DsSizes, SensorRange
<1>2. K \in SUBSET Nat /\ K # {}
  <2>1. PICK t : t \in Temps
    BY DEF DsSizes
  <2>2. t + 880 \in K
    BY <1>1, <2>1
  <2>3. \A k \in K : k \in Nat
    OBVIOUS
  <2> HIDE DEF K
  <2> QED
    BY <2>2, <2>3
<1>3. PICK k \in K : \A j \in K : k <= j
  <2> HIDE DEF K
  <2> QED
    BY <1>2, LeastNumber
<1>4. \E x \in Temps : \A y \in Temps : x <= y
  <2>1. k \in Int /\ k - 880 \in Temps
    OBVIOUS
  <2>2. ASSUME NEW y \in Temps PROVE k - 880 <= y
    <3>1. y \in Int /\ y + 880 \in K
      BY <1>1
    <3>2. k <= y + 880
      <4> HIDE DEF K
      <4> QED
        BY <1>3, <3>1
    <3> QED
      BY <2>1, <3>1, <3>2
  <2> QED
    BY <2>1, <2>2
<1>5. Start \in Temps
  BY <1>4 DEF Start, Min
<1> QED
  BY <1>5 DEF DsSizes

(* The invariant holds at first,                                           *)
LEMMA DsInitInv ==
  ASSUME DsSizes, DsInit
  PROVE  DsInv
<1>1. Start \in SensorRange /\ MAXSENSORS \in Nat
  BY StartIs DEF DsSizes
<1>2. Empty \in Entries /\ Empty.id = NoSensor
  BY DEF Empty, Entries
<1>3. ds \in DsRecs
  BY <1>1, <1>2 DEF DsInit, DsRecs
<1>4. \A p \in Slots : ds.values[p].id = NoSensor
  BY <1>1, <1>2 DEF DsInit, Slots, Places
<1> QED
  BY <1>3, <1>4 DEF DsInv, Table, Told, Once

(* and after every step.                                                   *)
LEMMA DsNextInv ==
  ASSUME DsSizes, DsInv, [DsNext]_ds
  PROVE  DsInv'
<1>1. CASE UNCHANGED ds
  BY <1>1 DEF DsInv, Table, Told, Once, Fits, Size, DS18X20_temp_to_decicel
<1>2. CASE StartMeasurement
  <2>1. PICK t \in Temps :
          ds' = [ds EXCEPT !.DS18B20Conv = TRUE,
                           !.measured =
                             [id \in Sensors |-> IF id \in ds.bus THEN t ELSE ds.measured[id]]]
    BY <1>2 DEF StartMeasurement, DsInv, DsRecs
  <2>2. t \in SensorRange
    BY DEF DsSizes
  <2>3. ds' \in DsRecs /\ ds'.values = ds.values /\ ds'.read = ds.read
    BY <2>1, <2>2 DEF DsInv, DsRecs
  <2> QED
    BY <2>3 DEF DsInv, Table, Told, Once
<1>3. CASE ReadSensors
  <2>0. PICK good \in SUBSET ds.bus : \E order \in SetToSeqs(good) : \E sp :
          /\ \A id \in good : sp[id] \in Scratchpads(id, ds.measured[id])
          /\ ds' = [StoreAll(ds, order, sp) EXCEPT !.DS18B20Conv = FALSE]
    BY <1>3 DEF ReadSensors
  <2>a. PICK order \in SetToSeqs(good) : \E sp :
          /\ \A id \in good : sp[id] \in Scratchpads(id, ds.measured[id])
          /\ ds' = [StoreAll(ds, order, sp) EXCEPT !.DS18B20Conv = FALSE]
    BY <2>0
  <2>1. PICK sp :
          /\ \A id \in good : sp[id] \in Scratchpads(id, ds.measured[id])
          /\ ds' = [StoreAll(ds, order, sp) EXCEPT !.DS18B20Conv = FALSE]
    BY <2>a
  <2>2. good \in SUBSET Sensors /\ IsFiniteSet(good)
    BY FS_Subset DEF DsInv, DsRecs, DsSizes
  <2>3. order \in Seq(good)
    BY <2>2, OrdersAre
  <2> DEFINE u == StoreAll(ds, order, sp)
  <2>4. u \in DsRecs /\ Table(u)
    BY <2>1, <2>2, <2>3, AllStored DEF DsInv
  <2> HIDE DEF u
  <2>5. ds' \in DsRecs /\ ds'.values = u.values /\ ds'.read = u.read
    BY <2>1, <2>4 DEF DsRecs, u
  <2> QED
    BY <2>4, <2>5 DEF DsInv, Table, Told, Once
<1>4. CASE Exchange
  <2>1. PICK plugged \in SUBSET Sensors : ds' = [ds EXCEPT !.bus = plugged]
    BY <1>4 DEF Exchange
  <2>2. ds' \in DsRecs /\ ds'.values = ds.values /\ ds'.read = ds.read
    BY <2>1 DEF DsInv, DsRecs
  <2> QED
    BY <2>2 DEF DsInv, Table, Told, Once
<1> QED
  BY <1>1, <1>2, <1>3, <1>4 DEF DsNext, updateOWSensors

(* What updateOWSensors shows beside a sensor is the temperature the sensor *)
(* measured, for sensors of any resolution, above and below zero.           *)
THEOREM TableReads == DsSpec => []Readings
<1> USE DsAssumption
<1>1. DsInit => DsInv
  BY DsInitInv
<1>2. DsInv /\ [DsNext]_ds => DsInv'
  BY DsNextInv
<1>3. DsInv => Readings
  BY DEF DsInv, Table, Told, Once, Slots, Readings, Fits, Size
<1> QED
  BY <1>1, <1>2, <1>3, PTL DEF DsSpec

(***************************************************************************)
(* The search of the 1-wire bus (OneWire).                                 *)
(*                                                                         *)
(* A pass is a walk down the tree of the codes, and the passes go through  *)
(* its leaves from ones to zeros: codes are ordered by the highest bit in  *)
(* which they differ, and next is the last turn that was left aside.       *)
(***************************************************************************)
(* The states of a search, and of one pass.                                *)
BusRecs ==
  [devices : SUBSET Codes, diff : 0..255, id : Codes, found : Seq(Codes),
   gone : SUBSET Codes, over : BOOLEAN]
PassRecs == [id : Codes, next : 0..255, listening : SUBSET Codes]

(* Two codes are the same above bit i; x is the lesser one, from bit i on. *)
(* The first bit that is read is the highest.                              *)
Above(x, y, i) == \A j \in 1..BITS : j > i => x[j] = y[j]
Below(x, y, i) == Above(x, y, i) /\ x[i] = 0 /\ y[i] = 1

LEMMA CodeIs ==
  ASSUME NEW x \in Codes, NEW i \in 1..BITS
  PROVE  x[i] = 0 \/ x[i] = 1
BY DEF Codes

LEMMA PartSomewhere ==
  ASSUME BusSizes, NEW x \in Codes, NEW y \in Codes, x # y
  PROVE  \E i \in 1..BITS : Below(x, y, i) \/ Below(y, x, i)
<1> DEFINE D == {i \in 1..BITS : x[i] # y[i]}
<1>0. BITS \in Nat BY DEF BusSizes
<1>1. D # {}
  <2> SUFFICES ASSUME D = {} PROVE FALSE OBVIOUS
  <2>1. \A i \in 1..BITS : x[i] = y[i] OBVIOUS
  <2>2. x = [i \in 1..BITS |-> x[i]] /\ y = [i \in 1..BITS |-> y[i]] BY DEF Codes
  <2> HIDE DEF D
  <2> QED BY <2>1, <2>2
<1>2. D \in SUBSET (0..BITS) BY <1>0
<1> DEFINE m == Max(D)
<1> HIDE DEF D
<1>3. m \in D /\ \A k \in D : k <= m BY <1>0, <1>1, <1>2, MaxIs
<1> HIDE DEF m
<1>4. m \in 1..BITS /\ x[m] # y[m] BY <1>3 DEF D
<1>5. \A j \in 1..BITS : j > m => x[j] = y[j] BY <1>3, <1>4 DEF D
<1>6. Above(x, y, m) /\ Above(y, x, m) BY <1>5 DEF Above
<1>7. (x[m] = 0 /\ y[m] = 1) \/ (y[m] = 0 /\ x[m] = 1) BY <1>4, CodeIs
<1> QED BY <1>4, <1>6, <1>7 DEF Below

LEMMA PartOnce ==
  ASSUME BusSizes, NEW x, NEW y, NEW i \in 1..BITS, Below(x, y, i),
         NEW j \in 1..BITS, Above(x, y, j), x[j] # y[j]
  PROVE  i = j
<1>0. i \in Int /\ j \in Int BY DEF BusSizes
<1>1. ~(i > j) BY DEF Below, Above
<1>2. ~(j > i) BY DEF Below, Above
<1> QED BY <1>0, <1>1, <1>2

LEMMA BelowBelow ==
  ASSUME BusSizes, NEW x, NEW y, NEW z, NEW i \in 1..BITS, NEW j \in 1..BITS,
         Below(x, y, i), Below(y, z, j)
  PROVE  \E k \in 1..BITS : Below(x, z, k)
<1>0. i \in Int /\ j \in Int /\ i # j BY DEF Below, BusSizes
<1>1. CASE i > j
  <2>1. Above(x, z, i) /\ x[i] = 0 /\ z[i] = 1 BY <1>0, <1>1 DEF Below, Above
  <2> QED BY <2>1 DEF Below
<1>2. CASE j > i
  <2>1. Above(x, z, j) /\ x[j] = 0 /\ z[j] = 1 BY <1>0, <1>2 DEF Below, Above
  <2> QED BY <2>1 DEF Below
<1> QED BY <1>0, <1>1, <1>2

(* A pass that still has i bits to read: who listens has answered as the   *)
(* id says; the id follows the last one to the turn, when there is a       *)
(* device this far, and turns there when there is one; next is the last    *)
(* branch of zeros that was left aside; and below the turn no branch of    *)
(* ones is.                                                                *)
Path(t) == \E d \in t.devices : Above(d, t.id, t.diff)
Walk(t, p, i) ==
  /\ p \in PassRecs
  /\ p.listening = {d \in t.devices : Above(d, p.id, i)} /\ p.listening # {}
  /\ p.next = 0 \/ p.next \in (i + 1)..BITS
  /\ Path(t) => \A j \in 1..BITS : j > i /\ j > t.diff => p.id[j] = t.id[j]
  /\ Path(t) /\ t.diff \in (i + 1)..BITS /\ (\E w \in t.devices : Below(w, t.id, t.diff)) =>
       p.id[t.diff] = 0
  /\ \A d \in t.devices : \A j \in (i + 1)..BITS :
       Below(d, p.id, j) => 1 <= p.next /\ p.next <= j
  /\ p.next # 0 => \E w \in t.devices : Below(w, p.id, p.next)
  /\ \A d \in t.devices : \A j \in (i + 1)..BITS : j < t.diff => ~Below(p.id, d, j)

(* One bit: what is written is the bit of a device that listens; at a      *)
(* conflict, as Turns says.                                                *)
Branch(L, i) == (\E d \in L : d[i] = 0) /\ (\E d \in L : d[i] = 1)
Sent(t, L, i) ==
  IF Branch(L, i) THEN IF Turns(t, i) THEN 1 ELSE 0 ELSE ow_bit(L, i)

OneBit(t, p, q, i) ==
  /\ q \in PassRecs
  /\ q.id = [p.id EXCEPT ![i] = Sent(t, p.listening, i)]
  /\ q.next = IF Branch(p.listening, i) /\ Turns(t, i) THEN i ELSE p.next
  /\ q.listening = {d \in p.listening : d[i] = Sent(t, p.listening, i)}
  /\ Sent(t, p.listening, i) \in {0, 1}
  /\ \E d \in p.listening : d[i] = Sent(t, p.listening, i)

LEMMA BitIs ==
  ASSUME BusSizes, NEW t \in BusRecs, NEW p \in PassRecs, p.listening # {}, p.next # OW_DATA_ERR,
         NEW i \in 1..BITS
  PROVE  OneBit(t, p, Bit(t, p, i), i)
<1> DEFINE L == p.listening  w == Sent(t, L, i)
<1>0. i \in 0..255 /\ L \in SUBSET Codes /\ p.id \in Codes /\ p.next \in 0..255
  BY DEF BusSizes, PassRecs
<1>1. \A d \in L : d[i] = 0 \/ d[i] = 1 BY <1>0, CodeIs
<1>2. ~(ow_bit(L, i) = 1 /\ ow_complement(L, i) = 1)
  BY <1>1 DEF ow_bit, ow_complement
<1>3. ow_bit(L, i) = 0 /\ ow_complement(L, i) = 0 <=> Branch(L, i)
  BY DEF ow_bit, ow_complement, Branch
<1>4. w \in {0, 1} /\ \E d \in L : d[i] = w
  BY <1>1 DEF Sent, Branch, ow_bit
<1>5. w = IF (ow_bit(L, i) = 0 /\ ow_complement(L, i) = 0) /\ Turns(t, i) THEN 1 ELSE ow_bit(L, i)
  BY <1>3 DEF Sent, Branch, ow_bit
<1> DEFINE r == [id        |-> [p.id EXCEPT ![i] = w],
                 next      |-> IF Branch(L, i) /\ Turns(t, i) THEN i ELSE p.next,
                 listening |-> {d \in L : d[i] = w}]
<1>6. Bit(t, p, i) = r
  <2> HIDE DEF w
  <2> QED BY <1>2, <1>3, <1>5 DEF Bit
<1>7. [p.id EXCEPT ![i] = w] \in Codes
  <2> HIDE DEF w
  <2> QED BY <1>0, <1>4 DEF Codes
<1>8. r \in PassRecs
  <2> HIDE DEF w
  <2> QED BY <1>0, <1>7 DEF PassRecs
<1> HIDE DEF w
<1> QED BY <1>4, <1>6, <1>8 DEF w, OneBit

(* The parts of a search have their types.                                 *)
LEMMA SearchIs ==
  ASSUME NEW t \in BusRecs
  PROVE  /\ t.id \in Codes /\ t.diff \in 0..255 /\ t.devices \in SUBSET Codes
         /\ t.found \in Seq(Codes) /\ t.gone \in SUBSET Codes
         /\ t.diff \in Int
<1>1. t.id \in Codes BY DEF BusRecs
<1>2. t.diff \in 0..255 BY DEF BusRecs
<1>3. t.devices \in SUBSET Codes BY DEF BusRecs
<1>4. t.found \in Seq(Codes) BY DEF BusRecs
<1>5. t.gone \in SUBSET Codes BY DEF BusRecs
<1>6. t.diff \in Int BY <1>2
<1> QED BY <1>1, <1>2, <1>3, <1>4, <1>5, <1>6

LEMMA WalkBit ==
  ASSUME BusSizes, NEW t \in BusRecs, NEW p, NEW i \in 1..BITS, Walk(t, p, i)
  PROVE  Walk(t, Bit(t, p, i), i - 1)
<1> DEFINE q == Bit(t, p, i)  L == p.listening  w == Sent(t, L, i)  n == t.diff
<1>p. /\ p \in PassRecs /\ L = {d \in t.devices : Above(d, p.id, i)} /\ L # {}
      /\ p.next = 0 \/ p.next \in (i + 1)..BITS
  BY DEF Walk
<1>t. t.id \in Codes /\ n \in Int /\ t.devices \in SUBSET Codes BY SearchIs
<1>s. BITS \in 1..253 /\ i \in Int BY DEF BusSizes
<1>n. p.next # OW_DATA_ERR /\ p.next \in Int BY <1>p, <1>s DEF OW_DATA_ERR
<1>d. p.id \in Codes BY <1>p DEF PassRecs
<1>0. /\ p \in PassRecs /\ p.id \in Codes /\ p.next # OW_DATA_ERR /\ BITS \in Nat
      /\ L = {d \in t.devices : Above(d, p.id, i)} /\ L # {}
      /\ t.id \in Codes /\ n \in Int /\ i \in Int /\ t.devices \in SUBSET Codes
      /\ p.next \in Int
  BY <1>p, <1>t, <1>s, <1>n, <1>d
<1>1. /\ q \in PassRecs /\ q.id = [p.id EXCEPT ![i] = w]
      /\ q.next = IF Branch(L, i) /\ Turns(t, i) THEN i ELSE p.next
      /\ q.listening = {d \in L : d[i] = w} /\ w \in {0, 1} /\ \E d \in L : d[i] = w
  <2>1. p.listening # {} BY <1>0
  <2>2. OneBit(t, p, q, i) BY <1>p, <1>n, <2>1, BitIs
  <2> QED BY <2>2 DEF OneBit
<1> HIDE DEF q, w
<1>2. q.id[i] = w /\ \A j \in 1..BITS : j # i => q.id[j] = p.id[j] BY <1>0, <1>1 DEF Codes
<1>j. \A j \in 1..BITS : (j > i - 1 <=> j = i \/ j > i)
                         /\ (j \in ((i - 1) + 1)..BITS => j = i \/ j \in (i + 1)..BITS)
                         /\ (j \in (i + 1)..BITS => j > i /\ j # i)
  BY <1>0
<1>3. \A d : Above(d, q.id, i - 1) <=> Above(d, p.id, i) /\ d[i] = w
  BY <1>2, <1>j DEF Above
<1>4. q.listening = {d \in t.devices : Above(d, q.id, i - 1)} /\ q.listening # {}
  BY <1>0, <1>1, <1>3
<1>5. \A d : \A j \in (i + 1)..BITS : (Below(d, q.id, j) <=> Below(d, p.id, j))
                                      /\ (Below(q.id, d, j) <=> Below(p.id, d, j))
  <2> TAKE d
  <2> TAKE j \in (i + 1)..BITS
  <2>1. j \in 1..BITS /\ j > i /\ j # i /\ \A k \in 1..BITS : k > j => k # i BY <1>0
  <2> QED BY <1>2, <2>1 DEF Below, Above
<1>6. \A d \in t.devices : Below(d, q.id, i) => d \in L /\ d[i] = 0 /\ w = 1
  <2>1. \A d : Above(d, q.id, i) <=> Above(d, p.id, i) BY <1>0, <1>2 DEF Above
  <2> QED BY <1>0, <1>2, <2>1 DEF Below
<1>7. \A d \in t.devices : Below(q.id, d, i) => d \in L /\ d[i] = 1 /\ w = 0
  <2>1. \A d : Above(q.id, d, i) <=> Above(d, p.id, i) BY <1>0, <1>2 DEF Above
  <2> QED BY <1>0, <1>2, <2>1 DEF Below
<1>8. \A d \in L : d[i] = 0 \/ d[i] = 1 BY <1>0, CodeIs
<1>9. q.next = 0 \/ q.next \in ((i - 1) + 1)..BITS
  BY <1>0, <1>1 DEF Walk
<1>10. \A d \in t.devices : \A j \in ((i - 1) + 1)..BITS :
         Below(d, q.id, j) => 1 <= q.next /\ q.next <= j
  <2> TAKE d \in t.devices
  <2> TAKE j \in ((i - 1) + 1)..BITS
  <2> HAVE Below(d, q.id, j)
  <2>1. CASE j = i
    <3>1. d \in L /\ d[i] = 0 /\ w = 1 BY <1>6, <2>1
    <3>2. Branch(L, i) /\ Turns(t, i) BY <1>1, <3>1 DEF w, Sent, Branch, ow_bit
    <3> QED BY <1>0, <1>1, <2>1, <3>2
  <2>2. CASE j # i
    <3>1. j \in (i + 1)..BITS /\ Below(d, p.id, j) BY <1>0, <1>5, <2>2
    <3>2. 1 <= p.next /\ p.next <= j BY <3>1 DEF Walk
    <3> QED BY <1>0, <1>1, <3>1, <3>2
  <2> QED BY <2>1, <2>2
<1>11. q.next # 0 => \E d \in t.devices : Below(d, q.id, q.next)
  <2>1. CASE Branch(L, i) /\ Turns(t, i)
    <3>1. q.next = i /\ w = 1 BY <1>1, <2>1 DEF w, Sent
    <3>2. PICK d \in L : d[i] = 0 BY <2>1 DEF Branch
    <3>3. d \in t.devices /\ Above(d, q.id, i) BY <1>0, <1>2, <3>2 DEF Above
    <3> QED BY <1>2, <3>1, <3>2, <3>3 DEF Below
  <2>2. CASE ~(Branch(L, i) /\ Turns(t, i))
    <3>1. q.next = p.next BY <1>1, <2>2
    <3> QED BY <1>5, <3>1 DEF Walk
  <2> QED BY <2>1, <2>2
<1>12. \A d \in t.devices : \A j \in ((i - 1) + 1)..BITS : j < n => ~Below(q.id, d, j)
  <2> TAKE d \in t.devices
  <2> TAKE j \in ((i - 1) + 1)..BITS
  <2> SUFFICES ASSUME j < n, Below(q.id, d, j) PROVE FALSE OBVIOUS
  <2>1. CASE j = i
    <3>1. d \in L /\ d[i] = 1 /\ w = 0 BY <1>7, <2>1
    <3>2. Turns(t, i) BY <1>0, <2>1 DEF Turns
    <3>3. \E e \in L : e[i] = 0 BY <1>1, <3>1
    <3>4. Branch(L, i) BY <3>1, <3>3 DEF Branch
    <3> QED BY <3>1, <3>2, <3>4 DEF w, Sent
  <2>2. CASE j # i
    <3>1. j \in (i + 1)..BITS /\ Below(p.id, d, j) BY <1>0, <1>5, <2>2
    <3> QED BY <3>1 DEF Walk
  <2> QED BY <2>1, <2>2
<1>13. ASSUME Path(t), i > n PROVE w = t.id[i]
  <2>1. PICK d \in t.devices : Above(d, t.id, n) BY <1>13 DEF Path
  <2>2. \A j \in 1..BITS : j > i /\ j > n => p.id[j] = t.id[j] BY <1>13 DEF Walk
  <2>3. Above(d, p.id, i) /\ d[i] = t.id[i] BY <1>0, <1>13, <2>1, <2>2 DEF Above
  <2>4. d \in L BY <1>0, <2>3
  <2>5. d[i] = 0 \/ d[i] = 1 BY <1>8, <2>4
  <2>6. Turns(t, i) <=> t.id[i] = 1 BY <1>0, <1>13 DEF Turns
  <2>7. CASE Branch(L, i) BY <2>3, <2>5, <2>6, <2>7 DEF w, Sent
  <2>8. CASE ~Branch(L, i) BY <2>3, <2>4, <2>5, <2>8 DEF w, Sent, Branch, ow_bit
  <2> QED BY <2>7, <2>8
<1>14. Path(t) => \A j \in 1..BITS : j > i - 1 /\ j > n => q.id[j] = t.id[j]
  <2> SUFFICES ASSUME Path(t), NEW j \in 1..BITS, j > i - 1, j > n PROVE q.id[j] = t.id[j]
    OBVIOUS
  <2>1. CASE j = i BY <1>2, <1>13, <2>1
  <2>2. CASE j # i
    <3>1. j > i BY <1>j, <2>2
    <3>2. p.id[j] = t.id[j] BY <3>1 DEF Walk
    <3> QED BY <1>2, <2>2, <3>2
  <2> QED BY <2>1, <2>2
<1>15. Path(t) /\ n \in ((i - 1) + 1)..BITS /\ (\E d \in t.devices : Below(d, t.id, n)) =>
         q.id[n] = 0
  <2> SUFFICES ASSUME Path(t), n \in ((i - 1) + 1)..BITS,
                      NEW d \in t.devices, Below(d, t.id, n)
               PROVE  q.id[n] = 0
    OBVIOUS
  <2>1. CASE n = i
    <3>1. \A j \in 1..BITS : j > i => p.id[j] = t.id[j] BY <2>1 DEF Walk
    <3>2. Above(d, p.id, i) /\ d[i] = 0 BY <2>1, <3>1 DEF Below, Above
    <3>3. d \in L BY <1>0, <3>2
    <3>4. ~Turns(t, i) BY <1>0, <2>1 DEF Turns
    <3>5. w = 0 BY <3>2, <3>3, <3>4 DEF w, Sent, Branch, ow_bit
    <3> QED BY <1>2, <2>1, <3>5
  <2>2. CASE n # i
    <3>1. n \in (i + 1)..BITS /\ n \in 1..BITS BY <1>0, <2>2
    <3>2. p.id[n] = 0 BY <3>1 DEF Walk
    <3> QED BY <1>2, <2>2, <3>1, <3>2
  <2> QED BY <2>1, <2>2
<1>16. Walk(t, q, i - 1)
  BY <1>1, <1>4, <1>9, <1>10, <1>11, <1>12, <1>14, <1>15 DEF Walk
<1> QED BY <1>16 DEF q

LEMMA BitTyped ==
  ASSUME BusSizes, NEW t \in BusRecs, NEW p \in PassRecs, NEW i \in 1..BITS
  PROVE  Bit(t, p, i) \in PassRecs
<1>1. CASE p.next = OW_DATA_ERR \/ p.listening = {}
  <2>1. Bit(t, p, i) = [p EXCEPT !.next = OW_DATA_ERR]
    BY <1>1 DEF Bit, ow_bit, ow_complement
  <2>2. OW_DATA_ERR \in 0..255 BY DEF OW_DATA_ERR
  <2> QED BY <2>1, <2>2 DEF PassRecs
<1>2. CASE ~(p.next = OW_DATA_ERR \/ p.listening = {})
  <2>1. OneBit(t, p, Bit(t, p, i), i) BY <1>2, BitIs
  <2> QED BY <2>1 DEF OneBit
<1> QED BY <1>1, <1>2

(* A pass, bit by bit.                                                     *)
PassStart(t) == [id |-> t.id, next |-> OW_LAST_DEVICE, listening |-> t.devices]

LEMMA PassSteps ==
  ASSUME BusSizes, NEW t \in BusRecs, t.devices # {}
  PROVE  \E h \in [0..BITS -> PassRecs] :
           /\ h[0] = PassStart(t) /\ h[BITS] = ow_rom_search(t)
           /\ \A k \in 1..BITS : h[k] = Bit(t, h[k - 1], BITS + 1 - k)
<1> DEFINE q == SearchOrder
           D == 1..BITS
           p == PassStart(t)
           F == [u \in PassRecs |-> [i \in D |-> Bit(t, u, i)]]
           Is(g) == g = [S \in SUBSET DOMAIN q |->
                           IF S = {} THEN p ELSE Bit(t, g[S \ {Max(S)}], q[Max(S)])]
           g == CHOOSE iter : Is(iter)
<1>b. BITS \in Nat BY DEF BusSizes
<1>q. q \in Seq(D) /\ DOMAIN q = 1..BITS /\ Len(q) = BITS /\ \A k \in 1..BITS : q[k] = BITS + 1 - k
  <2>1. \A i \in 1..BITS : BITS + 1 - i \in 1..BITS BY <1>b
  <2>2. q \in [1..BITS -> D] BY <2>1 DEF SearchOrder
  <2>3. q \in Seq(D) BY <1>b, <2>2, SeqDef
  <2>4. DOMAIN q = 1..BITS BY <2>2
  <2>5. Len(q) = BITS BY <1>b, <2>3, <2>4, LenProperties
  <2> QED BY <2>3, <2>4, <2>5 DEF SearchOrder
<1> HIDE DEF q
<1>p. p \in PassRecs BY SearchIs DEF PassStart, PassRecs, OW_LAST_DEVICE
<1>1. F \in [PassRecs -> [D -> PassRecs]] BY BitTyped
<1>2. \A u \in PassRecs : \A i \in D : F[u][i] = Bit(t, u, i) OBVIOUS
<1>3. \A i \in 1..Len(q) : q[i] \in D BY <1>q, ElementOfSeq
<1>m. ASSUME NEW S \in SUBSET DOMAIN q, S # {}
      PROVE  Max(S) \in DOMAIN q /\ S \ {Max(S)} \in SUBSET DOMAIN q
  <2>1. S \in SUBSET (0..BITS) BY <1>q, <1>b
  <2> QED BY <1>b, <1>m, <2>1, MaxIs
<1> HIDE DEF p, D
<1>4. Is(g)
  <2> HIDE DEF F
  <2>1. PICK e : Folded(e, PassRecs, p, F, q) BY <1>1, <1>p, <1>q, FoldExists
  <2>2. ASSUME NEW S \in SUBSET DOMAIN q
        PROVE  e[S] = IF S = {} THEN p ELSE Bit(t, e[S \ {Max(S)}], q[Max(S)])
    BY <2>1, <1>2, <1>3, <1>q, <1>m DEF Folded
  <2>3. e = [S \in SUBSET DOMAIN q |-> e[S]] BY <2>1 DEF Folded
  <2>4. Is(e) BY <2>2, <2>3
  <2> HIDE DEF Is
  <2> QED BY <2>4
<1>5. ow_rom_search(t) = g[DOMAIN q]
  BY DEF ow_rom_search, FoldLeft, MapThenFoldSet, p, q, PassStart
<1> HIDE DEF g
<1>6. g[{}] = p BY <1>4
<1>7. ASSUME NEW S \in SUBSET DOMAIN q, S # {}, g[S \ {Max(S)}] \in PassRecs
      PROVE  g[S] = F[g[S \ {Max(S)}]][q[Max(S)]]
  <2> HIDE DEF F
  <2>1. g[S] = Bit(t, g[S \ {Max(S)}], q[Max(S)]) BY <1>4, <1>7
  <2> QED BY <1>2, <1>3, <1>q, <1>m, <1>7, <2>1
<1>8. Folds(g, PassRecs, F, q)
  <2> HIDE DEF F
  <2> QED BY <1>p, <1>6, <1>7 DEF Folds
<1>h. PICK h : Through(h, g, PassRecs, F, q)
  <2> HIDE DEF F
  <2> QED BY <1>1, <1>8, <1>q, FoldSteps
<1>9. /\ h \in [0..BITS -> PassRecs] /\ h[0] = p /\ h[BITS] = ow_rom_search(t)
      /\ \A k \in 1..BITS : h[k] = F[h[k - 1]][q[k]]
  BY <1>h, <1>5, <1>6, <1>q DEF Through
<1>10. \A k \in 1..BITS : h[k] = Bit(t, h[k - 1], BITS + 1 - k)
  <2> TAKE k \in 1..BITS
  <2>1. h[k - 1] \in PassRecs /\ q[k] \in D
    <3>1. k - 1 \in 0..BITS BY <1>b
    <3> QED BY <1>3, <1>9, <1>q, <3>1
  <2> HIDE DEF F
  <2> QED BY <1>2, <1>9, <1>q, <2>1
<1> QED BY <1>9, <1>10 DEF p

(* Where a pass ends.                                                      *)
LEMMA PassIs ==
  ASSUME BusSizes, NEW t \in BusRecs, t.devices # {}
  PROVE  Walk(t, ow_rom_search(t), 0)
<1>0. BITS \in Nat BY DEF BusSizes
<1>1. PICK h \in [0..BITS -> PassRecs] :
           /\ h[0] = PassStart(t) /\ h[BITS] = ow_rom_search(t)
           /\ \A k \in 1..BITS : h[k] = Bit(t, h[k - 1], BITS + 1 - k)
  BY PassSteps
<1> DEFINE S == {k \in 0..BITS : Walk(t, h[k], BITS - k)}
<1>2. Walk(t, PassStart(t), BITS)
  <2> DEFINE p == PassStart(t)
  <2>1. p.id = t.id /\ p.next = 0 /\ p.listening = t.devices BY DEF PassStart, OW_LAST_DEVICE
  <2>2. p \in PassRecs BY SearchIs DEF PassStart, PassRecs, OW_LAST_DEVICE
  <2> HIDE DEF p
  <2>3. \A j \in 1..BITS : ~(j > BITS) BY <1>0
  <2>4. (BITS + 1)..BITS = {} BY <1>0
  <2>5. \A d : Above(d, p.id, BITS) BY <2>3 DEF Above
  <2>6. Walk(t, p, BITS) BY <2>1, <2>2, <2>3, <2>4, <2>5 DEF Walk
  <2> QED BY <2>6 DEF p
<1>3. 0 \in S BY <1>0, <1>1, <1>2
<1>4. ASSUME NEW k \in 1..BITS, k - 1 \in S PROVE k \in S
  <2> DEFINE i == BITS + 1 - k
  <2>1. i \in 1..BITS /\ BITS - (k - 1) = i /\ BITS - k = i - 1 /\ k \in 0..BITS BY <1>0
  <2>2. Walk(t, h[k - 1], i) BY <1>4, <2>1
  <2>3. h[k] = Bit(t, h[k - 1], i) BY <1>1
  <2> HIDE DEF i
  <2>4. Walk(t, h[k], i - 1) BY <2>1, <2>2, <2>3, WalkBit
  <2> QED BY <2>1, <2>4
<1>5. BITS \in S
  <2> HIDE DEF S
  <2>1. \A k \in 0..BITS : k \in S BY <1>0, <1>3, <1>4, UpTo
  <2> QED BY <1>0, <2>1
<1>6. BITS - BITS = 0 BY <1>0
<1> QED BY <1>1, <1>5, <1>6

(* The search: devices still to be found are below the last one found,     *)
(* from the turn on; the next pass finds the way to the turn as long as    *)
(* one device at most is gone; and what was found is not below the last    *)
(* one, while none is.                                                     *)
Listed(t, d) == \E k \in 1..Len(t.found) : t.found[k] = d
Turning(t)   == t.diff \in 1..BITS
Remaining(t) ==
  \A d \in t.devices : ~Listed(t, d) =>
    Turning(t) /\ \E j \in 1..BITS : t.diff <= j /\ Below(d, t.id, j)
Turnable(t) == /\ t.id \in t.devices
              /\ \E w \in t.devices : Below(w, t.id, t.diff)
Descending(t) ==
  \A d \in Codes : Listed(t, d) => d = t.id \/ \E j \in 1..BITS : Below(t.id, d, j)
Distinct(t) ==
  \A k, l \in 1..Len(t.found) : t.found[k] = t.found[l] => k = l

SearchInv(t) ==
  /\ t \in BusRecs /\ IsFiniteSet(t.gone) /\ t.devices \cap t.gone = {}
  /\ \A k \in 1..Len(t.found) : t.found[k] \in t.devices \cup t.gone
  /\ ~t.over => (t.diff = OW_SEARCH_FIRST /\ t.found = <<>>) \/ Turning(t)
  /\ Cardinality(t.gone) <= 1 =>
       /\ t.diff = 0 \/ Turning(t) => Remaining(t)
       /\ Turning(t) => Path(t)
  /\ t.gone = {} => /\ Turning(t) => Turnable(t)
                    /\ t.diff = 0 \/ Turning(t) => Descending(t)
                    /\ Distinct(t)

(* A pass goes on from the last: it finds a device ... *)
LEMMA PassFinds ==
  ASSUME BusSizes, NEW t \in BusRecs, t.devices # {}, NEW r, r = ow_rom_search(t)
  PROVE  /\ r.id \in t.devices /\ r.id \in Codes
         /\ r.next \in 0..BITS
         /\ r.next # 0 => \E w \in t.devices : Below(w, r.id, r.next)
<1>1. Walk(t, r, 0) BY PassIs
<1>2. r \in PassRecs BY <1>1 DEF Walk
<1>3. r.id \in Codes BY <1>2 DEF PassRecs
<1>4. PICK d \in t.devices : Above(d, r.id, 0) BY <1>1 DEF Walk
<1>5. d = r.id
  <2>1. \A i \in 1..BITS : i > 0 BY DEF BusSizes
  <2>2. \A i \in 1..BITS : d[i] = r.id[i] BY <1>4, <2>1 DEF Above
  <2>3. d \in Codes BY SearchIs
  <2>4. d = [i \in 1..BITS |-> d[i]] /\ r.id = [i \in 1..BITS |-> r.id[i]] BY <1>3, <2>3 DEF Codes
  <2> QED BY <2>2, <2>4
<1>6. r.next \in 0..BITS
  <2>1. BITS \in Nat BY DEF BusSizes
  <2>2. r.next = 0 \/ r.next \in (0 + 1)..BITS BY <1>1 DEF Walk
  <2> QED BY <2>1, <2>2
<1>7. r.next # 0 => \E w \in t.devices : Below(w, r.id, r.next) BY <1>1 DEF Walk
<1> QED BY <1>3, <1>4, <1>5, <1>6, <1>7

(* ... a device below the last one, when one is there at the turn; *)
LEMMA PassDescends ==
  ASSUME BusSizes, NEW t \in BusRecs, Turning(t), Turnable(t), NEW r, r = ow_rom_search(t)
  PROVE  Below(r.id, t.id, t.diff)
<1> DEFINE n == t.diff
<1>1. Walk(t, r, 0) BY PassIs DEF Turnable
<1>2. n \in 1..BITS /\ n \in (0 + 1)..BITS /\ \A j \in 1..BITS : j > 0 BY DEF Turning, BusSizes
<1>3. PICK w \in t.devices : Below(w, t.id, n) BY DEF Turnable
<1>4. Path(t) BY <1>3 DEF Path, Below
<1>5. r.id[n] = 0 BY <1>1, <1>2, <1>3, <1>4 DEF Walk
<1>6. Above(r.id, t.id, n) BY <1>1, <1>2, <1>4 DEF Walk, Above
<1> QED BY <1>3, <1>5, <1>6 DEF Below

(* ... and every device not yet listed is below the new one, from the new  *)
(* turn on.                                                                *)
LEMMA PassLeaves ==
  ASSUME BusSizes, NEW t \in BusRecs, NEW r, r = ow_rom_search(t),
         NEW d \in t.devices, d # r.id,
         t.diff = OW_SEARCH_FIRST
           \/ (Turning(t) /\ Path(t) /\ \E j \in 1..BITS : t.diff <= j /\ Below(d, t.id, j))
  PROVE  \E j \in 1..BITS : 1 <= r.next /\ r.next <= j /\ Below(d, r.id, j)
<1> DEFINE n == t.diff
<1>1. Walk(t, r, 0) BY PassIs
<1>2. r.id \in Codes /\ d \in Codes BY PassFinds, SearchIs
<1>b. BITS \in 1..253 /\ \A j \in 1..BITS : j > 0 /\ j \in (0 + 1)..BITS BY DEF BusSizes
<1>3. PICK j \in 1..BITS : Below(d, r.id, j) \/ Below(r.id, d, j) BY <1>2, PartSomewhere
<1>4. CASE Below(d, r.id, j)
  BY <1>1, <1>4, <1>b DEF Walk
<1>5. CASE Below(r.id, d, j)
  <2>1. ~(j < n) BY <1>1, <1>5, <1>b DEF Walk
  <2>2. n # OW_SEARCH_FIRST BY <1>b, <2>1 DEF OW_SEARCH_FIRST
  <2>3. Turning(t) /\ Path(t) BY <2>2
  <2>4. PICK i \in 1..BITS : n <= i /\ Below(d, t.id, i) BY <2>2
  <2>5. \A k \in 1..BITS : k > n => r.id[k] = t.id[k] BY <1>1, <1>b, <2>3 DEF Walk
  <2>6. n \in 1..BITS /\ n \in Int /\ j \in Int /\ i \in Int BY <2>3, <1>b DEF Turning
  <2>7. Above(d, t.id, j) BY <1>5, <2>1, <2>5, <2>6 DEF Below, Above
  <2>8. d[j] = 1 /\ r.id[j] = 0 BY <1>5 DEF Below
  <2>9. CASE j > n
    <3>1. t.id[j] = 0 BY <2>5, <2>8, <2>9
    <3>2. i = j BY <2>4, <2>7, <2>8, <3>1, PartOnce
    <3> QED BY <2>4, <2>8, <3>2 DEF Below
  <2>10. CASE j = n
    <3>1. ~(i > j) BY <2>4, <2>7 DEF Below, Above
    <3>2. i = j BY <2>4, <2>6, <2>10, <3>1
    <3> QED BY <2>4, <2>8, <3>2 DEF Below
  <2> QED BY <2>1, <2>6, <2>9, <2>10
<1> QED BY <1>3, <1>4, <1>5

LEMMA StartSearches ==
  ASSUME BusSizes, NEW devices \in SUBSET Codes, NEW id \in Codes
  PROVE  SearchInv(Search(devices, id))
<1> DEFINE t == Search(devices, id)
<1>1. /\ t.devices = devices /\ t.diff = OW_SEARCH_FIRST /\ t.id = id /\ t.found = <<>>
      /\ t.gone = {} /\ ~t.over
  BY DEF Search
<1>2. t \in BusRecs
  <2>1. <<>> \in Seq(Codes) /\ OW_SEARCH_FIRST \in 0..255 BY EmptySeq DEF OW_SEARCH_FIRST
  <2> QED BY <2>1 DEF Search, BusRecs
<1> HIDE DEF t
<1>3. Len(t.found) = 0 /\ 1..0 = {} BY <1>1, EmptySeq
<1>4. t.diff # 0 /\ ~Turning(t) BY <1>1 DEF Turning, BusSizes, OW_SEARCH_FIRST
<1>5. IsFiniteSet(t.gone) BY <1>1, FS_EmptySet
<1>6. Distinct(t) BY <1>3 DEF Distinct
<1>7. SearchInv(t) BY <1>1, <1>2, <1>3, <1>4, <1>5, <1>6 DEF SearchInv
<1> QED BY <1>7 DEF t

LEMMA PassKeeps ==
  ASSUME BusSizes, SearchInv(bus), find_sensor
  PROVE  SearchInv(bus')
<1> DEFINE r == ow_rom_search(bus)
           error == r.next \in {OW_PRESENCE_ERR, OW_DATA_ERR}
           found == IF error THEN bus.found ELSE Append(bus.found, r.id)
           over == error \/ r.next = OW_LAST_DEVICE \/ Len(found) >= MaxSensors
<1>1. bus \in BusRecs /\ ~bus.over BY DEF SearchInv, find_sensor
<1>2. bus' = [bus EXCEPT !.diff = r.next, !.id = r.id, !.found = found, !.over = over]
  BY DEF find_sensor
<1>n. BITS \in 1..253 BY DEF BusSizes
<1>3. CASE bus.devices = {}
  <2>1. r.next = OW_PRESENCE_ERR /\ r.id = bus.id BY <1>3 DEF ow_rom_search
  <2>2. bus' = [bus EXCEPT !.diff = OW_PRESENCE_ERR, !.over = TRUE]
    <3>1. error /\ found = bus.found /\ over BY <2>1
    <3>2. bus' = [bus EXCEPT !.diff = OW_PRESENCE_ERR, !.id = bus.id,
                             !.found = bus.found, !.over = TRUE]
      BY <1>2, <2>1, <3>1
    <3> QED BY <1>1, <3>2 DEF BusRecs
  <2>3. /\ bus'.devices = bus.devices /\ bus'.gone = bus.gone /\ bus'.found = bus.found
        /\ bus'.diff = OW_PRESENCE_ERR /\ bus'.over
    BY <1>1, <2>2 DEF BusRecs
  <2>4. bus' \in BusRecs
    <3>1. OW_PRESENCE_ERR \in 0..255 /\ TRUE \in BOOLEAN BY DEF OW_PRESENCE_ERR
    <3> HIDE DEF r, error, found, over
    <3> QED BY <1>1, <2>2, <3>1 DEF BusRecs
  <2>5. bus'.diff # 0 /\ ~Turning(bus') BY <2>3, <1>n DEF OW_PRESENCE_ERR, Turning
  <2>6. Distinct(bus) => Distinct(bus') BY <2>3 DEF Distinct
  <2> QED BY <2>3, <2>4, <2>5, <2>6 DEF SearchInv
<1>4. CASE bus.devices # {}
  <2>1. /\ r.id \in bus.devices /\ r.id \in Codes /\ r.next \in 0..BITS
        /\ r.next # 0 => \E w \in bus.devices : Below(w, r.id, r.next)
    BY <1>1, <1>4, PassFinds
  <2> DEFINE u == bus'
             n == Len(bus.found)
  <2>2. ~error BY <2>1, <1>n DEF OW_PRESENCE_ERR, OW_DATA_ERR
  <2>3. bus' = [bus EXCEPT !.diff = r.next, !.id = r.id,
                           !.found = Append(bus.found, r.id), !.over = over]
    BY <1>2, <2>2
  <2>4. /\ u.devices = bus.devices /\ u.gone = bus.gone /\ u.diff = r.next /\ u.id = r.id
        /\ u.found = Append(bus.found, r.id)
    BY <1>1, <2>3 DEF BusRecs
  <2>5. ~u.over => r.next # 0
    <3>1. u.over <=> over BY <1>1, <2>3 DEF BusRecs
    <3> QED BY <3>1 DEF OW_LAST_DEVICE
  <2>6. u \in BusRecs
    <3>1. Append(bus.found, r.id) \in Seq(Codes) BY <1>1, <2>1, SearchIs, AppendProperties
    <3>2. r.next \in 0..255 BY <2>1, <1>n
    <3>3. over \in BOOLEAN OBVIOUS
    <3> HIDE DEF over, r
    <3> QED BY <1>1, <2>1, <2>3, <3>1, <3>2, <3>3 DEF BusRecs
  <2>7. /\ n \in Nat /\ Len(u.found) = n + 1 /\ u.found[n + 1] = r.id
        /\ \A k \in 1..n : u.found[k] = bus.found[k]
    <3>1. bus.found \in Seq(Codes) BY <1>1, SearchIs
    <3> QED BY <2>1, <2>4, <3>1, AppendProperties, LenProperties
  <2> HIDE DEF error, found, over
  <2>8. \A k \in 1..(n + 1) : k = n + 1 \/ k \in 1..n BY <2>7
  <2>9. n + 1 \in 1..(n + 1) /\ \A k \in 1..n : k \in 1..(n + 1) BY <2>7
  <2>10. \A d : Listed(u, d) <=> d = r.id \/ Listed(bus, d)
    BY <2>7, <2>8, <2>9 DEF Listed
  <2>11. \A k \in 1..Len(u.found) : u.found[k] \in u.devices \cup u.gone
    <3> TAKE k \in 1..Len(u.found)
    <3>1. CASE k = n + 1 BY <2>1, <2>4, <2>7, <3>1
    <3>2. CASE k \in 1..n BY <2>4, <2>7, <3>2 DEF SearchInv
    <3> QED BY <2>7, <2>8, <3>1, <3>2
  <2>12. ~u.over => Turning(u) BY <2>1, <2>4, <2>5, <1>n DEF Turning
  <2>13. \A d \in bus.devices : ~Listed(u, d) => d # r.id /\ ~Listed(bus, d) BY <2>10
  <2>14. ASSUME Cardinality(u.gone) <= 1 PROVE Remaining(u) /\ (Turning(u) => Path(u))
    <3>1. ASSUME NEW d \in bus.devices, ~Listed(u, d)
          PROVE  \E j \in 1..BITS : 1 <= r.next /\ r.next <= j /\ Below(d, r.id, j)
      <4>1. bus.diff = OW_SEARCH_FIRST \/ Turning(bus) BY <1>1 DEF SearchInv
      <4>2. Turning(bus) => Path(bus) /\ Remaining(bus) BY <2>4, <2>14 DEF SearchInv
      <4>3. Turning(bus) => \E j \in 1..BITS : bus.diff <= j /\ Below(d, bus.id, j)
        BY <2>13, <3>1, <4>2 DEF Remaining
      <4> QED BY <1>1, <2>13, <3>1, <4>1, <4>2, <4>3, PassLeaves
    <3>2. Remaining(u)
      <4> SUFFICES ASSUME NEW d \in u.devices, ~Listed(u, d)
                   PROVE  Turning(u) /\ \E j \in 1..BITS : u.diff <= j /\ Below(d, u.id, j)
        BY DEF Remaining
      <4>1. PICK j \in 1..BITS : 1 <= r.next /\ r.next <= j /\ Below(d, r.id, j) BY <2>4, <3>1
      <4>2. Turning(u) BY <2>1, <2>4, <4>1, <1>n DEF Turning
      <4> QED BY <2>4, <4>1, <4>2
    <3>3. Path(u) BY <2>1, <2>4 DEF Path, Above
    <3> QED BY <3>2, <3>3
  <2>15. ASSUME u.gone = {}
         PROVE  (Turning(u) => Turnable(u)) /\ Descending(u) /\ Distinct(u)
    <3>1. Turning(u) => Turnable(u)
      <4>1. Turning(u) => r.next # 0 BY <2>4, <1>n DEF Turning
      <4> QED BY <2>1, <2>4, <4>1 DEF Turnable
    <3>2. ASSUME NEW d \in Codes, Listed(bus, d)
          PROVE  \E j \in 1..BITS : Below(r.id, d, j)
      <4>1. Turning(bus)
        <5>1. bus.found = <<>> => Len(bus.found) = 0 /\ 1..0 = {} BY EmptySeq
        <5>2. bus.found # <<>> BY <3>2, <5>1 DEF Listed
        <5> QED BY <1>1, <5>2 DEF SearchInv
      <4>2. Turnable(bus) /\ Descending(bus) BY <2>4, <2>15, <4>1 DEF SearchInv
      <4>3. Below(r.id, bus.id, bus.diff) /\ bus.diff \in 1..BITS
        BY <1>1, <4>1, <4>2, PassDescends DEF Turning
      <4>4. d = bus.id \/ \E j \in 1..BITS : Below(bus.id, d, j) BY <3>2, <4>2 DEF Descending
      <4> QED BY <4>3, <4>4, BelowBelow
    <3>3. Descending(u) BY <2>4, <2>10, <3>2 DEF Descending
    <3>4. ~Listed(bus, r.id)
      <4> SUFFICES ASSUME Listed(bus, r.id) PROVE FALSE OBVIOUS
      <4>1. PICK j \in 1..BITS : Below(r.id, r.id, j) BY <2>1, <3>2
      <4> QED BY <4>1 DEF Below
    <3>5. Distinct(u)
      <4>1. Distinct(bus) BY <2>4, <2>15 DEF SearchInv
      <4>2. \A k \in 1..n : u.found[k] # r.id BY <2>7, <3>4 DEF Listed
      <4>3. \A k, l \in 1..n : u.found[k] = u.found[l] => k = l BY <2>7, <4>1 DEF Distinct
      <4> QED BY <2>7, <2>8, <4>2, <4>3 DEF Distinct
    <3> QED BY <3>1, <3>3, <3>5
  <2>16. IsFiniteSet(u.gone) /\ u.devices \cap u.gone = {} BY <2>4 DEF SearchInv
  <2> HIDE DEF u
  <2>17. SearchInv(u) BY <2>6, <2>11, <2>12, <2>14, <2>15, <2>16 DEF SearchInv
  <2> QED BY <2>17 DEF u
<1> QED BY <1>3, <1>4

LEMMA UnplugKeeps ==
  ASSUME BusSizes, SearchInv(bus), Unplug
  PROVE  SearchInv(bus')
<1>1. PICK d \in bus.devices :
        bus' = [bus EXCEPT !.devices = bus.devices \ {d}, !.gone = bus.gone \cup {d}]
  BY DEF Unplug
<1>2. bus \in BusRecs /\ ~bus.over /\ d \in Codes BY SearchIs DEF SearchInv, Unplug
<1> DEFINE u == bus'
<1>3. /\ u.devices = bus.devices \ {d} /\ u.gone = bus.gone \cup {d} /\ u.diff = bus.diff
      /\ u.id = bus.id /\ u.found = bus.found
  BY <1>1, <1>2 DEF BusRecs
<1>4. u \in BusRecs BY <1>1, <1>2 DEF BusRecs
<1>5. u.over <=> bus.over BY <1>1, <1>2 DEF BusRecs
<1> HIDE DEF u
<1>6. IsFiniteSet(bus.gone) /\ bus.devices \cap bus.gone = {} BY DEF SearchInv
<1>7. IsFiniteSet(u.gone) /\ u.devices \cap u.gone = {}
  BY <1>3, <1>6, FS_AddElement
<1>8. \A k \in 1..Len(u.found) : u.found[k] \in u.devices \cup u.gone
  BY <1>3 DEF SearchInv
<1>9. Turning(u) <=> Turning(bus) BY <1>3 DEF Turning
<1>10. ~u.over => (u.diff = OW_SEARCH_FIRST /\ u.found = <<>>) \/ Turning(u)
  BY <1>3, <1>5, <1>9 DEF SearchInv
<1>11. ASSUME Cardinality(u.gone) <= 1
       PROVE  (u.diff = 0 \/ Turning(u) => Remaining(u)) /\ (Turning(u) => Path(u))
  <2>1. bus.gone = {}
    <3>1. d \notin bus.gone BY <1>6
    <3>2. Cardinality(u.gone) = Cardinality(bus.gone) + 1 BY <1>3, <1>6, <3>1, FS_AddElement
    <3>3. Cardinality(bus.gone) \in Nat BY <1>6, FS_CardinalityType
    <3>4. Cardinality(bus.gone) = 0 BY <1>11, <3>2, <3>3
    <3> QED BY <1>6, <3>4, FS_EmptySet
  <2>2. Cardinality(bus.gone) <= 1 BY <2>1, FS_EmptySet
  <2>3. u.diff = 0 \/ Turning(u) => Remaining(u)
    <3>1. u.diff = 0 \/ Turning(u) => Remaining(bus) BY <1>3, <1>9, <2>2 DEF SearchInv
    <3> QED BY <1>3, <1>9, <3>1 DEF Remaining, Listed
  <2>4. Turning(u) => Path(u)
    <3> SUFFICES ASSUME Turning(u) PROVE Path(u) OBVIOUS
    <3>1. Turnable(bus) BY <1>9, <2>1 DEF SearchInv
    <3>2. PICK w \in bus.devices : Below(w, bus.id, bus.diff) BY <3>1 DEF Turnable
    <3>3. bus.id \in bus.devices /\ bus.id # w BY <3>1, <3>2 DEF Turnable, Below
    <3>4. Above(w, u.id, u.diff) /\ Above(bus.id, u.id, u.diff)
      BY <1>3, <3>2 DEF Below, Above
    <3> QED BY <1>3, <3>2, <3>3, <3>4 DEF Path
  <2> QED BY <2>3, <2>4
<1>12. u.gone # {} BY <1>3
<1>13. SearchInv(u) BY <1>4, <1>7, <1>8, <1>10, <1>11, <1>12 DEF SearchInv
<1> QED BY <1>13 DEF u

(* A search finds every device, once (find_sensor and ow_rom_search,       *)
(* onewire.c): all of those on the bus when one at most is unplugged, and  *)
(* none twice when none is; for any devices, any number of bits, and       *)
(* whatever the id holds at first.                                         *)
THEOREM EveryDeviceFound == BusSpec => []FoundOnce
<1> USE BusAssumption
<1>1. BusInit => SearchInv(bus) BY StartSearches DEF BusInit
<1>2. SearchInv(bus) /\ [BusNext]_bus => SearchInv(bus)'
  <2> SUFFICES ASSUME SearchInv(bus), [BusNext]_bus PROVE SearchInv(bus') OBVIOUS
  <2>1. CASE find_sensor BY <2>1, PassKeeps
  <2>2. CASE search_sensors
    <3>1. bus.devices \in SUBSET Codes BY SearchIs DEF SearchInv
    <3> QED BY <2>2, <3>1, StartSearches DEF search_sensors
  <2>3. CASE Unplug BY <2>3, UnplugKeeps
  <2>4. CASE UNCHANGED bus BY <2>4
  <2> QED BY <2>1, <2>2, <2>3, <2>4 DEF BusNext
<1>3. SearchInv(bus) => FoundOnce
  <2> SUFFICES ASSUME SearchInv(bus) PROVE FoundOnce OBVIOUS
  <2>1. bus.found \in Seq(Codes) BY SearchIs DEF SearchInv
  <2>2. DOMAIN bus.found = 1..Len(bus.found) BY <2>1, LenProperties
  <2>3. ToSet(bus.found) = {bus.found[k] : k \in 1..Len(bus.found)} BY <2>2 DEF ToSet
  <2>4. ~Turning(bus) <=> bus.diff \notin 1..BITS BY DEF Turning
  <2>5. bus.diff = OW_LAST_DEVICE /\ Cardinality(bus.gone) <= 1 =>
          bus.devices \subseteq ToSet(bus.found)
    <3> SUFFICES ASSUME bus.diff = OW_LAST_DEVICE, Cardinality(bus.gone) <= 1,
                        NEW d \in bus.devices
                 PROVE  Listed(bus, d)
      BY <2>3 DEF Listed
    <3>1. bus.diff = 0 /\ ~Turning(bus) BY DEF OW_LAST_DEVICE, Turning
    <3>2. Remaining(bus) BY <3>1 DEF SearchInv
    <3> QED BY <3>1, <3>2 DEF Remaining
  <2>6. ToSet(bus.found) \subseteq bus.devices \cup bus.gone BY <2>3 DEF SearchInv
  <2>7. bus.gone = {} => IsInjective(bus.found) BY <2>2 DEF SearchInv, Distinct, IsInjective
  <2> QED BY <2>5, <2>6, <2>7 DEF FoundOnce
<1> QED BY <1>1, <1>2, <1>3, PTL DEF BusSpec
=============================================================================
