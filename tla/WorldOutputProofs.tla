------------------------- MODULE WorldOutputProofs -------------------------
(***************************************************************************)
(* The order of WorldSocket's output, for any sizes of the buffer, the     *)
(* queue and the packets, any number of sending threads, any client and    *)
(* whatever portions the kernel takes: the client gets what SendPacket     *)
(* accepted, in that order.                                                *)
(***************************************************************************)
EXTENDS WorldSocket, SequenceTheorems, TLAPS


-----------------------------------------------------------------------------
(* How the output lies in the buffer and the queue: the units that are     *)
(* awaited are those of m_OutBuffer and then those of the blocks of        *)
(* msg_queue().  The lemmas say what SendPacket, handle_output and         *)
(* handle_output_queue do to it.  That a queue of any length lies in line  *)
(* is stated with the places where its blocks end, not by flattening it,   *)
(* so that no lemma needs an induction over the queue.                     *)

(* cut[k] of the units come up to the end of the k-th block. *)
Laid(units, buffer, blocks, cut) ==
  /\ cut \in [0..Len(blocks) -> Nat]
  /\ cut[0] = Len(buffer) /\ cut[Len(blocks)] = Len(units)
  /\ \A j, k \in 0..Len(blocks) : j <= k => cut[j] <= cut[k]
  /\ \A i \in 1..Len(buffer) : units[i] = buffer[i]
  /\ \A k \in 1..Len(blocks) :
       /\ cut[k] = cut[k - 1] + Len(blocks[k])
       /\ \A i \in 1..Len(blocks[k]) : units[cut[k - 1] + i] = blocks[k][i]

(* The units are those of the buffer and, behind them, of the blocks. *)
InLine(units, buffer, blocks) == \E cut : Laid(units, buffer, blocks, cut)

\* The arithmetic of places in the output, which handle_output and
\* handle_output_queue leave to the read pointer of a block.
LEMMA PlaceWithin ==
    ASSUME NEW a \in Nat, NEW x \in Nat, NEW m \in Nat, NEW z \in Nat,
           x <= m, a + m <= z
    PROVE  a + x <= z
OBVIOUS

\* A place behind another that the read pointer has not passed.
LEMMA PlaceBehind ==
    ASSUME NEW a \in Nat, NEW b \in Nat, NEW l \in Nat, l <= a, a <= b
    PROVE  l <= b /\ b - l \in Nat
OBVIOUS

\* The place of the x-th unit of a block that begins behind a units.
LEMMA PlaceInside ==
    ASSUME NEW a \in Nat, NEW x \in Nat, 1 <= x
    PROVE  a + x \in Nat /\ 1 <= a + x
OBVIOUS

\* Moving the read pointer by l units.
LEMMA PlaceMoved ==
    ASSUME NEW a \in Nat, NEW b \in Nat, NEW l \in Nat
    PROVE  (a + b) - l = (a - l) + b
OBVIOUS

\* The place k units further on, in a block of f units.
LEMMA PlaceUpTo ==
    ASSUME NEW a \in Nat, NEW f \in Nat, NEW k \in Nat, k <= f
    PROVE  a + k \in Nat /\ a + k <= a + f /\ a <= a + k
OBVIOUS

\* What a block has left when the read pointer has moved by l units.
LEMMA UnitsBehind ==
    ASSUME NEW s \in Seq(Nat), NEW l \in Nat, l <= Len(s)
    PROVE  /\ SubSeq(s, l + 1, Len(s)) \in Seq(Nat)
           /\ Len(SubSeq(s, l + 1, Len(s))) = Len(s) - l
           /\ \A i \in 1..(Len(s) - l) : SubSeq(s, l + 1, Len(s))[i] = s[l + i]
OBVIOUS

\* A packet goes to the end of the buffer while nothing is queued.
LEMMA BufferPacket ==
    ASSUME NEW units \in Seq(Nat), NEW buffer \in Seq(Nat), InLine(units, buffer, <<>>),
           NEW new \in Seq(Nat)
    PROVE  InLine(units \o new, buffer \o new, <<>>)
<1>1. PICK cut : Laid(units, buffer, <<>>, cut)
  BY DEF InLine
<1>2. Len(units) = Len(buffer) /\ \A i \in 1..Len(buffer) : units[i] = buffer[i]
  BY <1>1 DEF Laid
<1> DEFINE u == units \o new
           b == buffer \o new
           c == [k \in 0..0 |-> Len(u)]
<1>7. Len(units) \in Nat /\ Len(buffer) \in Nat /\ Len(new) \in Nat
  OBVIOUS
<1>8. /\ u \in Seq(Nat) /\ Len(u) = Len(units) + Len(new)
      /\ \A i \in 1..(Len(units) + Len(new)) :
           u[i] = IF i <= Len(units) THEN units[i] ELSE new[i - Len(units)]
  BY ConcatProperties
<1>9. /\ b \in Seq(Nat) /\ Len(b) = Len(buffer) + Len(new)
      /\ \A i \in 1..(Len(buffer) + Len(new)) :
           b[i] = IF i <= Len(buffer) THEN buffer[i] ELSE new[i - Len(buffer)]
  BY ConcatProperties
<1> HIDE DEF u, b
<1>3. u \in Seq(Nat) /\ b \in Seq(Nat) /\ Len(u) = Len(b) /\ Len(u) \in Nat
  BY <1>2, <1>7, <1>8, <1>9
<1>6. ASSUME NEW i \in 1..Len(b)
      PROVE  u[i] = b[i]
  <2>1. CASE i <= Len(buffer)
    <3>1. i \in 1..Len(buffer) /\ i \in 1..(Len(units) + Len(new)) /\ i <= Len(units)
      BY <1>2, <1>7, <1>9, <2>1
    <3>2. u[i] = units[i] /\ b[i] = buffer[i]
      BY <1>2, <1>8, <1>9, <3>1
    <3> QED
      BY <1>2, <3>1, <3>2
  <2>2. CASE ~(i <= Len(buffer))
    BY <1>2, <1>7, <1>8, <1>9, <2>2
  <2> QED
    BY <2>1, <2>2
<1>4. Len(<<>>) = 0
  OBVIOUS
<1>5. Laid(u, b, <<>>, c)
  BY <1>3, <1>4, <1>6 DEF Laid
<1> QED
  BY <1>5 DEF InLine, u, b

\* A packet becomes the last block of the queue.
LEMMA QueuePacketInLine ==
    ASSUME NEW units \in Seq(Nat), NEW buffer \in Seq(Nat), NEW blocks \in Seq(Seq(Nat)),
           InLine(units, buffer, blocks), NEW new \in Seq(Nat)
    PROVE  InLine(units \o new, buffer, Append(blocks, new))
<1>1. PICK cut : Laid(units, buffer, blocks, cut)
  BY DEF InLine
<1> DEFINE u == units \o new
           q == Append(blocks, new)
           n == Len(blocks)
           c == [k \in 0..(n + 1) |-> IF k = n + 1 THEN Len(units) + Len(new) ELSE cut[k]]
<1>2. /\ u \in Seq(Nat) /\ Len(u) = Len(units) + Len(new) /\ Len(u) \in Nat
      /\ Len(units) \in Nat /\ Len(new) \in Nat /\ Len(buffer) \in Nat
      /\ \A i \in 1..Len(units) : u[i] = units[i]
      /\ \A i \in 1..Len(new) : u[Len(units) + i] = new[i]
  OBVIOUS
<1>3. /\ n \in Nat /\ Len(q) = n + 1 /\ q[n + 1] = new
      /\ \A k \in 1..n : q[k] = blocks[k] /\ Len(blocks[k]) \in Nat
  OBVIOUS
<1> HIDE DEF u, q, n
<1>4. /\ cut \in [0..n -> Nat] /\ cut[0] = Len(buffer) /\ cut[n] = Len(units)
      /\ \A j, k \in 0..n : j <= k => cut[j] <= cut[k]
      /\ \A i \in 1..Len(buffer) : units[i] = buffer[i]
      /\ \A k \in 1..n : /\ cut[k] = cut[k - 1] + Len(blocks[k])
                         /\ \A i \in 1..Len(blocks[k]) : units[cut[k - 1] + i] = blocks[k][i]
  BY <1>1 DEF Laid, n
<1>5. c \in [0..(n + 1) -> Nat]
  BY <1>2, <1>3, <1>4
<1>6. \A k \in 0..n : c[k] = cut[k] /\ cut[k] \in Nat /\ cut[k] <= Len(units)
  BY <1>3, <1>4
<1>7. c[n + 1] = Len(u)
  BY <1>2, <1>3
<1> HIDE DEF c
<1>8. \A j, k \in 0..(n + 1) : j <= k => c[j] <= c[k]
  <2> SUFFICES ASSUME NEW j \in 0..(n + 1), NEW k \in 0..(n + 1), j <= k
               PROVE  c[j] <= c[k]
    OBVIOUS
  <2>1. CASE k \in 0..n
    <3>1. j \in 0..n
      BY <1>3, <2>1
    <3>2. cut[j] <= cut[k] /\ c[j] = cut[j] /\ c[k] = cut[k]
      BY <1>4, <1>6, <2>1, <3>1
    <3> QED
      BY <3>2
  <2>2. CASE k = n + 1 /\ j \in 0..n
    <3>1. c[j] \in Nat /\ c[j] <= Len(units) /\ c[k] = Len(units) + Len(new)
      BY <1>2, <1>6, <1>7, <2>2
    <3> QED
      BY <1>2, <3>1
  <2>3. CASE k = n + 1 /\ j = n + 1
    BY <1>2, <1>7, <2>3
  <2> QED
    BY <1>3, <2>1, <2>2, <2>3
<1>9. \A i \in 1..Len(buffer) : u[i] = buffer[i]
  <2>1. Len(buffer) <= Len(units)
    BY <1>3, <1>4, <1>6
  <2> QED
    BY <1>2, <1>4, <2>1
<1>10. ASSUME NEW k \in 1..(n + 1)
       PROVE  /\ c[k] = c[k - 1] + Len(q[k])
              /\ \A i \in 1..Len(q[k]) : u[c[k - 1] + i] = q[k][i]
  <2>1. CASE k = n + 1
    <3>1. k - 1 = n /\ n \in 0..n
      BY <1>3, <2>1
    <3>2. c[k - 1] = Len(units) /\ q[k] = new /\ c[k] = Len(u)
      BY <1>3, <1>4, <1>6, <1>7, <2>1, <3>1
    <3> QED
      BY <1>2, <3>2
  <2>2. CASE k \in 1..n
    <3>1. /\ k - 1 \in 0..n /\ k \in 0..n /\ c[k - 1] = cut[k - 1] /\ c[k] = cut[k]
          /\ q[k] = blocks[k] /\ Len(blocks[k]) \in Nat /\ cut[k - 1] \in Nat
      BY <1>3, <1>6, <2>2
    <3>2. ASSUME NEW i \in 1..Len(blocks[k])
          PROVE  u[cut[k - 1] + i] = blocks[k][i]
      <4>1. cut[k - 1] + i \in 1..Len(units)
        <5>1. cut[k] = cut[k - 1] + Len(blocks[k]) /\ cut[k] <= Len(units)
          BY <1>4, <1>6, <2>2, <3>1
        <5>2. i \in Nat /\ 1 <= i /\ i <= Len(blocks[k])
          BY <3>1
        <5>3. cut[k - 1] + i \in Nat /\ 1 <= cut[k - 1] + i
          <6>1. cut[k - 1] \in Nat
            BY <3>1
          <6> QED
            BY <5>2, <6>1, PlaceInside, Zenon
        <5>4. cut[k - 1] + i <= Len(units)
          <6>1. cut[k - 1] + Len(blocks[k]) <= Len(units)
            BY <5>1
          <6> QED
            BY <1>2, <3>1, <5>2, <6>1, PlaceWithin, Zenon
        <5> QED
          BY <1>2, <5>3, <5>4
      <4> QED
        BY <1>2, <1>4, <2>2, <4>1
    <3> QED
      BY <1>4, <2>2, <3>1, <3>2
  <2> QED
    BY <1>3, <2>1, <2>2
<1>11. c[0] = Len(buffer) /\ Len(q) = n + 1
  <2>1. 0 \in 0..n
    BY <1>3
  <2> QED
    BY <1>3, <1>4, <1>6, <2>1
<1>12. Laid(u, buffer, q, c)
  BY <1>5, <1>7, <1>8, <1>9, <1>10, <1>11 DEF Laid
<1> QED
  BY <1>12 DEF InLine, u, q

\* What agrees with the beginning of a sequence is a prefix of it.
LEMMA PrefixOf ==
    ASSUME NEW s \in Seq(Nat), NEW t \in Seq(Nat), Len(s) <= Len(t),
           \A i \in 1..Len(s) : s[i] = t[i]
    PROVE  IsPrefix(s, t)
BY DEF IsPrefix

\* The kernel takes the first n units of the buffer.
LEMMA TakeBuffer ==
    ASSUME NEW units \in Seq(Nat), NEW buffer \in Seq(Nat), NEW blocks \in Seq(Seq(Nat)),
           InLine(units, buffer, blocks), NEW n \in 0..Len(buffer)
    PROVE  /\ IsPrefix(SubSeq(buffer, 1, n), units)
           /\ Len(SubSeq(buffer, 1, n)) = n
           /\ InLine(SubSeq(units, n + 1, Len(units)),
                     SubSeq(buffer, n + 1, Len(buffer)), blocks)
<1>1. PICK cut : Laid(units, buffer, blocks, cut)
  BY DEF InLine
<1> DEFINE w == SubSeq(buffer, 1, n)
           b == SubSeq(buffer, n + 1, Len(buffer))
           u == SubSeq(units, n + 1, Len(units))
           m == Len(blocks)
           c == [k \in 0..m |-> cut[k] - n]
<1>2. Len(units) \in Nat /\ Len(buffer) \in Nat /\ m \in Nat /\ n \in Nat /\ n <= Len(buffer)
      /\ \A k \in 1..m : Len(blocks[k]) \in Nat
  OBVIOUS
<1>3. w \in Seq(Nat) /\ Len(w) = n /\ \A i \in 1..n : w[i] = buffer[i]
  BY <1>2
<1>4. /\ b \in Seq(Nat) /\ Len(b) = Len(buffer) - n
      /\ \A i \in 1..(Len(buffer) - n) : b[i] = buffer[n + i]
  BY <1>2
<1> HIDE DEF m
<1>5. /\ cut \in [0..m -> Nat] /\ cut[0] = Len(buffer) /\ cut[m] = Len(units)
      /\ \A j, k \in 0..m : j <= k => cut[j] <= cut[k]
      /\ \A i \in 1..Len(buffer) : units[i] = buffer[i]
      /\ \A k \in 1..m : /\ cut[k] = cut[k - 1] + Len(blocks[k])
                         /\ \A i \in 1..Len(blocks[k]) : units[cut[k - 1] + i] = blocks[k][i]
  BY <1>1 DEF Laid, m
<1>6. \A k \in 0..m : cut[k] \in Nat /\ Len(buffer) <= cut[k] /\ cut[k] <= Len(units)
  <2> SUFFICES ASSUME NEW k \in 0..m
               PROVE  cut[k] \in Nat /\ cut[0] <= cut[k] /\ cut[k] <= cut[m]
    BY <1>5
  <2>1. 0 \in 0..m /\ m \in 0..m /\ 0 <= k /\ k <= m
    BY <1>2
  <2> QED
    BY <1>5, <2>1
<1>7. Len(buffer) <= Len(units)
  BY <1>2, <1>5, <1>6
<1>8. /\ u \in Seq(Nat) /\ Len(u) = Len(units) - n
      /\ \A i \in 1..(Len(units) - n) : u[i] = units[n + i]
  BY <1>2, <1>7
<1> HIDE DEF w, b, u
<1>9. IsPrefix(w, units)
  <2>1. n <= Len(units) /\ \A i \in 1..n : i \in 1..Len(buffer)
    BY <1>2, <1>7
  <2>2. Len(w) <= Len(units) /\ \A i \in 1..Len(w) : w[i] = units[i]
    BY <1>3, <1>5, <2>1
  <2> QED
    BY <1>3, <2>2, PrefixOf
<1>10. c \in [0..m -> Nat] /\ \A k \in 0..m : c[k] = cut[k] - n
  BY <1>2, <1>6
<1> HIDE DEF c
<1>11. c[0] = Len(b) /\ c[m] = Len(u)
  <2>1. 0 \in 0..m /\ m \in 0..m
    BY <1>2
  <2>2. c[0] = cut[0] - n /\ c[m] = cut[m] - n
    BY <1>10, <2>1
  <2> QED
    BY <1>4, <1>5, <1>8, <2>2
<1>12. \A j, k \in 0..m : j <= k => c[j] <= c[k]
  BY <1>2, <1>5, <1>6, <1>10
<1>13. \A i \in 1..Len(b) : u[i] = b[i]
  <2> SUFFICES ASSUME NEW i \in 1..(Len(buffer) - n)
               PROVE  u[i] = b[i]
    BY <1>4
  <2>1. n + i \in 1..Len(buffer) /\ i \in 1..(Len(units) - n)
    BY <1>2, <1>7
  <2>2. u[i] = units[n + i] /\ b[i] = buffer[n + i]
    BY <1>4, <1>8, <2>1
  <2> QED
    BY <1>5, <2>1, <2>2
<1>14. ASSUME NEW k \in 1..m
       PROVE  /\ c[k] = c[k - 1] + Len(blocks[k])
              /\ \A i \in 1..Len(blocks[k]) : u[c[k - 1] + i] = blocks[k][i]
  <2>1. /\ k \in 0..m /\ k - 1 \in 0..m /\ cut[k] \in Nat /\ cut[k - 1] \in Nat
        /\ n <= cut[k - 1] /\ Len(blocks[k]) \in Nat
        /\ c[k - 1] = cut[k - 1] - n /\ c[k] = cut[k] - n
        /\ cut[k] = cut[k - 1] + Len(blocks[k]) /\ cut[k] <= Len(units)
    <3>1. m \in Nat /\ n \in Nat /\ n <= Len(buffer) /\ Len(buffer) \in Nat
      BY <1>2
    <3>2. k \in 0..m /\ k - 1 \in 0..m
      BY <3>1
    <3>3. /\ cut[k] \in Nat /\ cut[k] <= Len(units)
          /\ cut[k - 1] \in Nat /\ Len(buffer) <= cut[k - 1]
          /\ cut[k] = cut[k - 1] + Len(blocks[k])
      BY <1>5, <1>6, <3>2
    <3>4. c[k - 1] = cut[k - 1] - n /\ c[k] = cut[k] - n
      BY <1>10, <3>2
    <3>5. n <= cut[k - 1]
      BY <3>1, <3>3, PlaceBehind
    <3>6. Len(blocks[k]) \in Nat
      BY <1>2
    <3> QED
      BY <3>2, <3>3, <3>4, <3>5, <3>6
  <2>2. c[k] = c[k - 1] + Len(blocks[k])
    <3>1. n \in Nat
      BY <1>2
    <3>2. (cut[k - 1] + Len(blocks[k])) - n = (cut[k - 1] - n) + Len(blocks[k])
      BY <2>1, <3>1, PlaceMoved, Zenon
    <3> QED
      BY <2>1, <3>2, Zenon
  <2>3. ASSUME NEW i \in 1..Len(blocks[k])
        PROVE  u[c[k - 1] + i] = blocks[k][i]
    <3>1. /\ c[k - 1] + i \in 1..(Len(units) - n)
          /\ n + (c[k - 1] + i) = cut[k - 1] + i
      <4>1. \A a, x, l, z \in Nat : n <= a /\ 1 <= x /\ x <= l /\ a + l <= z =>
              ((a - n) + x) \in 1..(z - n) /\ n + ((a - n) + x) = a + x
        BY <1>2
      <4>2. i \in Nat /\ 1 <= i /\ i <= Len(blocks[k])
        BY <2>1
      <4>3. cut[k - 1] + Len(blocks[k]) <= Len(units)
        BY <2>1
      <4>4. /\ ((cut[k - 1] - n) + i) \in 1..(Len(units) - n)
            /\ n + ((cut[k - 1] - n) + i) = cut[k - 1] + i
        BY <1>2, <2>1, <4>1, <4>2, <4>3, Zenon
      <4> QED
        BY <2>1, <4>4
    <3>2. u[c[k - 1] + i] = units[cut[k - 1] + i]
      BY <1>8, <3>1
    <3> QED
      BY <1>5, <3>2
  <2> QED
    BY <2>2, <2>3
<1>15. Laid(u, b, blocks, c)
  BY <1>10, <1>11, <1>12, <1>13, <1>14 DEF Laid, m
<1>16. InLine(u, b, blocks)
  BY <1>15 DEF InLine
<1> QED
  BY <1>3, <1>9, <1>16 DEF w, b, u

\* The kernel takes all of the buffer and the first n units of the first block.
LEMMA TakeBlock ==
    ASSUME NEW units \in Seq(Nat), NEW buffer \in Seq(Nat), NEW blocks \in Seq(Seq(Nat)),
           InLine(units, buffer, blocks), blocks # <<>>, NEW n \in 0..Len(Head(blocks))
    PROVE  LET w == buffer \o SubSeq(Head(blocks), 1, n)
               left == SubSeq(Head(blocks), n + 1, Len(Head(blocks)))
           IN  /\ IsPrefix(w, units)
               /\ InLine(SubSeq(units, Len(w) + 1, Len(units)), <<>>,
                         <<left>> \o Tail(blocks))
<1>1. PICK cut : Laid(units, buffer, blocks, cut)
  BY DEF InLine
<1> DEFINE first == Head(blocks)
           part == SubSeq(first, 1, n)
           left == SubSeq(first, n + 1, Len(first))
           w == buffer \o part
           q == <<left>> \o Tail(blocks)
           m == Len(blocks)
           l == Len(buffer) + n
           u == SubSeq(units, l + 1, Len(units))
           c == [k \in 0..m |-> IF k = 0 THEN 0 ELSE cut[k] - l]
<1>2. /\ m \in Nat /\ 1 <= m /\ first = blocks[1] /\ first \in Seq(Nat)
      /\ Tail(blocks) \in Seq(Seq(Nat)) /\ Len(Tail(blocks)) = m - 1
      /\ \A k \in 1..(m - 1) : Tail(blocks)[k] = blocks[k + 1]
  BY HeadTailProperties
<1>3. /\ Len(units) \in Nat /\ Len(buffer) \in Nat /\ n \in Nat /\ Len(first) \in Nat
      /\ n <= Len(first)
      /\ \A k \in 1..m : Len(blocks[k]) \in Nat
  BY <1>2
<1> HIDE DEF first, m
<1>4. part \in Seq(Nat) /\ Len(part) = n /\ \A i \in 1..n : part[i] = first[i]
  BY <1>2, <1>3
<1>5. /\ left \in Seq(Nat) /\ Len(left) = Len(first) - n
      /\ \A i \in 1..(Len(first) - n) : left[i] = first[n + i]
  BY <1>2, <1>3
<1> HIDE DEF part, left
<1>6. /\ w \in Seq(Nat) /\ Len(w) = l
      /\ \A i \in 1..l : w[i] = IF i <= Len(buffer) THEN buffer[i] ELSE part[i - Len(buffer)]
  BY <1>4, ConcatProperties
<1>7. /\ q \in Seq(Seq(Nat)) /\ Len(q) = m /\ q[1] = left
      /\ \A k \in 2..m : q[k] = blocks[k]
  <2>1. <<left>> \in Seq(Seq(Nat)) /\ Len(<<left>>) = 1 /\ <<left>>[1] = left
    BY <1>5
  <2>2. /\ q \in Seq(Seq(Nat)) /\ Len(q) = 1 + (m - 1)
        /\ \A i \in 1..(1 + (m - 1)) :
             q[i] = IF i <= 1 THEN <<left>>[i] ELSE Tail(blocks)[i - 1]
    BY <1>2, <2>1, ConcatProperties
  <2> HIDE DEF q
  <2>3. Len(q) = m /\ q[1] = left
    BY <1>2, <2>1, <2>2
  <2>4. ASSUME NEW k \in 2..m
        PROVE  q[k] = blocks[k]
    <3>1. k \in 1..(1 + (m - 1)) /\ ~(k <= 1) /\ k - 1 \in 1..(m - 1) /\ (k - 1) + 1 = k
      BY <1>2
    <3> QED
      BY <1>2, <2>2, <3>1
  <2> QED
    BY <2>2, <2>3, <2>4
<1>8. /\ cut \in [0..m -> Nat] /\ cut[0] = Len(buffer) /\ cut[m] = Len(units)
      /\ \A j, k \in 0..m : j <= k => cut[j] <= cut[k]
      /\ \A i \in 1..Len(buffer) : units[i] = buffer[i]
      /\ \A k \in 1..m : /\ cut[k] = cut[k - 1] + Len(blocks[k])
                         /\ \A i \in 1..Len(blocks[k]) : units[cut[k - 1] + i] = blocks[k][i]
  BY <1>1 DEF Laid, m
<1>9. /\ cut[1] = Len(buffer) + Len(first)
      /\ \A i \in 1..Len(first) : units[Len(buffer) + i] = first[i]
  <2>1. 1 \in 1..m /\ 1 - 1 = 0
    BY <1>2
  <2>2. /\ cut[1] = cut[1 - 1] + Len(blocks[1])
        /\ \A i \in 1..Len(blocks[1]) : units[cut[1 - 1] + i] = blocks[1][i]
    BY <1>8, <2>1
  <2> QED
    BY <1>2, <1>8, <2>1, <2>2
<1>10. \A k \in 1..m : cut[k] \in Nat /\ cut[1] <= cut[k] /\ cut[k] <= Len(units)
  <2> SUFFICES ASSUME NEW k \in 1..m
               PROVE  cut[k] \in Nat /\ cut[1] <= cut[k] /\ cut[k] <= cut[m]
    BY <1>8
  <2>1. 1 \in 0..m /\ m \in 0..m /\ k \in 0..m /\ 1 <= k /\ k <= m
    BY <1>2
  <2> QED
    BY <1>8, <2>1
<1>11. /\ l \in Nat /\ l <= cut[1] /\ l <= Len(units) /\ Len(buffer) <= l
       /\ cut[1] \in Nat
  <2>1. cut[1] \in Nat /\ cut[1] <= Len(units)
    BY <1>2, <1>10
  <2>3. Len(buffer) \in Nat /\ Len(first) \in Nat /\ n \in Nat /\ n <= Len(first)
    BY <1>3
  <2>4. l \in Nat /\ l <= cut[1] /\ Len(buffer) <= l
    <3>1. cut[1] = Len(buffer) + Len(first)
      BY <1>9, Zenon
    <3>2. /\ Len(buffer) + n \in Nat /\ Len(buffer) <= Len(buffer) + n
          /\ Len(buffer) + n <= Len(buffer) + Len(first)
      BY <2>3, PlaceUpTo, Zenon
    <3> QED
      BY <3>1, <3>2, Zenon DEF l
  <2>5. Len(units) \in Nat
    BY <1>3
  <2> QED
    BY <2>1, <2>4, <2>5, PlaceBehind, Zenon
<1>12. /\ u \in Seq(Nat) /\ Len(u) = Len(units) - l
       /\ \A i \in 1..(Len(units) - l) : u[i] = units[l + i]
  BY <1>11, UnitsBehind, Zenon
<1>13. IsPrefix(w, units)
  <2>1. ASSUME NEW i \in 1..l
        PROVE  w[i] = units[i]
    <3>1. CASE i <= Len(buffer)
      <4>1. i \in 1..Len(buffer)
        BY <1>3, <3>1
      <4> QED
        BY <1>6, <1>8, <3>1, <4>1
    <3>2. CASE ~(i <= Len(buffer))
      <4>1. /\ i - Len(buffer) \in 1..n /\ i - Len(buffer) \in 1..Len(first)
            /\ Len(buffer) + (i - Len(buffer)) = i
        BY <1>3, <3>2
      <4>2. w[i] = first[i - Len(buffer)]
        BY <1>4, <1>6, <3>2, <4>1
      <4>3. units[Len(buffer) + (i - Len(buffer))] = first[i - Len(buffer)]
        BY <1>9, <4>1
      <4> QED
        BY <4>1, <4>2, <4>3
    <3> QED
      BY <3>1, <3>2
  <2> QED
    BY <1>6, <1>11, <2>1, PrefixOf
<1> HIDE DEF w, q, l, u
<1>14. /\ c \in [0..m -> Nat] /\ c[0] = 0
       /\ \A k \in 1..m : c[k] = cut[k] - l /\ c[k] \in Nat
  <2>1. ASSUME NEW k \in 1..m
        PROVE  cut[k] - l \in Nat /\ k \in 0..m /\ k # 0
    <3>1. cut[k] \in Nat /\ cut[1] \in Nat /\ l <= cut[1] /\ cut[1] <= cut[k]
      BY <1>10, <1>11, Zenon
    <3>2. cut[k] - l \in Nat
      BY <1>11, <3>1, PlaceBehind, Zenon
    <3>3. m \in Nat
      BY <1>2
    <3> QED
      BY <3>2, <3>3
  <2>2. ASSUME NEW k \in 0..m
        PROVE  k = 0 \/ k \in 1..m
    BY <1>2
  <2> QED
    BY <1>2, <2>1, <2>2
<1> HIDE DEF c
<1>15. c[m] = Len(u)
  <2>1. m \in 1..m
    BY <1>2
  <2> QED
    BY <1>8, <1>12, <1>14, <2>1
<1>16. ASSUME NEW j \in 0..m, NEW k \in 0..m, j <= k
       PROVE  c[j] <= c[k]
  <2>1. CASE j = 0
    <3>1. c[k] \in Nat
      BY <1>14
    <3> QED
      BY <1>14, <2>1, <3>1
  <2>2. CASE j \in 1..m
    <3>1. k \in 1..m
      BY <1>2, <1>16, <2>2
    <3>2. /\ c[j] = cut[j] - l /\ c[k] = cut[k] - l /\ cut[j] <= cut[k]
          /\ cut[j] \in Nat /\ cut[k] \in Nat
      BY <1>8, <1>14, <1>16, <2>2, <3>1
    <3>3. \A x, y \in Nat : x <= y => x - l <= y - l
      BY <1>11
    <3> QED
      BY <3>2, <3>3
  <2> QED
    BY <1>2, <2>1, <2>2
<1>17. ASSUME NEW k \in 1..m
       PROVE  /\ c[k] = c[k - 1] + Len(q[k])
              /\ \A i \in 1..Len(q[k]) : u[c[k - 1] + i] = q[k][i]
  <2>1. CASE k = 1
    <3>1. c[k - 1] = 0 /\ q[k] = left /\ 1 \in 1..m
      BY <1>2, <1>7, <1>14, <2>1
    <3>2. c[1] = Len(left)
      <4>1. c[1] = cut[1] - l
        BY <1>14, <3>1
      <4> QED
        BY <1>3, <1>5, <1>9, <4>1 DEF l
    <3>3. ASSUME NEW i \in 1..Len(left)
          PROVE  u[0 + i] = left[i]
      <4>1. /\ 0 + i = i /\ i \in 1..(Len(first) - n)
            /\ n + i \in 1..Len(first) /\ l + i = Len(buffer) + (n + i)
        BY <1>3, <1>5 DEF l
      <4>2. i \in 1..(Len(units) - l)
        <5>1. cut[1] \in Nat /\ cut[1] <= Len(units)
          BY <1>10, <3>1
        <5> QED
          BY <1>3, <1>9, <4>1, <5>1 DEF l
      <4>3. u[i] = units[Len(buffer) + (n + i)] /\ left[i] = first[n + i]
        BY <1>5, <1>12, <4>1, <4>2
      <4> QED
        BY <1>9, <4>1, <4>3
    <3>4. Len(left) \in Nat
      BY <1>5
    <3> QED
      BY <2>1, <3>1, <3>2, <3>3, <3>4
  <2>2. CASE k \in 2..m
    <3>1. /\ k \in 1..m /\ k - 1 \in 1..m /\ q[k] = blocks[k] /\ Len(blocks[k]) \in Nat
          /\ c[k - 1] = cut[k - 1] - l /\ c[k] = cut[k] - l
          /\ cut[k] \in Nat /\ cut[k - 1] \in Nat
          /\ cut[k] = cut[k - 1] + Len(blocks[k]) /\ cut[k] <= Len(units)
      <4>1. k \in 1..m /\ k - 1 \in 1..m
        <5>1. m \in Nat
          BY <1>2
        <5> QED
          BY <2>2, <5>1
      <4>2. q[k] = blocks[k] /\ Len(blocks[k]) \in Nat /\ cut[k] = cut[k - 1] + Len(blocks[k])
        BY <1>3, <1>7, <1>8, <2>2, <4>1
      <4>3. /\ c[k - 1] = cut[k - 1] - l /\ c[k] = cut[k] - l
            /\ cut[k] \in Nat /\ cut[k - 1] \in Nat /\ cut[k] <= Len(units)
        BY <1>10, <1>14, <4>1
      <4> QED
        BY <4>1, <4>2, <4>3
    <3>2. l <= cut[k - 1]
      <4>1. cut[1] \in Nat /\ l <= cut[1] /\ cut[1] <= cut[k - 1]
        BY <1>10, <1>11, <3>1, Zenon
      <4> QED
        <5>1. l \in Nat
          BY <1>11, Zenon
        <5> QED
          BY <3>1, <4>1, <5>1, PlaceBehind, Zenon
    <3>3. c[k] = c[k - 1] + Len(q[k])
      <4>1. \A a, b \in Nat : (a + b) - l = (a - l) + b
        BY <1>11
      <4>2. (cut[k - 1] + Len(blocks[k])) - l = (cut[k - 1] - l) + Len(blocks[k])
        BY <3>1, <4>1, Zenon
      <4> QED
        BY <3>1, <4>2
    <3>4. ASSUME NEW i \in 1..Len(blocks[k])
          PROVE  u[c[k - 1] + i] = blocks[k][i]
      <4>1. \A a, x, b, z \in Nat : l <= a /\ 1 <= x /\ x <= b /\ a + b <= z =>
              ((a - l) + x) \in 1..(z - l) /\ l + ((a - l) + x) = a + x
        BY <1>11
      <4>2. i \in Nat /\ 1 <= i /\ i <= Len(blocks[k])
        BY <3>1
      <4>3. cut[k - 1] + Len(blocks[k]) <= Len(units)
        BY <3>1
      <4>4. /\ ((cut[k - 1] - l) + i) \in 1..(Len(units) - l)
            /\ l + ((cut[k - 1] - l) + i) = cut[k - 1] + i
        BY <1>3, <3>1, <3>2, <4>1, <4>2, <4>3, Zenon
      <4>5. u[c[k - 1] + i] = units[cut[k - 1] + i]
        BY <1>12, <3>1, <4>4
      <4> QED
        BY <1>8, <3>1, <4>5
    <3> QED
      BY <3>1, <3>3, <3>4
  <2> QED
    BY <1>2, <2>1, <2>2
<1>18. Len(<<>>) = 0 /\ \A i \in 1..0 : u[i] = <<>>[i]
  OBVIOUS
<1>19. Laid(u, <<>>, q, c)
  BY <1>7, <1>14, <1>15, <1>16, <1>17, <1>18 DEF Laid
<1>20. InLine(u, <<>>, q)
  BY <1>19 DEF InLine
<1> QED
  BY <1>6, <1>13, <1>20 DEF w, part, left, first, q, u

\* An empty block at the head of the queue is released.
LEMMA EmptyBlock ==
    ASSUME NEW units \in Seq(Nat), NEW rest \in Seq(Seq(Nat)),
           InLine(units, <<>>, <<<<>>>> \o rest)
    PROVE  InLine(units, <<>>, rest)
<1> DEFINE q == <<<<>>>> \o rest
           m == Len(rest)
<1>1. PICK cut : Laid(units, <<>>, q, cut)
  BY DEF InLine
<1>2. /\ q \in Seq(Seq(Nat)) /\ Len(q) = m + 1 /\ m \in Nat /\ q[1] = <<>>
      /\ \A k \in 1..m : q[k + 1] = rest[k] /\ Len(rest[k]) \in Nat
  <2>1. <<<<>>>> \in Seq(Seq(Nat)) /\ Len(<<<<>>>>) = 1 /\ <<<<>>>>[1] = <<>>
    OBVIOUS
  <2>2. /\ q \in Seq(Seq(Nat)) /\ Len(q) = 1 + m
        /\ \A i \in 1..(1 + m) : q[i] = IF i <= 1 THEN <<<<>>>>[i] ELSE rest[i - 1]
    BY <2>1, ConcatProperties
  <2> HIDE DEF q
  <2>3. \A k \in 1..m : /\ k + 1 \in 1..(1 + m) /\ ~(k + 1 <= 1) /\ (k + 1) - 1 = k
                        /\ Len(rest[k]) \in Nat
    OBVIOUS
  <2>4. ASSUME NEW k \in 1..m
        PROVE  q[k + 1] = rest[k]
    BY <2>2, <2>3
  <2>5. m \in Nat
    OBVIOUS
  <2>6. 1 \in 1..(1 + m) /\ 1 <= 1 /\ 1 + m = m + 1
    BY <2>5
  <2>7. q[1] = <<>>
    BY <2>1, <2>2, <2>6
  <2> QED
    BY <2>2, <2>3, <2>4, <2>5, <2>6, <2>7
<1> HIDE DEF q, m
<1> DEFINE c == [k \in 0..m |-> cut[k + 1]]
<1>3. Len(<<>>) = 0
  OBVIOUS
<1>4. /\ cut \in [0..(m + 1) -> Nat] /\ cut[0] = 0 /\ cut[m + 1] = Len(units)
      /\ \A j, k \in 0..(m + 1) : j <= k => cut[j] <= cut[k]
      /\ \A k \in 1..(m + 1) : /\ cut[k] = cut[k - 1] + Len(q[k])
                               /\ \A i \in 1..Len(q[k]) : units[cut[k - 1] + i] = q[k][i]
  <2>1. /\ cut \in [0..Len(q) -> Nat] /\ cut[0] = Len(<<>>) /\ cut[Len(q)] = Len(units)
        /\ \A j, k \in 0..Len(q) : j <= k => cut[j] <= cut[k]
        /\ \A k \in 1..Len(q) :
             /\ cut[k] = cut[k - 1] + Len(q[k])
             /\ \A i \in 1..Len(q[k]) : units[cut[k - 1] + i] = q[k][i]
    BY <1>1, Zenon DEF Laid
  <2>2. Len(q) = m + 1
    BY <1>2
  <2> QED
    BY <1>3, <2>1, <2>2, Zenon
<1>5. c \in [0..m -> Nat] /\ \A k \in 0..m : c[k] = cut[k + 1] /\ k + 1 \in 0..(m + 1)
  <2>1. ASSUME NEW k \in 0..m
        PROVE  k + 1 \in 0..(m + 1)
    BY <1>2
  <2>2. \A k \in 0..m : cut[k + 1] \in Nat
    BY <1>4, <2>1
  <2> QED
    BY <2>1, <2>2
<1> HIDE DEF c
<1>6. c[0] = 0 /\ c[m] = Len(units)
  <2>1. 1 \in 1..(m + 1) /\ 1 - 1 = 0 /\ 0 + 1 = 1 /\ 0 \in 0..m /\ m \in 0..m
    BY <1>2
  <2>2. cut[1] = cut[1 - 1] + Len(q[1])
    BY <1>4, <2>1
  <2> QED
    BY <1>2, <1>3, <1>4, <1>5, <2>1, <2>2
<1>7. ASSUME NEW j \in 0..m, NEW k \in 0..m, j <= k
      PROVE  c[j] <= c[k]
  <2>1. j + 1 <= k + 1
    BY <1>7
  <2> QED
    BY <1>4, <1>5, <2>1
<1>8. ASSUME NEW k \in 1..m
      PROVE  /\ c[k] = c[k - 1] + Len(rest[k])
             /\ \A i \in 1..Len(rest[k]) : units[c[k - 1] + i] = rest[k][i]
  <2>0. m \in Nat
    BY <1>2
  <2>1. /\ k + 1 \in 1..(m + 1) /\ (k + 1) - 1 = k /\ k - 1 \in 0..m /\ k \in 0..m
        /\ (k - 1) + 1 = k
    BY <2>0
  <2>2. c[k] = cut[k + 1] /\ c[k - 1] = cut[k] /\ q[k + 1] = rest[k]
    BY <1>2, <1>5, <2>1
  <2>3. /\ cut[k + 1] = cut[(k + 1) - 1] + Len(q[k + 1])
        /\ \A i \in 1..Len(q[k + 1]) : units[cut[(k + 1) - 1] + i] = q[k + 1][i]
    BY <1>4, <2>1
  <2> QED
    BY <2>1, <2>2, <2>3
<1>9. Laid(units, <<>>, rest, c)
  BY <1>3, <1>5, <1>6, <1>7, <1>8 DEF Laid, m
<1> QED
  BY <1>9 DEF InLine

(* The order of the output, for any client. *)

OutputTypes ==
  /\ sent \in Nat /\ awaited \in Seq(Nat)
  /\ outBuffer \in Seq(Nat) /\ queue \in Seq(Seq(Nat))

(* What is awaited is what the buffer and the queue hold, until a block is *)
(* dropped or an error on the socket has been found.                       *)
LineInv ==
  \/ dropped \/ closing \/ net \in {"close", "drop"}
  \/ InLine(awaited, outBuffer, queue)

OrderInv == OutputTypes /\ (wire.inOrder \/ dropped) /\ LineInv

\* SendPacket puts the packet behind all that waits, in the buffer or in the queue,
\* or refuses it and leaves both as they are.
LEMMA SendOrder ==
    ASSUME OutputTypes, NEW size \in Nat, SendPacket(size)
    PROVE  /\ OutputTypes' /\ wire' = wire /\ dropped' = dropped
           /\ InLine(awaited, outBuffer, queue) => InLine(awaited, outBuffer, queue)'
<1> DEFINE unit == [i \in 1..size |-> sent + 1]
<1>1. unit \in Seq(Nat)
  BY DEF OutputTypes
<1>2. /\ sent' = sent + 1 /\ wire' = wire /\ dropped' = dropped
      /\ FitsBuffer(size) => /\ outBuffer' = outBuffer \o unit /\ queue' = queue
                             /\ awaited' = awaited \o unit
      /\ ~FitsBuffer(size) /\ ~IsFull(queue) =>
           /\ outBuffer' = outBuffer /\ queue' = Append(queue, unit)
           /\ awaited' = awaited \o unit
      /\ ~FitsBuffer(size) /\ IsFull(queue) =>
           outBuffer' = outBuffer /\ queue' = queue /\ awaited' = awaited
  BY DEF SendPacket, Accepted
<1> HIDE DEF unit
<1>6. /\ sent + 1 \in Nat /\ awaited \o unit \in Seq(Nat)
      /\ outBuffer \o unit \in Seq(Nat) /\ Append(queue, unit) \in Seq(Seq(Nat))
  <2>1. awaited \o unit \in Seq(Nat) /\ outBuffer \o unit \in Seq(Nat)
    BY <1>1, ConcatProperties DEF OutputTypes
  <2>2. Append(queue, unit) \in Seq(Seq(Nat))
    BY <1>1, AppendProperties DEF OutputTypes
  <2> QED
    BY <2>1, <2>2 DEF OutputTypes
<1>3. CASE FitsBuffer(size)
  <2>1. queue = <<>>
    BY <1>3 DEF FitsBuffer
  <2>2. OutputTypes'
    BY <1>2, <1>3, <1>6 DEF OutputTypes
  <2>3. ASSUME InLine(awaited, outBuffer, queue)
        PROVE  InLine(awaited', outBuffer', queue')
    BY <1>1, <1>2, <1>3, <2>1, <2>3, BufferPacket DEF OutputTypes
  <2> QED
    BY <1>2, <2>2, <2>3
<1>4. CASE ~FitsBuffer(size) /\ ~IsFull(queue)
  <2>1. OutputTypes'
    BY <1>2, <1>4, <1>6 DEF OutputTypes
  <2>2. ASSUME InLine(awaited, outBuffer, queue)
        PROVE  InLine(awaited', outBuffer', queue')
    BY <1>1, <1>2, <1>4, <2>2, QueuePacketInLine DEF OutputTypes
  <2> QED
    BY <1>2, <2>1, <2>2
<1>5. CASE ~FitsBuffer(size) /\ IsFull(queue)
  <2>1. OutputTypes'
    BY <1>2, <1>5 DEF OutputTypes
  <2> QED
    BY <1>2, <1>5, <2>1
<1> QED
  BY <1>3, <1>4, <1>5

\* What the kernel takes are awaited units when they are a prefix of those.
LEMMA TakenOrder ==
    ASSUME awaited \in Seq(Nat), NEW units, Len(units) \in Nat, Taken(units)
    PROVE  /\ awaited' \in Seq(Nat)
           /\ awaited' = SubSeq(awaited, Len(units) + 1, Len(awaited))
           /\ wire.inOrder /\ IsPrefix(units, awaited) => wire'.inOrder
<1>1. awaited' = SubSeq(awaited, Len(units) + 1, Len(awaited))
  BY DEF Taken
<1>2. \A i \in (Len(units) + 1)..Len(awaited) : awaited[i] \in Nat
  OBVIOUS
<1>3. Len(units) + 1 \in Int /\ Len(awaited) \in Int
  OBVIOUS
<1>4. awaited' \in Seq(Nat)
  BY <1>1, <1>2, <1>3, SubSeqProperties
<1> QED
  BY <1>1, <1>4 DEF Taken

\* A handle_output that fails makes the network thread close or drop the socket.
LEMMA FailReturns ==
    ASSUME Return("fail")
    PROVE  net' \in {"close", "drop"}
BY DEF Return

\* handle_output_queue after all of the buffer was sent: what the kernel gets is what
\* is awaited, and what is left is in line, unless a block is lost by the ignored
\* enqueue_head or the call fails.
LEMMA QueueOrder ==
    ASSUME OutputTypes, OutputQueue(outBuffer), outBuffer' = <<>>, sent' = sent
    PROVE  /\ OutputTypes' /\ (dropped => dropped')
           /\ InLine(awaited, outBuffer, queue) =>
                /\ wire.inOrder => wire'.inOrder
                /\ \/ dropped' \/ net' \in {"close", "drop"}
                   \/ InLine(awaited, outBuffer, queue)'
<1> USE DEF OutputTypes
<1>1. /\ Len(outBuffer) \in 0..Len(outBuffer) /\ Len(outBuffer) \in Nat
      /\ SubSeq(outBuffer, 1, Len(outBuffer)) = outBuffer
      /\ SubSeq(outBuffer, Len(outBuffer) + 1, Len(outBuffer)) = <<>>
  <2>1. Len(outBuffer) \in Nat
    OBVIOUS
  <2>2. SubSeq(outBuffer, Len(outBuffer) + 1, Len(outBuffer)) = <<>>
    BY <2>1, SubSeqEmpty
  <2>3. SubSeq(outBuffer, 1, Len(outBuffer)) = outBuffer
    OBVIOUS
  <2> QED
    BY <2>1, <2>2, <2>3
<1>2. InLine(awaited, outBuffer, queue) => IsPrefix(outBuffer, awaited)
  <2> SUFFICES ASSUME InLine(awaited, outBuffer, queue)
               PROVE  IsPrefix(outBuffer, awaited)
    OBVIOUS
  <2>1. IsPrefix(SubSeq(outBuffer, 1, Len(outBuffer)), awaited)
    BY <1>1, TakeBuffer
  <2> QED
    BY <1>1, <2>1
<1>3. CASE queue = <<>> /\ Taken(outBuffer) /\ UNCHANGED <<queue, dropped>>
  <2>1. /\ awaited' \in Seq(Nat)
        /\ awaited' = SubSeq(awaited, Len(outBuffer) + 1, Len(awaited))
        /\ wire.inOrder /\ IsPrefix(outBuffer, awaited) => wire'.inOrder
    BY <1>1, <1>3, TakenOrder
  <2>2. InLine(awaited, outBuffer, queue) =>
          InLine(SubSeq(awaited, Len(outBuffer) + 1, Len(awaited)), <<>>, queue)
    <3>1. InLine(awaited, outBuffer, queue) =>
            InLine(SubSeq(awaited, Len(outBuffer) + 1, Len(awaited)),
                   SubSeq(outBuffer, Len(outBuffer) + 1, Len(outBuffer)), queue)
      BY <1>1, TakeBuffer
    <3> QED
      BY <1>1, <3>1
  <2> QED
    BY <1>2, <1>3, <2>1, <2>2
<1>4. CASE queue # <<>> /\ queue' = Tail(queue) /\ Taken(outBuffer) /\ Return("fail")
           /\ UNCHANGED dropped
  <2>1. /\ awaited' \in Seq(Nat)
        /\ wire.inOrder /\ IsPrefix(outBuffer, awaited) => wire'.inOrder
    BY <1>1, <1>4, TakenOrder
  <2>2. queue' \in Seq(Seq(Nat))
    BY <1>4, HeadTailProperties
  <2> QED
    BY <1>2, <1>4, <2>1, <2>2, FailReturns
<1>5. ASSUME queue # <<>>, NEW n \in 0..Len(Head(queue)),
             Taken(outBuffer \o SubSeq(Head(queue), 1, n)),
             LET rest == Tail(queue)
                 left == SubSeq(Head(queue), n + 1, Len(Head(queue)))
             IN  \/ left = <<>> /\ queue' = rest /\ UNCHANGED dropped
                 \/ queue' = <<left>> \o rest /\ UNCHANGED dropped
                 \/ queue' = rest /\ dropped'
                 \/ queue' = rest /\ UNCHANGED dropped /\ Return("fail")
      PROVE  /\ OutputTypes' /\ (dropped => dropped')
             /\ InLine(awaited, outBuffer, queue) =>
                  /\ wire.inOrder => wire'.inOrder
                  /\ \/ dropped' \/ net' \in {"close", "drop"}
                     \/ InLine(awaited, outBuffer, queue)'
  <2> DEFINE rest == Tail(queue)
             first == Head(queue)
             left == SubSeq(first, n + 1, Len(first))
             part == SubSeq(first, 1, n)
             w == outBuffer \o part
  <2>1. first \in Seq(Nat) /\ rest \in Seq(Seq(Nat))
    BY <1>5, HeadTailProperties
  <2>2. left \in Seq(Nat) /\ part \in Seq(Nat)
    <3> HIDE DEF first
    <3>1. n \in 0..Len(first)
      BY <1>5 DEF first
    <3> QED
      BY <2>1, <3>1
  <2>3. w \in Seq(Nat) /\ Len(w) \in Nat
    <3> HIDE DEF part
    <3>1. w \in Seq(Nat)
      BY <2>2, ConcatProperties
    <3> QED
      BY <3>1
  <2>4. <<left>> \o rest \in Seq(Seq(Nat))
    <3> HIDE DEF left, rest
    <3>1. <<left>> \in Seq(Seq(Nat))
      BY <2>2
    <3> QED
      BY <2>1, <3>1, ConcatProperties
  <2>5. InLine(awaited, outBuffer, queue) =>
          /\ IsPrefix(w, awaited)
          /\ InLine(SubSeq(awaited, Len(w) + 1, Len(awaited)), <<>>, <<left>> \o rest)
    BY <1>5, TakeBlock
  <2>6. Taken(w)
    BY <1>5
  <2>7. \/ left = <<>> /\ queue' = rest /\ UNCHANGED dropped
        \/ queue' = <<left>> \o rest /\ UNCHANGED dropped
        \/ queue' = rest /\ dropped'
        \/ queue' = rest /\ UNCHANGED dropped /\ Return("fail")
    BY <1>5
  <2> HIDE DEF rest, first, left, part, w
  <2>8. /\ awaited' \in Seq(Nat)
        /\ awaited' = SubSeq(awaited, Len(w) + 1, Len(awaited))
        /\ wire.inOrder /\ IsPrefix(w, awaited) => wire'.inOrder
    BY <2>3, <2>6, TakenOrder
  <2>9. OutputTypes' /\ (dropped => dropped')
    <3>1. queue' \in Seq(Seq(Nat))
      BY <2>1, <2>4, <2>7, Zenon
    <3>2. dropped => dropped'
      BY <2>7, Zenon
    <3>3. outBuffer' \in Seq(Nat)
      OBVIOUS
    <3> QED
      BY <2>8, <3>1, <3>2, <3>3
  <2>10. ASSUME InLine(awaited, outBuffer, queue)
         PROVE  dropped' \/ net' \in {"close", "drop"} \/ InLine(awaited', <<>>, queue')
    <3>1. InLine(awaited', <<>>, <<left>> \o rest)
      BY <2>5, <2>8, <2>10
    <3>2. CASE left = <<>> /\ queue' = rest
      BY <2>1, <2>8, <3>1, <3>2, EmptyBlock
    <3>3. CASE queue' = <<left>> \o rest
      BY <3>1, <3>3
    <3> QED
      BY <2>7, <3>2, <3>3, FailReturns
  <2> QED
    BY <2>5, <2>8, <2>9, <2>10
<1> QED
  <2>1. CASE queue # <<>> /\ \E n \in 0..Len(Head(queue)) :
          LET rest == Tail(queue)
              left == SubSeq(Head(queue), n + 1, Len(Head(queue)))
          IN  /\ Taken(outBuffer \o SubSeq(Head(queue), 1, n))
              /\ \/ left = <<>> /\ queue' = rest /\ UNCHANGED dropped
                 \/ queue' = <<left>> \o rest /\ UNCHANGED dropped
                 \/ queue' = rest /\ dropped'
                 \/ queue' = rest /\ UNCHANGED dropped /\ Return("fail")
    BY <1>5, <2>1
  <2> QED
    BY <1>3, <1>4, <2>1 DEF OutputQueue

\* handle_output keeps the invariant.
LEMMA OutputOrder ==
    ASSUME OrderInv, HandleOutput
    PROVE  OrderInv'
<1>1. closing' = closing /\ sent' = sent /\ net \notin {"close", "drop"}
  BY DEF HandleOutput
<1>2. OutputTypes /\ (wire.inOrder \/ dropped) /\ LineInv
  BY DEF OrderInv
<1>3. CASE Return("fail") /\ UNCHANGED <<outBuffer, queue, awaited, wire, dropped>>
  BY <1>1, <1>2, <1>3, FailReturns DEF OrderInv, OutputTypes, LineInv
<1>4. ASSUME ~closing, NEW n \in 0..(Len(outBuffer) - 1), Taken(SubSeq(outBuffer, 1, n)),
             outBuffer' = SubSeq(outBuffer, n + 1, Len(outBuffer)),
             UNCHANGED <<queue, dropped>>
      PROVE  OrderInv'
  <2>1. n \in 0..Len(outBuffer) /\ n \in Nat
    BY <1>2 DEF OutputTypes
  <2>2. Len(SubSeq(outBuffer, 1, n)) = n /\ outBuffer' \in Seq(Nat)
    BY <1>2, <1>4, <2>1 DEF OutputTypes
  <2>3. /\ awaited' \in Seq(Nat)
        /\ awaited' = SubSeq(awaited, n + 1, Len(awaited))
        /\ wire.inOrder /\ IsPrefix(SubSeq(outBuffer, 1, n), awaited) => wire'.inOrder
    <3> DEFINE w == SubSeq(outBuffer, 1, n)
    <3>1. Taken(w) /\ Len(w) = n /\ Len(w) \in Nat
      BY <1>4, <2>1, <2>2
    <3> HIDE DEF w
    <3>2. /\ awaited' \in Seq(Nat)
          /\ awaited' = SubSeq(awaited, Len(w) + 1, Len(awaited))
          /\ wire.inOrder /\ IsPrefix(w, awaited) => wire'.inOrder
      BY <1>2, <3>1, TakenOrder DEF OutputTypes
    <3> QED
      BY <3>1, <3>2 DEF w
  <2>4. InLine(awaited, outBuffer, queue) =>
          /\ IsPrefix(SubSeq(outBuffer, 1, n), awaited)
          /\ InLine(awaited', outBuffer', queue')
    BY <1>2, <1>4, <2>1, <2>3, TakeBuffer DEF OutputTypes
  <2>5. OutputTypes'
    BY <1>1, <1>2, <1>4, <2>2, <2>3 DEF OutputTypes
  <2>6. CASE dropped
    BY <1>4, <2>5, <2>6 DEF OrderInv, LineInv
  <2>7. CASE InLine(awaited, outBuffer, queue)
    BY <1>2, <1>4, <2>3, <2>4, <2>5, <2>7 DEF OrderInv, LineInv
  <2> QED
    BY <1>1, <1>2, <1>4, <2>6, <2>7 DEF LineInv
<1>5. ASSUME ~closing, outBuffer' = <<>>, OutputQueue(outBuffer)
      PROVE  OrderInv'
  <2>1. /\ OutputTypes' /\ (dropped => dropped')
        /\ InLine(awaited, outBuffer, queue) =>
             /\ wire.inOrder => wire'.inOrder
             /\ \/ dropped' \/ net' \in {"close", "drop"}
                \/ InLine(awaited, outBuffer, queue)'
    BY <1>1, <1>2, <1>5, QueueOrder
  <2>2. CASE dropped
    BY <2>1, <2>2 DEF OrderInv, LineInv
  <2>3. CASE InLine(awaited, outBuffer, queue)
    BY <1>2, <2>1, <2>3 DEF OrderInv, LineInv
  <2> QED
    BY <1>1, <1>2, <1>5, <2>2, <2>3 DEF LineInv
<1> QED
  BY <1>3, <1>4, <1>5 DEF HandleOutput

\* A packet that is sent keeps the invariant, whichever thread sends it.
LEMMA SentOrder ==
    ASSUME OrderInv, NEW size \in Nat, SendPacket(size), closing' = closing,
           net' = net \/ (net \notin {"close", "drop"})
    PROVE  OrderInv'
<1>1. /\ OutputTypes' /\ wire' = wire /\ dropped' = dropped
      /\ InLine(awaited, outBuffer, queue) => InLine(awaited, outBuffer, queue)'
  BY SendOrder DEF OrderInv
<1> QED
  BY <1>1 DEF OrderInv, LineInv

\* A step that leaves the output alone keeps the invariant, unless it goes on after
\* an error without closing the socket.
LEMMA UntouchedOrder ==
    ASSUME OrderInv, UNCHANGED outVars, closing => closing',
           net \in {"close", "drop"} => net' = net \/ closing'
    PROVE  OrderInv'
<1>1. OutputTypes'
  BY DEF OrderInv, OutputTypes, outVars
<1>2. (wire.inOrder \/ dropped)'
  BY DEF OrderInv, outVars
<1>3. LineInv'
  BY DEF OrderInv, LineInv, outVars
<1> QED
  BY <1>1, <1>2, <1>3 DEF OrderInv

\* Every step keeps the invariant.
LEMMA OrderNext ==
    ASSUME OrderInv, [Next]_vars
    PROVE  OrderInv'
<1> USE DEF netState, acceptState, outState, ioState, senderFrame, inVars
<1>0. /\ GreetSize \in Nat /\ ReplySize \in Nat
      /\ \A size \in Sizes : size \in Nat
  BY SocketConstants
<1>1. CASE UNCHANGED vars
  BY <1>1, UntouchedOrder DEF vars
<1>2. CASE OpenStep
  <2>1. CASE OpenGreet
    BY <1>0, <2>1, SentOrder DEF OpenGreet
  <2>2. CASE OpenSocket \/ OpenBuffer \/ OpenRegister \/ OpenDone \/ CloseFailed
    <3>1. UNCHANGED outVars /\ net' = net /\ (closing => closing')
      <4>1. CASE OpenSocket
        BY <4>1 DEF OpenSocket
      <4>2. CASE OpenBuffer
        BY <4>2 DEF OpenBuffer
      <4>3. CASE OpenRegister
        BY <4>3 DEF OpenRegister
      <4>4. CASE OpenDone
        BY <4>4 DEF OpenDone
      <4>5. CASE CloseFailed
        BY <4>5 DEF CloseFailed
      <4> QED
        BY <2>2, <4>1, <4>2, <4>3, <4>4, <4>5
    <3> QED
      BY <3>1, UntouchedOrder
  <2> QED
    BY <1>2, <2>1, <2>2 DEF OpenStep
<1>3. CASE HandleOutput
  BY <1>3, OutputOrder
<1>4. CASE Update \/ HandleInput \/ InputHeader \/ InputPayload \/ PeekSession
           \/ AddNewSockets
  <2>1. UNCHANGED outVars /\ closing' = closing /\ net \notin {"close", "drop"}
    BY <1>4 DEF Update, HandleInput, InputHeader, InputPayload, PeekSession,
               AddNewSockets
  <2> QED
    BY <2>1, UntouchedOrder
<1>5. CASE HandleClose \/ HandleCloseSession \/ RemoveHandler \/ DropSocket \/ DropSession
           \/ DropReference
  <2>1. /\ UNCHANGED outVars /\ (closing => closing')
        /\ net \in {"close", "drop"} => closing'
    <3>1. CASE HandleClose \/ DropSocket
      BY <3>1 DEF HandleClose, DropSocket
    <3>2. CASE HandleCloseSession \/ DropSession
      BY <3>2 DEF HandleCloseSession, DropSession
    <3>3. CASE RemoveHandler
      BY <3>3 DEF RemoveHandler
    <3>4. CASE DropReference
      BY <3>4 DEF DropReference
    <3> QED
      BY <1>5, <3>1, <3>2, <3>3, <3>4
  <2> QED
    BY <2>1, UntouchedOrder
<1>6. CASE ProcessIncoming
  <2>1. net = "process" /\ closing' = closing
    BY <1>6 DEF ProcessIncoming
  <2>2. SendPacket(ReplySize) \/ UNCHANGED outVars
    <3>1. Client[seen + 1].kind \in {"auth", "ping", "data"}
      BY <1>6, SocketConstants DEF ProcessIncoming
    <3> QED
      BY <1>6, <3>1 DEF ProcessIncoming, HandleAuthSession, HandlePing, QueuePacket
  <2> QED
    BY <1>0, <2>1, <2>2, SentOrder, UntouchedOrder
<1>7. ASSUME NEW t \in Senders, SessionSendPacket(t)
      PROVE  OrderInv'
  <2>1. PICK size \in Sizes : SendPacket(size)
    BY <1>7 DEF SessionSendPacket
  <2>2. closing' = closing /\ net' = net
    BY <1>7 DEF SessionSendPacket
  <2> QED
    BY <1>0, <2>1, <2>2, SentOrder
<1>8. ASSUME NEW t \in Senders, CloseStep(t)
      PROVE  OrderInv'
  BY <1>8, UntouchedOrder DEF CloseStep, CloseSocket, CloseSocketSession
<1>9. CASE CloseOrDelete \/ DeleteSession \/ SessionUpdate
  <2>1. UNCHANGED outVars /\ closing' = closing
    BY <1>9 DEF CloseOrDelete, DeleteSession, SessionUpdate
  <2>2. net' = net
    BY <1>9 DEF CloseOrDelete, DeleteSession, SessionUpdate, senderFrame
  <2> QED
    BY <2>1, <2>2, UntouchedOrder
<1> QED
  BY <1>1, <1>2, <1>3, <1>4, <1>5, <1>6, <1>7, <1>8, <1>9 DEF Next, NetStep

\* Nothing waits and nothing was sent at first.
LEMMA OrderInit ==
    ASSUME Init
    PROVE  OrderInv
<1>1. Len(<<>>) = 0 /\ <<>> \in Seq(Nat) /\ <<>> \in Seq(Seq(Nat))
  OBVIOUS
<1>2. Laid(<<>>, <<>>, <<>>, [k \in 0..0 |-> 0])
  BY <1>1 DEF Laid
<1>3. InLine(<<>>, <<>>, <<>>)
  BY <1>2 DEF InLine
<1> QED
  BY <1>1, <1>3 DEF Init, OrderInv, OutputTypes, LineInv

\* What the client gets of the output is what SendPacket accepted, in that order and
\* without a hole, unless handle_output_queue has dropped a block: for any sizes of
\* the buffer, the queue and the packets, any number of sending threads, and whatever
\* portions the kernel takes.
THEOREM OutputInOrder == Spec => [](wire.inOrder \/ dropped)
<1>1. Init => OrderInv
  BY OrderInit
<1>2. OrderInv /\ [Next]_vars => OrderInv'
  BY OrderNext
<1>3. OrderInv => wire.inOrder \/ dropped
  BY DEF OrderInv
<1> QED
  BY <1>1, <1>2, <1>3, PTL DEF Spec

=============================================================================
