-------------------------- MODULE PcTestApp_proofs --------------------------
(***************************************************************************)
(* For rings, frames, buffers and memories of every size: the CRC that a   *)
(* frame ends with leaves the one remainder crc16.h names; the ring of the *)
(* packet layer is a window on the bytes received that never overflows;    *)
(* the transmit side of the UDP server never loses a wake-up and sends the *)
(* replies in their order; while the requests stay inside the memory, the  *)
(* state keeps its types, every reply is a frame with its CRC, and the     *)
(* stack is a RemoteMemory, with or without PC_DEBUG, whatever bytes the   *)
(* requests hold and whatever datagrams are lost or cut.                   *)
(***************************************************************************)
EXTENDS PcTestApp, WellFoundedInduction, TLAPS

(* A set of numbers that is not empty has a least one. *)
LEMMA Least ==
  ASSUME NEW T \in SUBSET Nat, T # {}
  PROVE  \E m \in T : \A k \in T : m <= k
<1> DEFINE R == {ss \in Nat \X Nat : ss[1] < ss[2]}
<1>1. IsWellFoundedOn(R, Nat)
  BY NatLessThanWellFounded DEF OpToRel
<1>2. \A x, y \in Nat : ~(<<x, y>> \in R) => y <= x
  OBVIOUS
<1> HIDE DEF R
<1>3. PICK x \in T : \A y \in T : ~(<<y, x>> \in R)
  BY <1>1, WFMin
<1>4. \A y \in T : x <= y
  BY <1>2, <1>3
<1> QED BY <1>4

(* Induction over the numbers, for a set in place of an operator. *)
LEMMA Induction ==
  ASSUME NEW S, 0 \in S, \A n \in Nat : n \in S => n + 1 \in S
  PROVE  \A n \in Nat : n \in S
<1> DEFINE T == {n \in Nat : n \notin S}
<1> SUFFICES ASSUME T # {} PROVE FALSE
  OBVIOUS
<1>1. PICK m \in T : \A k \in T : m <= k
  BY Least
<1>2. m # 0 /\ m - 1 \in Nat /\ m - 1 \notin T
  BY <1>1
<1> QED BY <1>1, <1>2

(* The function f on 0..n begins with a, and each of its values is what *)
(* G makes of the one before.                                           *)
Unfolds(f, A, a, n, G) ==
  f \in [0..n -> A] /\ f[0] = a /\ \A i \in 1..n : f[i] = G[i][f[i - 1]]

(* Such a function exists: what the recursive functions of the model *)
(* (CrcAfter, Kept, FlattenSeq) need before they can be unfolded.    *)
LEMMA Recursion ==
  ASSUME NEW A, NEW a \in A, NEW n \in Nat, NEW G \in [1..n -> [A -> A]]
  PROVE  \E f : Unfolds(f, A, a, n, G)
<1> DEFINE D(f, m) == /\ f \in [0..m -> A] /\ f[0] = a
                      /\ \A i \in 1..m : f[i] = G[i][f[i - 1]]
           S == {m \in Nat : m <= n => \E f : D(f, m)}
<1>1. 0 \in S
  <2>1. D([i \in 0..0 |-> a], 0)
    OBVIOUS
  <2> QED BY <2>1
<1>2. ASSUME NEW m \in Nat, m \in S, m + 1 <= n
      PROVE  \E f : D(f, m + 1)
  <2>1. PICK f : D(f, m)
    BY <1>2
  <2> DEFINE v == G[m + 1][f[m]]
             g == [i \in 0..m + 1 |-> IF i = m + 1 THEN v ELSE f[i]]
  <2>2. f \in [0..m -> A] /\ f[0] = a /\ \A i \in 1..m : f[i] = G[i][f[i - 1]]
    BY <2>1
  <2>3. v \in A
    <3>1. m + 1 \in 1..n /\ f[m] \in A
      BY <1>2, <2>2
    <3> QED BY <3>1
  <2> HIDE DEF v
  <2>4. g \in [0..m + 1 -> A] /\ g[0] = a
    BY <2>2, <2>3
  <2>5. ASSUME NEW i \in 1..m + 1 PROVE g[i] = G[i][g[i - 1]]
    <3>1. CASE i = m + 1
      BY <3>1 DEF v
    <3>2. CASE i # m + 1
      <4>1. i \in 1..m /\ i - 1 \in 0..m /\ i - 1 # m + 1
        BY <3>2
      <4>2. g[i] = f[i] /\ g[i - 1] = f[i - 1]
        BY <4>1
      <4> QED BY <2>2, <4>1, <4>2
    <3> QED BY <3>1, <3>2
  <2> HIDE DEF g
  <2>6. D(g, m + 1)
    BY <2>4, <2>5
  <2> QED BY <2>6
<1> HIDE DEF D
<1>3. \A m \in Nat : m \in S => m + 1 \in S
  BY <1>2
<1> HIDE DEF S
<1>4. n \in S
  BY <1>1, <1>3, Induction
<1>5. PICK f : D(f, n)
  BY <1>4 DEF S
<1> QED BY <1>5 DEF D, Unfolds
-----------------------------------------------------------------------------
(* A register of the CRC, bit by bit. *)
Bits == [0..15 -> {0, 1}]

(* The bits between those that POLY flips, 15, 10 and 3, read as *)
(* numbers.                                                      *)
High(x) == 8*x[14] + 4*x[13] + 2*x[12] + x[11]
Middle(x) == 32*x[9] + 16*x[8] + 8*x[7] + 4*x[6] + 2*x[5] + x[4]
Below(x) == 4*x[2] + 2*x[1] + x[0]
Join(t, h, b, m, c, l) == 32768*t + 2048*h + 1024*b + 16*m + 8*c + l

(* The register as the number the code keeps. *)
Word(x) == Join(x[15], High(x), x[10], Middle(x), x[3], Below(x))

(* A turn of the loop on bits. *)
ShiftBits(x) == [i \in 0..15 |-> IF i = 15 THEN 0 ELSE x[i + 1]]
FlipBits(x) == [i \in 0..15 |-> IF i \in {15, 10, 3} THEN 1 - x[i] ELSE x[i]]
TurnBits(x, bit) == IF x[0] # bit THEN FlipBits(ShiftBits(x)) ELSE ShiftBits(x)

(* crc ^ POLY flips the bits 15, 10 and 3 and leaves the rest. *)
(* crc16.h:3.                                                  *)
LEMMA PolyFlips ==
  ASSUME NEW h \in 0..15, NEW m \in 0..63, NEW l \in 0..7, NEW b \in {0, 1}, NEW c \in {0, 1}
  PROVE  XorPoly(Join(0, h, b, m, c, l)) = Join(1, h, 1 - b, m, 1 - c, l)
<1> DEFINE n == 2048*h + 1024*b + 16*m + 8*c + l
           o == n + 32768
           p == o + 1024 * (1 - 2 * b)
<1>1. FlipBit(n, 32768) = o
  BY DEF FlipBit
<1>2. FlipBit(o, 1024) = p
  <2>1. o \div 1024 = 32 + 2*h + b
    OBVIOUS
  <2>2. (32 + 2*h + b) % 2 = b
    OBVIOUS
  <2> QED BY <2>1, <2>2 DEF FlipBit
<1>3. FlipBit(p, 8) = p + 8 * (1 - 2 * c)
  <2>1. p \div 8 = 4096 + 256*h + 128*(1 - b) + 2*m + c
    OBVIOUS
  <2>2. (p \div 8) % 2 = c
    BY <2>1
  <2> QED BY <2>1, <2>2 DEF FlipBit
<1>4. Join(0, h, b, m, c, l) = n /\ Join(1, h, 1 - b, m, 1 - c, l) = p + 8 * (1 - 2 * c)
  BY DEF Join
<1> QED BY <1>1, <1>2, <1>3, <1>4 DEF XorPoly

(* crc >> 1 is the shift of the bits, and crc & 1 the bit that it *)
(* drops. crc16.h:68-71.                                          *)
LEMMA ShiftHalves ==
  ASSUME NEW x \in [0..15 -> {0, 1}]
  PROVE  /\ ShiftBits(x) \in Bits /\ ShiftBits(x)[15] = 0
         /\ Word(x) % 2 = x[0] /\ Word(x) \div 2 = Word(ShiftBits(x))
<1> DEFINE y == ShiftBits(x)
<1>1. y \in [0..15 -> {0, 1}] /\ y[15] = 0
  BY DEF ShiftBits
<1>2. 2 * High(y) + y[10] = 16 * x[15] + High(x)
  BY DEF ShiftBits, High
<1>3. 2 * Middle(y) + y[3] = 64 * x[10] + Middle(x)
  BY DEF ShiftBits, Middle
<1>4. 2 * Below(y) + x[0] = 8 * x[3] + Below(x)
  BY DEF ShiftBits, Below
<1>5. High(x) \in 0..15 /\ Middle(x) \in 0..63 /\ Below(x) \in 0..7
  BY DEF High, Middle, Below
<1>6. x[0] \in {0, 1} /\ x[3] \in {0, 1} /\ x[10] \in {0, 1} /\ x[15] \in {0, 1}
  OBVIOUS
<1> HIDE DEF y
<1>7. High(y) \in 0..15 /\ Middle(y) \in 0..63 /\ Below(y) \in 0..7
  BY <1>1 DEF High, Middle, Below
<1>8. PICK h \in 0..15, m \in 0..63, l \in 0..7 :
        h = High(x) /\ m = Middle(x) /\ l = Below(x)
  BY <1>5, Zenon
<1>9. PICK hh \in 0..15, mm \in 0..63, ll \in 0..7 :
        hh = High(y) /\ mm = Middle(y) /\ ll = Below(y)
  BY <1>7, Zenon
<1>10. PICK t \in {0, 1}, d \in {0, 1}, e \in {0, 1}, z \in {0, 1} :
        t = x[15] /\ d = x[10] /\ e = x[3] /\ z = x[0]
  BY <1>6, Zenon
<1>11. PICK b \in {0, 1}, c \in {0, 1} : b = y[10] /\ c = y[3]
  BY <1>1
<1>12. Word(x) = Join(t, h, d, m, e, l) /\ Word(y) = Join(0, hh, b, mm, c, ll)
  BY <1>1, <1>8, <1>9, <1>10, <1>11 DEF Word
<1>13. 2 * hh + b = 16 * t + h /\ 2 * mm + c = 64 * d + m /\ 2 * ll + z = 8 * e + l
  BY <1>2, <1>3, <1>4, <1>8, <1>9, <1>10, <1>11
<1> DEFINE w == Join(t, h, d, m, e, l)
           v == Join(0, hh, b, mm, c, ll)
<1>14. w = 2 * v + z /\ v \in Nat
  BY <1>13 DEF Join
<1> HIDE DEF w, v
<1>15. w % 2 = z /\ w \div 2 = v
  BY <1>14
<1> QED BY <1>1, <1>12, <1>15, <1>10 DEF y, w, v, Bits

(* The loop of the code on the number is the loop on its bits. *)
LEMMA BitTurns ==
  ASSUME NEW x \in [0..15 -> {0, 1}], NEW bit \in {0, 1}
  PROVE  TurnBits(x, bit) \in Bits /\ CrcBit(Word(x), bit) = Word(TurnBits(x, bit))
<1> DEFINE y == ShiftBits(x)
           z == FlipBits(y)
<1>1. y \in [0..15 -> {0, 1}] /\ y[15] = 0
  BY ShiftHalves DEF Bits
<1>2. z \in [0..15 -> {0, 1}]
  BY <1>1 DEF FlipBits
<1>3. XorPoly(Word(y)) = Word(z)
  <2> HIDE DEF y
  <2>1. High(y) \in 0..15 /\ Middle(y) \in 0..63 /\ Below(y) \in 0..7
    BY <1>1 DEF High, Middle, Below
  <2>2. /\ z[15] = 1 /\ z[10] = 1 - y[10] /\ z[3] = 1 - y[3]
        /\ \A i \in (0..15) \ {15, 10, 3} : z[i] = y[i]
    BY <1>1 DEF FlipBits
  <2>3. High(z) = High(y) /\ Middle(z) = Middle(y) /\ Below(z) = Below(y)
    BY <2>2 DEF High, Middle, Below
  <2>4. y[10] \in {0, 1} /\ y[3] \in {0, 1}
    BY <1>1
  <2>5. XorPoly(Join(0, High(y), y[10], Middle(y), y[3], Below(y)))
          = Join(1, High(y), 1 - y[10], Middle(y), 1 - y[3], Below(y))
    BY <2>1, <2>4, PolyFlips, Zenon
  <2> QED BY <1>1, <2>2, <2>3, <2>5 DEF Word
<1> QED BY <1>1, <1>2, <1>3, ShiftHalves DEF TurnBits, CrcBit, Bits

(* The register that the complement of b is fed to: the bits of b not *)
(* yet shifted out, flipped where the mask m has a bit.               *)
Masked(b, k, m) ==
  [i \in 0..15 |-> IF i + k <= 15 /\ b[i + k] = 1 THEN 1 - m[i] ELSE m[i]]

(* A bit of the complement of b turns the mask as a one does. *)
LEMMA MaskTurns ==
  ASSUME NEW b \in Bits, NEW m \in Bits, NEW k \in 0..15
  PROVE  TurnBits(Masked(b, k, m), 1 - b[k]) = Masked(b, k + 1, TurnBits(m, 1))
<1> DEFINE x == Masked(b, k, m)
<1>1. x \in Bits /\ (x[0] # 1 - b[k] <=> m[0] # 1)
  BY DEF Masked, Bits
<1>2. ShiftBits(x) = Masked(b, k + 1, ShiftBits(m))
  BY DEF Masked, Bits, ShiftBits
<1>3. FlipBits(Masked(b, k + 1, ShiftBits(m))) = Masked(b, k + 1, FlipBits(ShiftBits(m)))
  BY DEF Masked, Bits, ShiftBits, FlipBits
<1> QED BY <1>1, <1>2, <1>3 DEF TurnBits

(* After k bits of the complement of b, the register is b under the *)
(* mask that ones alone make of 0.                                  *)
Follows(b, k, crc, n) == \E m \in Bits : Word(m) = n /\ crc = Word(Masked(b, k, m))

(* One bit more, and Follows goes on. *)
LEMMA FollowsOn ==
  ASSUME NEW b \in Bits, NEW k \in 0..15, NEW crc, NEW n, Follows(b, k, crc, n)
  PROVE  Follows(b, k + 1, CrcBit(crc, 1 - b[k]), CrcBit(n, 1))
<1>1. PICK m \in Bits : Word(m) = n /\ crc = Word(Masked(b, k, m))
  BY DEF Follows
<1>2. TurnBits(m, 1) \in Bits /\ CrcBit(Word(m), 1) = Word(TurnBits(m, 1))
  BY BitTurns DEF Bits
<1>3. 1 - b[k] \in {0, 1} /\ Masked(b, k, m) \in Bits
  BY DEF Bits, Masked
<1>4. CrcBit(Word(Masked(b, k, m)), 1 - b[k]) = Word(TurnBits(Masked(b, k, m), 1 - b[k]))
  BY <1>3, BitTurns DEF Bits
<1> QED BY <1>1, <1>2, <1>4, MaskTurns, Zenon DEF Follows

(* It begins with the mask 0; after sixteen bits nothing of b is left. *)
LEMMA FollowsToTheEnd ==
  ASSUME NEW b \in Bits
  PROVE  /\ Follows(b, 0, Word(b), 0)
         /\ \A crc, n : Follows(b, 16, crc, n) => crc = n
<1> DEFINE zero == [i \in 0..15 |-> 0]
<1>1. zero \in Bits /\ Word(zero) = 0
  BY DEF Bits, Word, Join, High, Middle, Below
<1>2. Masked(b, 0, zero) = b
  BY DEF Masked, Bits
<1>3. \A m \in Bits : Masked(b, 16, m) = m
  BY DEF Masked, Bits
<1> QED BY <1>1, <1>2, <1>3 DEF Follows

(* What sixteen ones make of 0. *)
LEMMA OnesAlone ==
  /\ CrcBit(0, 1) = 33800
  /\ CrcBit(33800, 1) = 50700
  /\ CrcBit(50700, 1) = 59150
  /\ CrcBit(59150, 1) = 63375
  /\ CrcBit(63375, 1) = 31687
  /\ CrcBit(31687, 1) = 15843
  /\ CrcBit(15843, 1) = 7921
  /\ CrcBit(7921, 1) = 3960
  /\ CrcBit(3960, 1) = 33716
  /\ CrcBit(33716, 1) = 50642
  /\ CrcBit(50642, 1) = 59105
  /\ CrcBit(59105, 1) = 29552
  /\ CrcBit(29552, 1) = 48560
  /\ CrcBit(48560, 1) = 56016
  /\ CrcBit(56016, 1) = 59744
  /\ CrcBit(59744, 1) = 61624
BY DEF CrcBit, XorPoly, FlipBit

(* Four bits, the lowest last, under the bits of q. *)
Nibble(q, d, c, b, a) == 16 * q + 8 * d + 4 * c + 2 * b + a

(* The register after four bits, the lowest first. *)
Fed(crc, d, c, b, a) == CrcBit(CrcBit(CrcBit(CrcBit(crc, a), b), c), d)

(* The arguments of Nibble. *)
IsNibble(q, d, c, b, a) ==
  q \in Nat /\ d \in {0, 1} /\ c \in {0, 1} /\ b \in {0, 1} /\ a \in {0, 1}

(* The state of the inner loop. *)
Loop(crc, data) == [crc |-> crc, data |-> data]

(* Four turns of the inner loop feed the four lowest bits. *)
(* crc16.h:66-72.                                          *)
LEMMA NibbleTurns ==
  ASSUME NEW crc, NEW q, NEW a, NEW b, NEW c, NEW d, IsNibble(q, d, c, b, a)
  PROVE  FourTurns(Loop(crc, Nibble(q, d, c, b, a)))
           = Loop(Fed(crc, d, c, b, a), q)
<1>1. q \in Nat /\ d \in {0, 1} /\ c \in {0, 1} /\ b \in {0, 1} /\ a \in {0, 1}
  BY DEF IsNibble
<1>2. \A x, v : \A z \in {0, 1}, u \in Nat :
        v = 2 * u + z => CrcTurn(Loop(x, v)) = Loop(CrcBit(x, z), u)
  BY DEF CrcTurn, Loop
<1> DEFINE u == 8 * q + 4 * d + 2 * c + b
           v == 4 * q + 2 * d + c
           w == 2 * q + d
<1>3. u \in Nat /\ v \in Nat /\ w \in Nat
  BY <1>1
<1>4. /\ Nibble(q, d, c, b, a) = 2 * u + a
      /\ u = 2 * v + b
      /\ v = 2 * w + c
      /\ w = 2 * q + d
  BY <1>1 DEF Nibble
<1> HIDE DEF u, v, w
<1>5. CrcTurn(Loop(crc, Nibble(q, d, c, b, a))) = Loop(CrcBit(crc, a), u)
  <2>1. a \in {0, 1} /\ u \in Nat /\ Nibble(q, d, c, b, a) = 2 * u + a
    BY <1>1, <1>3, <1>4
  <2> QED BY <1>2, <2>1, Zenon
<1>6. CrcTurn(Loop(CrcBit(crc, a), u))
        = Loop(CrcBit(CrcBit(crc, a), b), v)
  <2>1. b \in {0, 1} /\ v \in Nat /\ u = 2 * v + b
    BY <1>1, <1>3, <1>4
  <2> QED BY <1>2, <2>1, Zenon
<1>7. CrcTurn(Loop(CrcBit(CrcBit(crc, a), b), v))
        = Loop(CrcBit(CrcBit(CrcBit(crc, a), b), c), w)
  <2>1. c \in {0, 1} /\ w \in Nat /\ v = 2 * w + c
    BY <1>1, <1>3, <1>4
  <2> QED BY <1>2, <2>1, Zenon
<1>8. CrcTurn(Loop(CrcBit(CrcBit(CrcBit(crc, a), b), c), w))
        = Loop(CrcBit(CrcBit(CrcBit(CrcBit(crc, a), b), c), d), q)
  <2>1. d \in {0, 1} /\ q \in Nat /\ w = 2 * q + d
    BY <1>1, <1>3, <1>4
  <2> QED BY <1>2, <2>1, Zenon
<1> QED BY <1>5, <1>6, <1>7, <1>8 DEF FourTurns, Fed

(* A byte is fed as its eight bits, the lowest first. *)
LEMMA ByteTurns ==
  ASSUME NEW crc, NEW a, NEW b, NEW c, NEW d, NEW e, NEW f, NEW g, NEW h,
         IsNibble(0, d, c, b, a), IsNibble(0, h, g, f, e)
  PROVE  CrcByte(crc, Nibble(Nibble(0, h, g, f, e), d, c, b, a))
           = Fed(Fed(crc, d, c, b, a), h, g, f, e)
<1>1. IsNibble(Nibble(0, h, g, f, e), d, c, b, a)
  BY DEF IsNibble, Nibble
<1>2. FourTurns(Loop(crc, Nibble(Nibble(0, h, g, f, e), d, c, b, a)))
        = Loop(Fed(crc, d, c, b, a), Nibble(0, h, g, f, e))
  BY <1>1, NibbleTurns
<1>3. FourTurns(Loop(Fed(crc, d, c, b, a), Nibble(0, h, g, f, e)))
        = Loop(Fed(Fed(crc, d, c, b, a), h, g, f, e), 0)
  BY <1>1, NibbleTurns
<1> QED BY <1>2, <1>3 DEF CrcByte, Loop

(* A number below sixteen has four bits. *)
LEMMA NibbleBits ==
  ASSUME NEW n \in 0..15
  PROVE  \E d, c, b, a \in {0, 1} : n = Nibble(0, d, c, b, a)
<1>1. \A v \in Nat : v = 2 * (v \div 2) + (v % 2) /\ v % 2 \in {0, 1} /\ v \div 2 \in Nat
  OBVIOUS
<1> DEFINE v == n \div 2
           w == v \div 2
           x == w \div 2
<1>2. n = 2 * v + (n % 2) /\ n % 2 \in {0, 1} /\ v \in Nat
  BY <1>1
<1>3. v = 2 * w + (v % 2) /\ v % 2 \in {0, 1} /\ w \in Nat
  BY <1>1
<1>4. w = 2 * x + (w % 2) /\ w % 2 \in {0, 1} /\ x \in Nat
  BY <1>1
<1> HIDE DEF v, w, x
<1>5. x \in {0, 1}
  BY <1>2, <1>3, <1>4
<1>6. n = Nibble(0, x, w % 2, v % 2, n % 2)
  BY <1>2, <1>3, <1>4 DEF Nibble
<1> QED BY <1>2, <1>3, <1>4, <1>5, <1>6, Zenon

(* The byte whose lowest bit is bit k of x. *)
ByteOf(x, k) == Nibble(Nibble(0, x[k + 7], x[k + 6], x[k + 5], x[k + 4]),
                     x[k + 3], x[k + 2], x[k + 1], x[k])

(* ~crc. *)
Complement(x) == [i \in 0..15 |-> 1 - x[i]]

(* The bytes of the complement of the register b. *)
Complements(b, hi, lo) ==
  /\ lo = ByteOf(Complement(b), 0) /\ hi = ByteOf(Complement(b), 8)
  /\ Word(b) = 65535 - 256 * hi - lo

(* Two bytes are the complement of some register. *)
LEMMA BytesBits ==
  ASSUME NEW hi \in Octet, NEW lo \in Octet
  PROVE  \E b \in Bits : Complements(b, hi, lo)
<1>1. ASSUME NEW n \in 0..255
      PROVE  \E h, g, f, e \in {0, 1} : \E d, c, b, a \in {0, 1} :
               n = Nibble(Nibble(0, h, g, f, e), d, c, b, a)
  <2>1. n \div 16 \in 0..15 /\ n % 16 \in 0..15 /\ n = 16 * (n \div 16) + (n % 16)
    OBVIOUS
  <2>2. PICK h, g, f, e \in {0, 1} : n \div 16 = Nibble(0, h, g, f, e)
    BY <2>1, NibbleBits
  <2>3. PICK d, c, b, a \in {0, 1} : n % 16 = Nibble(0, d, c, b, a)
    BY <2>1, NibbleBits
  <2>4. n = Nibble(Nibble(0, h, g, f, e), d, c, b, a)
    BY <2>1, <2>2, <2>3 DEF Nibble
  <2> QED BY <2>4
<1>2. PICK h, g, f, e \in {0, 1} : \E d, c, b, a \in {0, 1} :
        lo = Nibble(Nibble(0, h, g, f, e), d, c, b, a)
  BY <1>1 DEF Octet
<1>3. PICK d, c, b, a \in {0, 1} : lo = Nibble(Nibble(0, h, g, f, e), d, c, b, a)
  BY <1>2
<1>4. PICK p, o, n, m \in {0, 1} : \E l, k, j, i \in {0, 1} :
        hi = Nibble(Nibble(0, p, o, n, m), l, k, j, i)
  BY <1>1 DEF Octet
<1>5. PICK l, k, j, i \in {0, 1} : hi = Nibble(Nibble(0, p, o, n, m), l, k, j, i)
  BY <1>4
<1> DEFINE s == <<a, b, c, d, e, f, g, h, i, j, k, l, m, n, o, p>>
           x == [q \in 0..15 |-> 1 - s[q + 1]]
           y == Complement(x)
<1>6. x \in Bits
  <2>1. s \in [1..16 -> {0, 1}]
    OBVIOUS
  <2> HIDE DEF s
  <2> QED BY <2>1 DEF Bits
<1>7. /\ y[0] = a /\ y[1] = b /\ y[2] = c /\ y[3] = d
      /\ y[4] = e /\ y[5] = f /\ y[6] = g /\ y[7] = h
      /\ y[8] = i /\ y[9] = j /\ y[10] = k /\ y[11] = l
      /\ y[12] = m /\ y[13] = n /\ y[14] = o /\ y[15] = p
  BY DEF Complement
<1>8. /\ x[0] = 1 - a /\ x[1] = 1 - b /\ x[2] = 1 - c /\ x[3] = 1 - d
      /\ x[4] = 1 - e /\ x[5] = 1 - f /\ x[6] = 1 - g /\ x[7] = 1 - h
      /\ x[8] = 1 - i /\ x[9] = 1 - j /\ x[10] = 1 - k /\ x[11] = 1 - l
      /\ x[12] = 1 - m /\ x[13] = 1 - n /\ x[14] = 1 - o /\ x[15] = 1 - p
  OBVIOUS
<1> HIDE DEF x
<1>9. Word(x) = 65535 - 256 * hi - lo
  <2>1. /\ High(x) = 8 * (1 - o) + 4 * (1 - n) + 2 * (1 - m) + (1 - l)
        /\ Middle(x) = 32 * (1 - j) + 16 * (1 - i) + 8 * (1 - h) + 4 * (1 - g)
                         + 2 * (1 - f) + (1 - e)
        /\ Below(x) = 4 * (1 - c) + 2 * (1 - b) + (1 - a)
    BY <1>8 DEF High, Middle, Below
  <2> DEFINE H == 8 * (1 - o) + 4 * (1 - n) + 2 * (1 - m) + (1 - l)
             M == 32 * (1 - j) + 16 * (1 - i) + 8 * (1 - h) + 4 * (1 - g)
                    + 2 * (1 - f) + (1 - e)
             L == 4 * (1 - c) + 2 * (1 - b) + (1 - a)
  <2> HIDE DEF H, M, L
  <2>2. Word(x) = Join(1 - p, H, 1 - k, M, 1 - d, L)
    BY <1>8, <2>1 DEF Word, H, M, L
  <2>3. Join(1 - p, H, 1 - k, M, 1 - d, L)
          = 65535 - 256 * Nibble(Nibble(0, p, o, n, m), l, k, j, i)
              - Nibble(Nibble(0, h, g, f, e), d, c, b, a)
    BY DEF Join, Nibble, H, M, L
  <2> QED BY <2>2, <2>3, <1>3, <1>5
<1>10. lo = ByteOf(y, 0) /\ hi = ByteOf(y, 8)
  <2> HIDE DEF y
  <2>1. /\ ByteOf(y, 0) = Nibble(Nibble(0, y[7], y[6], y[5], y[4]), y[3], y[2], y[1], y[0])
        /\ ByteOf(y, 8) = Nibble(Nibble(0, y[15], y[14], y[13], y[12]), y[11], y[10], y[9], y[8])
    BY DEF ByteOf
  <2> QED BY <2>1, <1>3, <1>5, <1>7
<1>11. Complements(x, hi, lo)
  BY <1>10, <1>9 DEF Complements
<1> QED BY <1>6, <1>11

(* Fed with the complement of itself, the lower byte first, the *)
(* register ends as ones alone would leave it.                  *)
LEMMA ComplementFed ==
  ASSUME NEW b \in Bits
  PROVE  CrcByte(CrcByte(Word(b), ByteOf(Complement(b), 0)), ByteOf(Complement(b), 8)) = 61624
<1> DEFINE y == Complement(b)
<1>1. \A i \in 0..15 : y[i] = 1 - b[i] /\ y[i] \in {0, 1}
  BY DEF Bits, Complement
<1> HIDE DEF y
<1> DEFINE r0 == Word(b)
           r1 == CrcBit(r0, y[0])
           r2 == CrcBit(r1, y[1])
           r3 == CrcBit(r2, y[2])
           r4 == CrcBit(r3, y[3])
           r5 == CrcBit(r4, y[4])
           r6 == CrcBit(r5, y[5])
           r7 == CrcBit(r6, y[6])
           r8 == CrcBit(r7, y[7])
           r9 == CrcBit(r8, y[8])
           r10 == CrcBit(r9, y[9])
           r11 == CrcBit(r10, y[10])
           r12 == CrcBit(r11, y[11])
           r13 == CrcBit(r12, y[12])
           r14 == CrcBit(r13, y[13])
           r15 == CrcBit(r14, y[14])
           r16 == CrcBit(r15, y[15])
<1>2. Follows(b, 0, r0, 0)
  BY FollowsToTheEnd
<1> HIDE DEF r0, r1, r2, r3, r4, r5, r6, r7, r8, r9, r10, r11, r12, r13, r14, r15, r16
<1>3. Follows(b, 1, r1, 33800)
  BY <1>1, <1>2, FollowsOn, OnesAlone DEF r1
<1>4. Follows(b, 2, r2, 50700)
  BY <1>1, <1>3, FollowsOn, OnesAlone DEF r2
<1>5. Follows(b, 3, r3, 59150)
  BY <1>1, <1>4, FollowsOn, OnesAlone DEF r3
<1>6. Follows(b, 4, r4, 63375)
  BY <1>1, <1>5, FollowsOn, OnesAlone DEF r4
<1>7. Follows(b, 5, r5, 31687)
  BY <1>1, <1>6, FollowsOn, OnesAlone DEF r5
<1>8. Follows(b, 6, r6, 15843)
  BY <1>1, <1>7, FollowsOn, OnesAlone DEF r6
<1>9. Follows(b, 7, r7, 7921)
  BY <1>1, <1>8, FollowsOn, OnesAlone DEF r7
<1>10. Follows(b, 8, r8, 3960)
  BY <1>1, <1>9, FollowsOn, OnesAlone DEF r8
<1>11. Follows(b, 9, r9, 33716)
  BY <1>1, <1>10, FollowsOn, OnesAlone DEF r9
<1>12. Follows(b, 10, r10, 50642)
  BY <1>1, <1>11, FollowsOn, OnesAlone DEF r10
<1>13. Follows(b, 11, r11, 59105)
  BY <1>1, <1>12, FollowsOn, OnesAlone DEF r11
<1>14. Follows(b, 12, r12, 29552)
  BY <1>1, <1>13, FollowsOn, OnesAlone DEF r12
<1>15. Follows(b, 13, r13, 48560)
  BY <1>1, <1>14, FollowsOn, OnesAlone DEF r13
<1>16. Follows(b, 14, r14, 56016)
  BY <1>1, <1>15, FollowsOn, OnesAlone DEF r14
<1>17. Follows(b, 15, r15, 59744)
  BY <1>1, <1>16, FollowsOn, OnesAlone DEF r15
<1>18. Follows(b, 16, r16, 61624)
  BY <1>1, <1>17, FollowsOn, OnesAlone DEF r16
<1>19. r16 = 61624
  BY <1>18, FollowsToTheEnd
<1>20. CrcByte(r0, ByteOf(y, 0)) = r8
  <2>1. /\ IsNibble(0, y[3], y[2], y[1], y[0])
        /\ IsNibble(0, y[7], y[6], y[5], y[4])
    BY <1>1 DEF IsNibble
  <2>2. CrcByte(r0, Nibble(Nibble(0, y[7], y[6], y[5], y[4]), y[3], y[2], y[1], y[0]))
          = Fed(Fed(r0, y[3], y[2], y[1], y[0]), y[7], y[6], y[5], y[4])
    BY <2>1, ByteTurns
  <2> QED BY <2>2 DEF ByteOf, Fed, r1, r2, r3, r4, r5, r6, r7, r8
<1>21. CrcByte(r8, ByteOf(y, 8)) = r16
  <2>1. /\ IsNibble(0, y[11], y[10], y[9], y[8])
        /\ IsNibble(0, y[15], y[14], y[13], y[12])
    BY <1>1 DEF IsNibble
  <2>2. CrcByte(r8, Nibble(Nibble(0, y[15], y[14], y[13], y[12]), y[11], y[10], y[9], y[8]))
          = Fed(Fed(r8, y[11], y[10], y[9], y[8]), y[15], y[14], y[13], y[12])
    BY <2>1, ByteTurns
  <2> QED BY <2>2 DEF ByteOf, Fed, r9, r10, r11, r12, r13, r14, r15, r16
<1> QED BY <1>19, <1>20, <1>21 DEF r0, y

(* The bytes hi and lo are those of the complement of r, written as *)
(* numbers.                                                         *)
Fits(r, hi, lo) == r = 65535 - 256 * hi - lo

(* The same for the register as a number. *)
LEMMA ResidueOfBytes ==
  ASSUME NEW hi \in Octet, NEW lo \in Octet, NEW r, Fits(r, hi, lo)
  PROVE  CrcByte(CrcByte(r, lo), hi) = 61624
<1>1. PICK b \in Bits : Complements(b, hi, lo)
  BY BytesBits
<1>2. CrcByte(CrcByte(Word(b), ByteOf(Complement(b), 0)), ByteOf(Complement(b), 8)) = 61624
  BY ComplementFed
<1> QED BY <1>1, <1>2 DEF Complements, Fits

(* The registers by their bounds. *)
LEMMA InRegisters ==
  ASSUME NEW v \in Int, 0 <= v, v <= 65535 PROVE v \in Registers
<1>1. v <= UINT16_MAX /\ UINT16_MAX \in Int
  BY DEF UINT16_MAX
<1> QED BY <1>1 DEF Registers

LEMMA RegistersAre ==
  ASSUME NEW v \in Registers PROVE v \in Int /\ 0 <= v /\ v <= 65535
<1> DEFINE m == UINT16_MAX
<1>1. m = 65535
  BY DEF UINT16_MAX
<1>2. m \in Int
  BY <1>1
<1>3. v \in 0..m
  BY Zenon DEF Registers
<1> HIDE DEF m
<1>4. v \in Int /\ 0 <= v /\ v <= m
  BY <1>2, <1>3
<1> QED BY <1>1, <1>4

(* Whatever register a message leaves, its complement, sent with the *)
(* lower byte first, brings it to one value.                         *)
LEMMA Residue ==
  ASSUME NEW r \in Registers
  PROVE  CrcByte(CrcByte(r, (65535 - r) % 256), (65535 - r) \div 256) = 61624
<1> DEFINE lo == (65535 - r) % 256
           hi == (65535 - r) \div 256
<1>1. lo \in Octet /\ hi \in Octet /\ Fits(r, hi, lo)
  BY RegistersAre DEF Octet, Fits
<1> HIDE DEF lo, hi
<1>2. CrcByte(CrcByte(r, lo), hi) = 61624
  BY <1>1, ResidueOfBytes
<1> QED BY <1>2 DEF lo, hi

(* Bits make a uint16_t, and every uint16_t is made of bits. *)
LEMMA WordInRange ==
  ASSUME NEW x \in Bits PROVE Word(x) \in Registers
<1>1. High(x) \in 0..15 /\ Middle(x) \in 0..63 /\ Below(x) \in 0..7
  BY DEF Bits, High, Middle, Below
<1>2. x[3] \in {0, 1} /\ x[10] \in {0, 1} /\ x[15] \in {0, 1}
  BY DEF Bits
<1>3. PICK h \in 0..15, m \in 0..63, l \in 0..7 :
        h = High(x) /\ m = Middle(x) /\ l = Below(x)
  BY <1>1, Zenon
<1>4. PICK t \in {0, 1}, d \in {0, 1}, e \in {0, 1} : t = x[15] /\ d = x[10] /\ e = x[3]
  BY <1>2, Zenon
<1>5. Word(x) = Join(t, h, d, m, e, l)
  BY <1>3, <1>4 DEF Word
<1>6. Join(t, h, d, m, e, l) \in Registers
  <2>1. 16 * t + h \in 0..31 /\ 8 * e + l \in 0..15 /\ 64 * d + m \in 0..127
    OBVIOUS
  <2>2. PICK a \in 0..31, b \in 0..127, c \in 0..15 :
          a = 16 * t + h /\ b = 64 * d + m /\ c = 8 * e + l
    BY <2>1
  <2>3. Join(t, h, d, m, e, l) = 2048 * a + 16 * b + c
    BY <2>2 DEF Join
  <2>4. /\ 2048 * a + 16 * b + c \in Int /\ 2048 * a + 16 * b + c <= 65535
        /\ 0 <= 2048 * a + 16 * b + c
    BY <2>2
  <2> QED BY <2>3, <2>4, InRegisters
<1> QED BY <1>5, <1>6

LEMMA RegisterHasBits ==
  ASSUME NEW r \in Registers PROVE \E x \in Bits : r = Word(x)
<1> DEFINE lo == (65535 - r) % 256
           hi == (65535 - r) \div 256
<1>1. lo \in Octet /\ hi \in Octet /\ Fits(r, hi, lo)
  BY RegistersAre DEF Octet, Fits
<1> HIDE DEF lo, hi
<1>2. PICK b \in Bits : Complements(b, hi, lo)
  BY <1>1, BytesBits
<1>3. r = Word(b)
  BY <1>1, <1>2 DEF Complements, Fits
<1> QED BY <1>3

(* The register stays a uint16_t, bit by bit and byte by byte. *)
LEMMA TurnInRange ==
  ASSUME NEW crc \in Registers, NEW bit \in {0, 1}
  PROVE  CrcBit(crc, bit) \in Registers
<1>1. PICK x \in Bits : crc = Word(x)
  BY RegisterHasBits
<1>2. TurnBits(x, bit) \in Bits /\ CrcBit(Word(x), bit) = Word(TurnBits(x, bit))
  BY BitTurns DEF Bits
<1> QED BY <1>1, <1>2, WordInRange

LEMMA ByteInRange ==
  ASSUME NEW crc \in Registers, NEW byte \in Octet
  PROVE  CrcByte(crc, byte) \in Registers
<1> DEFINE Ok(s) == s.crc \in Registers /\ s.data \in Nat
<1>1. ASSUME NEW s, Ok(s) PROVE Ok(CrcTurn(s))
  <2>1. s.data % 2 \in {0, 1} /\ s.data \div 2 \in Nat
    BY <1>1
  <2> QED BY <1>1, <2>1, TurnInRange DEF CrcTurn
<1> DEFINE s == [crc |-> crc, data |-> byte]
<1>2. Ok(s)
  BY DEF Octet
<1> HIDE DEF Ok, s
<1>3. Ok(FourTurns(FourTurns(s)))
  BY <1>1, <1>2 DEF FourTurns
<1> QED BY <1>3 DEF CrcByte, Ok, s

(* CrcAfter, unfolded: what the outer loop keeps in crc. crc16.h:59-73. *)
LEMMA CrcAfterIs ==
  ASSUME NEW data \in Seq(Octet)
  PROVE  /\ CrcAfter(data) \in [0..Len(data) -> Registers]
         /\ CrcAfter(data)[0] = 65535
         /\ \A k \in 1..Len(data) :
              CrcAfter(data)[k] = CrcByte(CrcAfter(data)[k - 1], data[k])
<1> DEFINE n == Len(data)
           G == [k \in 1..n |-> [crc \in Registers |-> CrcByte(crc, data[k])]]
           D(f) == f = [k \in 0..n |-> IF k = 0 THEN 65535
                                     ELSE [crc \in Registers |-> CrcByte(crc, data[k])][f[k - 1]]]
<1>1. n \in Nat
  OBVIOUS
<1>2. G \in [1..n -> [Registers -> Registers]]
  BY ByteInRange
<1>3. 65535 \in Registers
  BY InRegisters
<1> HIDE DEF G
<1>4. PICK f : Unfolds(f, Registers, 65535, n, G)
  BY <1>1, <1>2, <1>3, Recursion
<1>5. f \in [0..n -> Registers] /\ f[0] = 65535 /\ \A k \in 1..n : f[k] = G[k][f[k - 1]]
  BY <1>4 DEF Unfolds
<1>6. ASSUME NEW k \in 1..n
      PROVE  f[k] = [crc \in Registers |-> CrcByte(crc, data[k])][f[k - 1]]
  BY <1>5 DEF G
<1>7. D(f)
  BY <1>1, <1>5, <1>6
<1>8. CrcAfter(data) = CHOOSE g : D(g)
  BY DEF CrcAfter, Registers
<1> DEFINE c == CrcAfter(data)
<1> HIDE DEF c, D
<1>9. D(c)
  BY <1>7, <1>8, Zenon DEF c
<1> USE DEF D
<1>10. c = [k \in 0..n |-> IF k = 0 THEN 65535
                          ELSE [crc \in Registers |-> CrcByte(crc, data[k])][c[k - 1]]]
  BY <1>9
<1> HIDE DEF D
<1>11. c[0] = 65535
  BY <1>1, <1>10
<1>12. ASSUME NEW k \in 1..n, c[k - 1] \in Registers
       PROVE  c[k] = CrcByte(c[k - 1], data[k]) /\ c[k] \in Registers
  <2>1. c[k] = [crc \in Registers |-> CrcByte(crc, data[k])][c[k - 1]]
    BY <1>1, <1>10
  <2>2. c[k] = CrcByte(c[k - 1], data[k]) /\ data[k] \in Octet
    BY <1>12, <2>1
  <2> QED BY <1>12, <2>2, ByteInRange
<1> DEFINE S == {k \in Nat : k <= n => c[k] \in Registers}
<1>13. 0 \in S
  BY <1>3, <1>11
<1>14. ASSUME NEW k \in Nat, k \in S PROVE k + 1 \in S
  <2> SUFFICES ASSUME k + 1 <= n PROVE c[k + 1] \in Registers
    OBVIOUS
  <2>1. k + 1 \in 1..n /\ c[(k + 1) - 1] \in Registers
    BY <1>1, <1>14
  <2> QED BY <2>1, <1>12
<1> HIDE DEF S
<1>15. \A k \in Nat : k \in S
  BY <1>13, <1>14, Induction
<1>16. \A k \in 0..n : c[k] \in Registers
  BY <1>1, <1>15 DEF S
<1>17. c \in [0..n -> Registers]
  BY <1>10, <1>16
<1>18. \A k \in 1..n : c[k] = CrcByte(c[k - 1], data[k])
  BY <1>1, <1>12, <1>16
<1> QED BY <1>11, <1>17, <1>18 DEF c

(* The register after a beginning of the data does not depend on the *)
(* rest.                                                             *)
LEMMA CrcOfPrefix ==
  ASSUME NEW a \in Seq(Octet), NEW b \in Seq(Octet), Len(a) <= Len(b),
         \A k \in 1..Len(a) : b[k] = a[k]
  PROVE  CrcAfter(b)[Len(a)] = CrcAfter(a)[Len(a)]
<1> DEFINE S == {k \in Nat : k <= Len(a) => CrcAfter(b)[k] = CrcAfter(a)[k]}
<1>1. 0 \in S
  BY CrcAfterIs
<1>2. ASSUME NEW k \in Nat, k \in S PROVE k + 1 \in S
  <2> SUFFICES ASSUME k + 1 <= Len(a) PROVE CrcAfter(b)[k + 1] = CrcAfter(a)[k + 1]
    OBVIOUS
  <2>1. /\ k + 1 \in 1..Len(a) /\ k + 1 \in 1..Len(b) /\ (k + 1) - 1 = k
        /\ CrcAfter(b)[k] = CrcAfter(a)[k]
    BY <1>2
  <2>2. /\ CrcAfter(a)[k + 1] = CrcByte(CrcAfter(a)[k], a[k + 1])
        /\ CrcAfter(b)[k + 1] = CrcByte(CrcAfter(b)[k], b[k + 1])
    BY <2>1, CrcAfterIs
  <2> QED BY <2>1, <2>2
<1> HIDE DEF S
<1>3. Len(a) \in S
  BY <1>1, <1>2, Induction
<1> QED BY <1>3 DEF S

(* A word falls into the bytes it was made of. *)
LEMMA BytesOfWord ==
  ASSUME NEW p \in 0..255, NEW q \in 0..255
  PROVE  (p * 256 + q) \div 256 = p /\ (p * 256 + q) % 256 = q
OBVIOUS

(* The two bytes of the result, in the order they are sent. *)
(* crc16.h:75-80, basicProtocol.h:213-215.                  *)
LEMMA ResultBytes ==
  ASSUME NEW r \in Registers
  PROVE  LET lo == (65535 - r) % 256
             hi == (65535 - r) \div 256
         IN  /\ lo \in Octet /\ hi \in Octet
             /\ CrcResult(r) \div 256 = lo /\ CrcResult(r) % 256 = hi
<1> DEFINE lo == (65535 - r) % 256
           hi == (65535 - r) \div 256
<1>1. lo \in 0..255 /\ hi \in 0..255
  BY RegistersAre
<1>2. CrcResult(r) = lo * 256 + hi
  BY DEF CrcResult
<1> HIDE DEF lo, hi
<1>3. CrcResult(r) \div 256 = lo /\ CrcResult(r) % 256 = hi
  BY <1>1, <1>2, BytesOfWord
<1> QED BY <1>1, <1>3 DEF Octet, lo, hi

(* The result on the remainder is crc_ok. *)
LEMMA ResultOfResidue == CrcResult(61624) = crc_ok
BY DEF CrcResult, crc_ok

(* A message followed by its CRC has the CRC crc_ok, whatever its  *)
(* length: "If the new crc equals the value in crc_ok, the data is *)
(* valid". crc16.h:33-35.                                          *)
LEMMA CrcFollows ==
  ASSUME NEW body \in Seq(Octet)
  PROVE  LET crc == Crc(body)
         IN  /\ crc \div 256 \in Octet /\ crc % 256 \in Octet
             /\ Crc(body \o <<crc \div 256, crc % 256>>) = crc_ok
<1> DEFINE n == Len(body)
           r == CrcAfter(body)[n]
           lo == (65535 - r) % 256
           hi == (65535 - r) \div 256
           frame == body \o <<lo, hi>>
<1>1. r \in Registers
  BY CrcAfterIs
<1> HIDE DEF r
<1>2. /\ lo \in Octet /\ hi \in Octet
      /\ CrcResult(r) \div 256 = lo /\ CrcResult(r) % 256 = hi
  BY <1>1, ResultBytes
<1>3. CrcByte(CrcByte(r, lo), hi) = 61624
  BY <1>1, Residue
<1> HIDE DEF lo, hi
<1>4. /\ frame \in Seq(Octet) /\ Len(frame) = n + 2 /\ n \in Nat
      /\ \A k \in 1..n : frame[k] = body[k]
      /\ frame[n + 1] = lo /\ frame[n + 2] = hi
  BY <1>2
<1> HIDE DEF frame
<1>5. CrcAfter(frame)[n] = r
  BY <1>4, CrcOfPrefix DEF r
<1>6. CrcAfter(frame)[n + 1] = CrcByte(r, lo)
  <2> DEFINE m == n + 1
  <2>1. m \in 1..Len(frame) /\ m - 1 = n /\ frame \in Seq(Octet)
    BY <1>4
  <2> HIDE DEF m
  <2>2. CrcAfter(frame)[m] = CrcByte(CrcAfter(frame)[m - 1], frame[m])
    BY <2>1, CrcAfterIs
  <2> QED BY <1>4, <1>5, <2>1, <2>2 DEF m
<1>7. CrcAfter(frame)[n + 2] = CrcByte(CrcByte(r, lo), hi)
  <2> DEFINE m == n + 2
  <2>1. m \in 1..Len(frame) /\ m - 1 = n + 1 /\ frame \in Seq(Octet)
    BY <1>4
  <2> HIDE DEF m
  <2>2. CrcAfter(frame)[m] = CrcByte(CrcAfter(frame)[m - 1], frame[m])
    BY <2>1, CrcAfterIs
  <2> QED BY <1>4, <1>6, <2>1, <2>2 DEF m
<1>8. Crc(frame) = crc_ok
  BY <1>3, <1>4, <1>7, ResultOfResidue DEF Crc
<1>9. Crc(body) = CrcResult(r)
  BY DEF Crc, r
<1> QED BY <1>2, <1>8, <1>9 DEF frame
-----------------------------------------------------------------------------
(* The sequences of bytes of at most n. *)
UpTo(n) == {s \in Seq(Octet) : Len(s) <= n}

(* Two bytes more. *)
LEMMA LongerByTwo ==
  ASSUME NEW n \in Nat, NEW s \in UpTo(n), NEW t \in UpTo(2)
  PROVE  s \o t \in UpTo(n + 2)
BY DEF UpTo

(* Where the items of two sequences are when one follows the other. *)
LEMMA Joined ==
  ASSUME NEW S, NEW s \in Seq(S), NEW t \in Seq(S)
  PROVE  /\ s \o t \in Seq(S) /\ Len(s \o t) = Len(s) + Len(t)
         /\ \A i \in 1..Len(s) : (s \o t)[i] = s[i]
         /\ \A i \in 1..Len(t) : (s \o t)[Len(s) + i] = t[i]
OBVIOUS

(* A sequence that another continues, and sequences of which each continues *)
(* the one before: all begin as the last one does.                          *)
Begins(s, t) == Len(s) <= Len(t) /\ \A j \in 1..Len(s) : t[j] = s[j]
Growing(c, n, S) ==
  /\ n \in Nat /\ \A i \in 0..n : c[i] \in Seq(S)
  /\ \A i \in 1..n : Len(c[i - 1]) <= Len(c[i]) /\ \A j \in 1..Len(c[i - 1]) : c[i][j] = c[i - 1][j]

LEMMA Continued ==
  ASSUME NEW S, NEW n, NEW c, Growing(c, n, S)
  PROVE  \A k \in 0..n : Begins(c[k], c[n])
<1> SUFFICES ASSUME NEW k \in 0..n PROVE Begins(c[k], c[n])
  OBVIOUS
<1> DEFINE T == {m \in Nat : k + m <= n => Begins(c[k], c[k + m])}
<1>1. n \in Nat /\ \A i \in 0..n : Len(c[i]) \in Nat
  BY DEF Growing
<1>2. 0 \in T
  <2>1. k + 0 = k
    BY <1>1
  <2>2. Begins(c[k], c[k])
    BY <1>1 DEF Begins
  <2> QED BY <2>1, <2>2
<1>3. ASSUME NEW m \in Nat, m \in T PROVE m + 1 \in T
  <2> SUFFICES ASSUME k + (m + 1) <= n PROVE Begins(c[k], c[k + (m + 1)])
    OBVIOUS
  <2> DEFINE i == k + (m + 1)
  <2>1. i \in 1..n /\ i - 1 = k + m /\ k + m \in 0..n
    BY <1>1
  <2>2. Begins(c[k], c[i - 1])
    BY <1>3, <2>1
  <2> HIDE DEF i
  <2>3. /\ Len(c[i - 1]) <= Len(c[i])
        /\ \A j \in 1..Len(c[i - 1]) : c[i][j] = c[i - 1][j]
    BY <2>1 DEF Growing
  <2>4. Len(c[k]) \in Nat /\ Len(c[i - 1]) \in Nat /\ Len(c[i]) \in Nat
    BY <1>1, <2>1
  <2>5. \A j \in 1..Len(c[k]) : j \in 1..Len(c[i - 1])
    BY <2>2, <2>4 DEF Begins
  <2>6. Begins(c[k], c[i])
    BY <2>2, <2>3, <2>4, <2>5 DEF Begins
  <2> QED BY <2>6 DEF i
<1> HIDE DEF T
<1>4. n - k \in Nat /\ k + (n - k) = n /\ n <= n
  BY <1>1
<1>5. n - k \in T
  BY <1>2, <1>3, <1>4, Induction
<1>6. k + (n - k) <= n => Begins(c[k], c[k + (n - k)])
  BY <1>5 DEF T
<1> QED BY <1>4, <1>6

(* What FlattenSeq makes of the sequences, one after the other. *)
LEMMA FlattenedParts ==
  ASSUME NEW seqs, seqs \in Seq(UpTo(2))
  PROVE  \E c : /\ c[0] = <<>> /\ c[Len(seqs)] = FlattenSeq(seqs)
                /\ \A i \in 0..Len(seqs) : c[i] \in UpTo(2 * i)
                /\ \A i \in 1..Len(seqs) : c[i] = c[i - 1] \o seqs[i]
<1> DEFINE n == Len(seqs)
           D(f) == f = [i \in 1..n |-> IF i = 1 THEN seqs[i] ELSE f[i - 1] \o seqs[i]]
           A == Seq(Octet)
           G == [i \in 1..n |-> [s \in A |-> s \o seqs[i]]]
<1>1. n \in Nat /\ \A i \in 1..n : seqs[i] \in UpTo(2)
  OBVIOUS
<1>2. <<>> \in A /\ \A i \in 1..n : seqs[i] \in A
  BY <1>1 DEF UpTo
<1>3. G \in [1..n -> [A -> A]]
  BY <1>2
<1> HIDE DEF G, A
<1>4. PICK f : Unfolds(f, A, <<>>, n, G)
  BY <1>1, <1>2, <1>3, Recursion
<1>5. f \in [0..n -> A] /\ f[0] = <<>> /\ \A i \in 1..n : f[i] = G[i][f[i - 1]]
  BY <1>4 DEF Unfolds
<1>6. ASSUME NEW i \in 1..n PROVE f[i] = f[i - 1] \o seqs[i]
  <2>1. f[i - 1] \in A /\ f[i] = G[i][f[i - 1]]
    BY <1>1, <1>5
  <2>2. G[i] = [s \in A |-> s \o seqs[i]]
    BY DEF G
  <2> QED BY <2>1, <2>2
<1> DEFINE T == {i \in Nat : i <= n => f[i] \in UpTo(2 * i)}
<1>7. 0 \in T
  <2>1. <<>> \in UpTo(0) /\ 2 * 0 = 0
    BY DEF UpTo
  <2> QED BY <1>5, <2>1
<1>8. ASSUME NEW i \in Nat, i \in T PROVE i + 1 \in T
  <2> SUFFICES ASSUME i + 1 <= n PROVE f[i + 1] \in UpTo(2 * (i + 1))
    OBVIOUS
  <2>1. i + 1 \in 1..n /\ (i + 1) - 1 = i /\ 2 * i \in Nat /\ 2 * i + 2 = 2 * (i + 1)
    BY <1>1
  <2>2. f[i] \in UpTo(2 * i)
    BY <1>1, <1>8
  <2>3. seqs[i + 1] \in UpTo(2)
    BY <1>1, <2>1
  <2>4. f[i + 1] = f[i] \o seqs[i + 1]
    BY <1>6, <2>1
  <2> QED BY <2>1, <2>2, <2>3, <2>4, LongerByTwo
<1> HIDE DEF T
<1>9. \A i \in Nat : i \in T
  BY <1>7, <1>8, Induction
<1>10. ASSUME NEW i \in 0..n PROVE f[i] \in UpTo(2 * i)
  BY <1>9 DEF T
<1>11. f[n] = FlattenSeq(seqs)
  <2>1. CASE n = 0
    <3>1. seqs = <<>>
      BY <2>1
    <3>2. FlattenSeq(seqs) = seqs
      BY <3>1 DEF FlattenSeq
    <3> QED BY <1>5, <2>1, <3>1, <3>2
  <2>2. CASE n # 0
    <3> DEFINE g == [i \in 1..n |-> f[i]]
    <3>1. ASSUME NEW i \in 1..n
          PROVE  g[i] = IF i = 1 THEN seqs[i] ELSE g[i - 1] \o seqs[i]
      <4>1. CASE i = 1
        <5>1. f[1] = f[0] \o seqs[1]
          <6>1. 1 \in 1..n /\ 1 - 1 = 0
            BY <1>1, <2>2
          <6> QED BY <1>6, <6>1
        <5>2. seqs[1] \in Seq(Octet)
          BY <1>1, <2>2 DEF UpTo
        <5>3. <<>> \o seqs[1] = seqs[1]
          BY <5>2
        <5> QED BY <1>5, <4>1, <5>1, <5>3
      <4>2. CASE i # 1
        <5>1. i - 1 \in 1..n
          BY <4>2
        <5> QED BY <1>6, <4>2, <5>1
      <4> QED BY <4>1, <4>2
    <3>2. D(g) /\ g[n] = f[n]
      BY <1>1, <2>2, <3>1
    <3> HIDE DEF g
    <3> DEFINE c == CHOOSE h : D(h)
    <3>3. FlattenSeq(seqs) = c[n]
      BY <1>1, <2>2 DEF FlattenSeq
    <3> HIDE DEF c, D
    <3>4. D(c)
      BY <3>2, Zenon DEF c
    <3>5. ASSUME NEW i \in 1..n
          PROVE  c[i] = IF i = 1 THEN seqs[i] ELSE c[i - 1] \o seqs[i]
      BY <3>4 DEF D
    <3>6. ASSUME NEW i \in 1..n
          PROVE  g[i] = IF i = 1 THEN seqs[i] ELSE g[i - 1] \o seqs[i]
      BY <3>2 DEF D
    <3> DEFINE U == {i \in Nat : i + 1 <= n => c[i + 1] = g[i + 1]}
    <3>7. 0 \in U
      BY <1>1, <2>2, <3>5, <3>6
    <3>8. ASSUME NEW i \in Nat, i \in U PROVE i + 1 \in U
      <4> SUFFICES ASSUME (i + 1) + 1 <= n PROVE c[(i + 1) + 1] = g[(i + 1) + 1]
        OBVIOUS
      <4>1. (i + 1) + 1 \in 1..n /\ (i + 1) + 1 # 1 /\ ((i + 1) + 1) - 1 = i + 1 /\ i + 1 <= n
        BY <1>1
      <4>2. c[i + 1] = g[i + 1]
        BY <3>8, <4>1
      <4> QED BY <3>5, <3>6, <4>1, <4>2
    <3> HIDE DEF U
    <3>9. n - 1 \in Nat /\ (n - 1) + 1 = n
      BY <1>1, <2>2
    <3>10. n - 1 \in U
      BY <3>7, <3>8, <3>9, Induction
    <3> QED BY <3>2, <3>3, <3>9, <3>10 DEF U
  <2> QED BY <2>1, <2>2
<1> QED BY <1>5, <1>6, <1>10, <1>11

(* Sequences of at most two bytes, put together. *)
LEMMA Flattened ==
  ASSUME NEW seqs, seqs \in Seq(UpTo(2))
  PROVE  FlattenSeq(seqs) \in UpTo(2 * Len(seqs))
<1>1. Len(seqs) \in Nat /\ Len(seqs) \in 0..Len(seqs)
  OBVIOUS
<1> QED BY <1>1, FlattenedParts

(* The three bytes that send_packet escapes, and what it sends for a byte. *)
(* basicProtocol.h:195-203.                                                *)
Marks == {PACKET_SOP, PACKET_EOP, ESC_PACKET}
SentFor(byte) == IF byte \in Marks THEN <<ESC_PACKET, xor_byte(byte)>> ELSE <<byte>>

LEMMA SentForType ==
  ASSUME NEW byte \in Octet
  PROVE  /\ SentFor(byte) \in UpTo(2)
         /\ byte \in Marks => xor_byte(byte) # ESC_PACKET
BY DEF SentFor, Marks, UpTo, Octet, PACKET_SOP, PACKET_EOP, ESC_PACKET, xor_byte, FlipBit

LEMMA EscapedIs ==
  ASSUME NEW payload \in Seq(Octet)
  PROVE  LET seqs == [i \in DOMAIN payload |-> SentFor(payload[i])]
         IN  /\ Escaped(payload) = FlattenSeq(seqs)
             /\ seqs \in Seq(UpTo(2)) /\ Len(seqs) = Len(payload)
<1> DEFINE seqs == [i \in DOMAIN payload |-> SentFor(payload[i])]
<1>1. Len(payload) \in Nat /\ DOMAIN payload = 1..Len(payload)
      /\ \A i \in 1..Len(payload) : payload[i] \in Octet
  OBVIOUS
<1>2. seqs \in Seq(UpTo(2)) /\ Len(seqs) = Len(payload)
  BY <1>1, SentForType
<1>3. Escaped(payload) = FlattenSeq(seqs)
  BY DEF Escaped, SentFor, Marks
<1> QED BY <1>2, <1>3

(* Escaping at most doubles the payload. basicProtocol.h:191-204. *)
LEMMA EscapedType ==
  ASSUME NEW payload \in Seq(Octet)
  PROVE  Escaped(payload) \in UpTo(2 * Len(payload))
<1> DEFINE seqs == [i \in DOMAIN payload |-> SentFor(payload[i])]
<1>1. Escaped(payload) = FlattenSeq(seqs) /\ seqs \in Seq(UpTo(2)) /\ Len(seqs) = Len(payload)
  BY EscapedIs
<1> HIDE DEF seqs
<1> QED BY <1>1, Flattened

(* Where each byte of the payload ends in what is sent: the next byte there, *)
(* or the next two.                                                          *)
Ends(p, q, end) ==
  /\ end \in [0..Len(p) -> Nat] /\ end[0] = 0
  /\ \A k \in 1..Len(p) :
       /\ end[k] <= Len(q)
       /\ \/ p[k] \notin Marks /\ end[k] = end[k - 1] + 1 /\ q[end[k - 1] + 1] = p[k]
          \/ /\ p[k] \in Marks /\ end[k] = end[k - 1] + 2
             /\ q[end[k - 1] + 1] = ESC_PACKET /\ q[end[k]] # ESC_PACKET

LEMMA EscapedParts ==
  ASSUME NEW p \in Seq(Octet)
  PROVE  \E end : Ends(p, Escaped(p), end)
<1> DEFINE n == Len(p)
           seqs == [i \in DOMAIN p |-> SentFor(p[i])]
           q == Escaped(p)
<1>1. q = FlattenSeq(seqs) /\ seqs \in Seq(UpTo(2)) /\ Len(seqs) = n
  BY EscapedIs
<1>2. /\ n \in Nat /\ DOMAIN p = 1..n
      /\ \A i \in 1..n : p[i] \in Octet /\ seqs[i] = SentFor(p[i])
  OBVIOUS
<1> HIDE DEF q, seqs
<1>3. PICK c : /\ c[0] = <<>> /\ c[n] = q
               /\ \A i \in 0..n : c[i] \in UpTo(2 * i)
               /\ \A i \in 1..n : c[i] = c[i - 1] \o seqs[i]
  BY <1>1, FlattenedParts
<1>4. \A i \in 0..n : c[i] \in Seq(Octet) /\ Len(c[i]) \in Nat
  BY <1>3 DEF UpTo
<1>5. ASSUME NEW i \in 1..n
      PROVE  /\ i - 1 \in 0..n /\ seqs[i] \in Seq(Octet)
             /\ Len(c[i]) = Len(c[i - 1]) + Len(seqs[i])
             /\ \A j \in 1..Len(c[i - 1]) : c[i][j] = c[i - 1][j]
             /\ \A j \in 1..Len(seqs[i]) : c[i][Len(c[i - 1]) + j] = seqs[i][j]
  <2>1. i - 1 \in 0..n
    BY <1>2
  <2>2. seqs[i] \in Seq(Octet) /\ c[i - 1] \in Seq(Octet)
    <3>1. seqs[i] \in UpTo(2)
      BY <1>1
    <3> QED BY <1>4, <2>1, <3>1 DEF UpTo
  <2>3. c[i] = c[i - 1] \o seqs[i]
    BY <1>3
  <2> DEFINE x == c[i - 1]
             y == seqs[i]
  <2> HIDE DEF x, y
  <2>4. x \in Seq(Octet) /\ y \in Seq(Octet) /\ c[i] = x \o y
    BY <2>2, <2>3 DEF x, y
  <2>5. /\ Len(x \o y) = Len(x) + Len(y)
        /\ \A j \in 1..Len(x) : (x \o y)[j] = x[j]
        /\ \A j \in 1..Len(y) : (x \o y)[Len(x) + j] = y[j]
    BY <2>4, Joined
  <2> QED BY <2>1, <2>2, <2>4, <2>5 DEF x, y
<1>6. \A i \in 1..n : /\ Len(c[i - 1]) <= Len(c[i])
                      /\ \A j \in 1..Len(c[i - 1]) : c[i][j] = c[i - 1][j]
  <2> SUFFICES ASSUME NEW i \in 1..n PROVE Len(c[i - 1]) <= Len(c[i])
    BY <1>5
  <2> DEFINE x == Len(c[i - 1])
             y == Len(seqs[i])
  <2>1. x \in Nat /\ y \in Nat /\ Len(c[i]) = x + y
    <3>1. x \in Nat
      BY <1>4, <1>5
    <3>2. y \in Nat
      BY <1>5
    <3> QED BY <1>5, <3>1, <3>2
  <2> HIDE DEF x, y
  <2>2. x <= Len(c[i])
    BY <2>1
  <2> QED BY <2>2 DEF x
<1>7. \A i \in 0..n : Len(c[i]) <= Len(q) /\ \A j \in 1..Len(c[i]) : q[j] = c[i][j]
  <2>1. \A i \in 0..n : c[i] \in Seq(Octet)
    BY <1>4
  <2>2. n \in Nat
    BY <1>2
  <2> HIDE DEF n
  <2>3. Growing(c, n, Octet)
    BY <1>6, <2>1, <2>2 DEF Growing
  <2>4. \A i \in 0..n : Begins(c[i], c[n])
    BY <2>3, Continued
  <2> QED BY <1>3, <2>4 DEF Begins
<1> DEFINE end == [i \in 0..n |-> Len(c[i])]
<1>8. end \in [0..n -> Nat] /\ end[0] = 0
  BY <1>2, <1>3, <1>4
<1>9. ASSUME NEW k \in 1..n
      PROVE  /\ end[k] <= Len(q)
             /\ \/ p[k] \notin Marks /\ end[k] = end[k - 1] + 1 /\ q[end[k - 1] + 1] = p[k]
                \/ /\ p[k] \in Marks /\ end[k] = end[k - 1] + 2
                   /\ q[end[k - 1] + 1] = ESC_PACKET /\ q[end[k]] # ESC_PACKET
  <2> DEFINE a == end[k - 1]
             b == end[k]
             s == seqs[k]
  <2>1. k - 1 \in 0..n /\ k \in 0..n
    BY <1>2
  <2>2. a = Len(c[k - 1]) /\ b = Len(c[k])
    BY <2>1
  <2>3. a \in Nat /\ b = a + Len(s) /\ b <= Len(q)
    BY <1>4, <1>5, <1>7, <2>1, <2>2
  <2>4. \A j \in 1..Len(s) : q[a + j] = s[j]
    <3> SUFFICES ASSUME NEW j \in 1..Len(s) PROVE q[a + j] = s[j]
      OBVIOUS
    <3>1. Len(s) \in Nat
      BY <1>5
    <3>2. a + j \in 1..Len(c[k])
      <4> HIDE DEF a, b, s
      <4> QED BY <2>2, <2>3, <3>1
    <3>3. q[a + j] = c[k][a + j]
      BY <1>7, <2>1, <3>2
    <3>4. c[k][Len(c[k - 1]) + j] = s[j]
      BY <1>5
    <3> QED BY <2>2, <3>3, <3>4
  <2> HIDE DEF a, b, end
  <2>5. s = SentFor(p[k]) /\ p[k] \in Octet
    BY <1>2
  <2> HIDE DEF s
  <2>6. CASE p[k] \notin Marks
    <3>1. s = <<p[k]>>
      BY <2>5, <2>6 DEF SentFor
    <3>2. Len(s) = 1 /\ s[1] = p[k]
      BY <3>1
    <3>3. b = a + 1 /\ q[a + 1] = p[k]
      BY <2>3, <2>4, <3>2
    <3> QED BY <2>3, <2>6, <3>3 DEF a, b
  <2>7. CASE p[k] \in Marks
    <3>1. s = <<ESC_PACKET, xor_byte(p[k])>>
      BY <2>5, <2>7 DEF SentFor
    <3>2. Len(s) = 2 /\ s[1] = ESC_PACKET /\ s[2] = xor_byte(p[k])
      BY <3>1
    <3>3. b = a + 2 /\ q[a + 1] = ESC_PACKET /\ q[a + 2] = xor_byte(p[k])
      BY <2>3, <2>4, <3>2
    <3>4. xor_byte(p[k]) # ESC_PACKET
      BY <2>5, <2>7, SentForType
    <3> QED BY <2>3, <2>7, <3>3, <3>4 DEF a, b
  <2> QED BY <2>6, <2>7
<1> HIDE DEF end
<1>10. Ends(p, q, end)
  BY <1>8, <1>9 DEF Ends
<1> QED BY <1>10 DEF q

(* Padding fills the payload of the frame. basicProtocol.h:206-208. *)
LEMMA PaddedType ==
  ASSUME NEW bytes \in UpTo(PayloadMax)
  PROVE  Padded(bytes) \in Seq(Octet) /\ Len(Padded(bytes)) = PayloadMax
<1> DEFINE n == PayloadMax - Len(bytes)
           zeros == [i \in 1..n |-> 0]
<1>1. n \in Nat /\ bytes \in Seq(Octet) /\ Len(bytes) + n = PayloadMax
  BY PayloadAssumption DEF UpTo
<1>2. 0 \in Octet
  BY DEF Octet
<1> HIDE DEF n
<1>3. zeros \in Seq(Octet) /\ Len(zeros) = n
  BY <1>1, <1>2
<1> HIDE DEF zeros
<1> QED BY <1>1, <1>3 DEF Padded, zeros, n

(* The frame without its end byte has the remainder of a valid message. *)
CarriesCrc(frame) == Crc(SubSeq(frame, 1, MAX_PACKET_LEN - 1)) = crc_ok

(* What send_packet writes is a frame of full length that carries its *)
(* CRC. basicProtocol.h:186-216.                                      *)
LEMMA PacketType ==
  ASSUME NEW to \in Octet, NEW from \in Octet, NEW payload \in Seq(Octet),
         Len(Escaped(payload)) <= PayloadMax
  PROVE  LET frame == Packet(to, from, payload)
         IN  /\ frame \in Seq(Octet) /\ Len(frame) = MAX_PACKET_LEN
             /\ CarriesCrc(frame)
<1> DEFINE rest == Padded(Escaped(payload))
           body == <<PACKET_SOP, from, to, 0>> \o rest
           crc == Crc(body)
           two == <<crc \div 256, crc % 256>>
           frame == Packet(to, from, payload)
<1>1. Escaped(payload) \in UpTo(PayloadMax)
  BY EscapedType DEF UpTo
<1>2. rest \in Seq(Octet) /\ Len(rest) = PayloadMax
  BY <1>1, PaddedType
<1> HIDE DEF rest
<1>3. PACKET_SOP \in Octet /\ 0 \in Octet /\ PACKET_EOP \in Octet
  BY DEF Octet, PACKET_SOP, PACKET_EOP
<1>4. body \in Seq(Octet) /\ Len(body) = 4 + PayloadMax
  BY <1>2, <1>3, PayloadAssumption
<1> HIDE DEF body
<1>5. /\ crc \div 256 \in Octet /\ crc % 256 \in Octet /\ Crc(body \o two) = crc_ok
  BY <1>4, CrcFollows
<1>6. frame = body \o <<crc \div 256, crc % 256, PACKET_EOP>>
  BY DEF Packet, body, rest
<1> HIDE DEF frame
<1> DEFINE hi == crc \div 256
           lo == crc % 256
<1> HIDE DEF hi, lo, crc
<1>7. hi \in Octet /\ lo \in Octet /\ two = <<hi, lo>> /\ frame = body \o <<hi, lo, PACKET_EOP>>
  BY <1>5, <1>6 DEF hi, lo
<1>8. frame \in Seq(Octet) /\ Len(frame) = MAX_PACKET_LEN
  BY <1>3, <1>4, <1>7, PayloadAssumption DEF MAX_PACKET_LEN
<1>9. SubSeq(frame, 1, MAX_PACKET_LEN - 1) = body \o <<hi, lo>>
  <2>1. MAX_PACKET_LEN - 1 = Len(body) + 2
    BY <1>4, PayloadAssumption DEF MAX_PACKET_LEN
  <2> HIDE DEF two
  <2> QED BY <1>3, <1>4, <1>7, <2>1, SMTT(30)
<1>10. Crc(body \o <<hi, lo>>) = crc_ok
  BY <1>5 DEF hi, lo
<1>11. CarriesCrc(frame)
  BY <1>9, <1>10, Zenon DEF CarriesCrc
<1> QED BY <1>8, <1>11 DEF frame

(* Which bytes an escape byte takes with it. basicProtocol.h:277-285. *)
LEMMA TakenIs ==
  ASSUME NEW raw \in Seq(Octet), NEW i \in 1..Len(raw)
  PROVE  Taken(raw)[i] <=> i > 1 /\ raw[i - 1] = ESC_PACKET /\ ~Taken(raw)[i - 1]
<1> DEFINE n == Len(raw)
           Now(j, before) == j > 1 /\ raw[j - 1] = ESC_PACKET /\ ~before
           D(f) == f = [j \in 0..n |-> Now(j, f[j - 1])]
           G == [j \in 1..n |-> [b \in BOOLEAN |-> Now(j, b)]]
           c == Taken(raw)
<1>1. n \in Nat /\ i \in 0..n
  OBVIOUS
<1>2. \A j, b : Now(j, b) \in BOOLEAN
  OBVIOUS
<1>3. \A b : Now(0, b) = FALSE
  OBVIOUS
<1>4. c = CHOOSE f : D(f)
  BY DEF Taken
<1> HIDE DEF c, Now
<1>5. G \in [1..n -> [BOOLEAN -> BOOLEAN]]
  BY <1>2
<1> HIDE DEF G
<1>6. PICK f : Unfolds(f, BOOLEAN, FALSE, n, G)
  BY <1>1, <1>5, Recursion
<1>7. f \in [0..n -> BOOLEAN] /\ f[0] = FALSE /\ \A j \in 1..n : f[j] = G[j][f[j - 1]]
  BY <1>6 DEF Unfolds
<1>8. ASSUME NEW j \in 0..n PROVE f[j] = Now(j, f[j - 1])
  <2>1. CASE j = 0
    BY <1>3, <1>7, <2>1
  <2>2. CASE j # 0
    <3>1. j \in 1..n /\ j - 1 \in 0..n
      BY <2>2
    <3>2. f[j - 1] \in BOOLEAN /\ f[j] = G[j][f[j - 1]]
      BY <1>7, <3>1
    <3>3. G[j] = [b \in BOOLEAN |-> Now(j, b)]
      BY <3>1 DEF G
    <3> QED BY <3>2, <3>3, Zenon
  <2> QED BY <2>1, <2>2
<1>9. D(f)
  BY <1>7, <1>8
<1> HIDE DEF D
<1>10. D(c)
  BY <1>4, <1>9, Zenon
<1>11. c[i] = Now(i, c[i - 1])
  BY <1>1, <1>10 DEF D
<1> QED BY <1>11, Zenon DEF c, Now

(* Which of the first bytes are not taken, one byte after the other. *)
LEMMA KeptIs ==
  ASSUME NEW raw \in Seq(Octet)
  PROVE  /\ Kept(raw)[0] = <<>> /\ \A i \in 0..Len(raw) : Kept(raw)[i] \in Seq(1..Len(raw))
         /\ \A i \in 1..Len(raw) :
              Kept(raw)[i] = IF Taken(raw)[i] THEN Kept(raw)[i - 1] ELSE Append(Kept(raw)[i - 1], i)
<1> DEFINE n == Len(raw)
           A == Seq(1..n)
           Byte(i, s) == IF Taken(raw)[i] THEN s ELSE Append(s, i)
           G == [i \in 1..n |-> [s \in A |-> Byte(i, s)]]
           D(f) == f = [i \in 0..n |-> IF i = 0 THEN <<>> ELSE Byte(i, f[i - 1])]
           c == Kept(raw)
<1>1. n \in Nat /\ <<>> \in A
  OBVIOUS
<1>2. ASSUME NEW i \in 1..n, NEW s \in A PROVE Byte(i, s) \in A
  <2>1. Append(s, i) \in A
    OBVIOUS
  <2> HIDE DEF A
  <2> QED BY <2>1
<1>3. c = CHOOSE h : D(h)
  BY DEF Kept
<1> HIDE DEF A, Byte, c
<1>4. G \in [1..n -> [A -> A]]
  BY <1>2
<1> HIDE DEF G
<1>5. PICK f : Unfolds(f, A, <<>>, n, G)
  BY <1>1, <1>4, Recursion
<1>6. f \in [0..n -> A] /\ f[0] = <<>> /\ \A i \in 1..n : f[i] = G[i][f[i - 1]]
  BY <1>5 DEF Unfolds
<1>7. ASSUME NEW i \in 1..n
      PROVE  f[i] = Byte(i, f[i - 1])
  <2>1. f[i - 1] \in A /\ f[i] = G[i][f[i - 1]]
    BY <1>1, <1>6
  <2>2. G[i] = [s \in A |-> Byte(i, s)]
    BY DEF G
  <2> QED BY <2>1, <2>2
<1>8. D(f)
  BY <1>1, <1>6, <1>7
<1> HIDE DEF D
<1>9. D(c)
  BY <1>3, <1>8, Zenon
<1>10. c[0] = <<>> /\ \A i \in 1..n : c[i] = Byte(i, c[i - 1])
  BY <1>1, <1>9 DEF D
<1> DEFINE S == {k \in Nat : k <= n => c[k] \in A}
<1>11. 0 \in S
  BY <1>1, <1>10
<1>12. ASSUME NEW k \in Nat, k \in S PROVE k + 1 \in S
  <2> SUFFICES ASSUME k + 1 <= n PROVE c[k + 1] \in A
    OBVIOUS
  <2>1. k + 1 \in 1..n /\ (k + 1) - 1 = k /\ c[k] \in A
    BY <1>1, <1>12
  <2> QED BY <1>2, <1>10, <2>1
<1> HIDE DEF S
<1>13. \A k \in Nat : k \in S
  BY <1>11, <1>12, Induction
<1>14. \A k \in 0..n : c[k] \in A
  BY <1>13 DEF S
<1> QED BY <1>10, <1>14 DEF A, Byte, c

(* What unescaping puts in each place. basicProtocol.h:277-294. *)
LEMMA UnescapedIs ==
  ASSUME NEW raw \in Seq(Octet)
  PROVE  LET kept == Kept(raw)[Len(raw)]
         IN  /\ kept \in Seq(1..Len(raw))
             /\ Unescaped(raw) =
                  [index \in 1..Len(raw) |->
                     IF index <= Len(kept)
                     THEN IF raw[kept[index]] # ESC_PACKET THEN raw[kept[index]]
                          ELSE IF kept[index] < Len(raw) THEN xor_byte(raw[kept[index]])
                               ELSE raw[index]
                     ELSE raw[index]]
<1> DEFINE kept == Kept(raw)[Len(raw)]
<1>1. Len(raw) \in Nat /\ DOMAIN raw = 1..Len(raw)
  OBVIOUS
<1>2. kept \in Seq(1..Len(raw))
  <2>1. Len(raw) \in 0..Len(raw)
    BY <1>1
  <2> QED BY <2>1, KeptIs
<1> HIDE DEF kept
<1> DEFINE Byte(i, index) ==
             IF raw[i] # ESC_PACKET THEN raw[i]
             ELSE IF i < Len(raw) THEN xor_byte(raw[i]) ELSE raw[index]
           Put(k) == [index \in DOMAIN raw |->
                        IF index <= Len(k) THEN Byte(k[index], index) ELSE raw[index]]
           Output == [k \in Seq(DOMAIN raw) |-> Put(k)]
<1>3. Unescaped(raw) = Output[kept]
  BY DEF Unescaped, kept
<1> HIDE DEF Byte
<1>4. Unescaped(raw) = Put(kept)
  BY <1>1, <1>2, <1>3
<1>5. Put(kept) = [index \in 1..Len(raw) |->
                     IF index <= Len(kept) THEN Byte(kept[index], index) ELSE raw[index]]
  BY <1>1
<1> QED BY <1>2, <1>4, <1>5 DEF Byte, kept

(* It keeps bytes bytes and the length. *)
LEMMA UnescapedType ==
  ASSUME NEW raw \in Seq(Octet)
  PROVE  Unescaped(raw) \in Seq(Octet) /\ Len(Unescaped(raw)) = Len(raw)
<1> DEFINE kept == Kept(raw)[Len(raw)]
           Byte(index) ==
             IF index <= Len(kept)
             THEN IF raw[kept[index]] # ESC_PACKET THEN raw[kept[index]]
                  ELSE IF kept[index] < Len(raw) THEN xor_byte(raw[kept[index]])
                       ELSE raw[index]
             ELSE raw[index]
<1>1. kept \in Seq(1..Len(raw)) /\ Unescaped(raw) = [index \in 1..Len(raw) |-> Byte(index)]
  BY UnescapedIs
<1> HIDE DEF kept
<1>2. /\ Len(raw) \in Nat /\ \A i \in 1..Len(raw) : raw[i] \in Octet
      /\ Len(kept) \in Nat /\ \A i \in 1..Len(kept) : kept[i] \in 1..Len(raw)
  BY <1>1
<1>3. xor_byte(ESC_PACKET) \in Octet
  BY DEF xor_byte, ESC_PACKET, FlipBit, Octet
<1>4. ASSUME NEW index \in 1..Len(raw) PROVE Byte(index) \in Octet
  <2>1. index <= Len(kept) => index \in 1..Len(kept)
    BY <1>2
  <2> QED BY <1>2, <1>3, <2>1
<1> HIDE DEF Byte
<1> QED BY <1>1, <1>2, <1>4

(* Before the place where a byte of the payload ends, unescaping has kept as *)
(* many bytes as the payload has up to there, the first of each.             *)
LEMMA KeptAtEnds ==
  ASSUME NEW p \in Seq(Octet), NEW q \in Seq(Octet), NEW raw \in Seq(Octet), NEW end,
         Ends(p, q, end), Len(q) <= Len(raw), \A i \in 1..Len(q) : raw[i] = q[i]
  PROVE  \A k \in 0..Len(p) :
           /\ Len(Kept(raw)[end[k]]) = k
           /\ \A j \in 1..k : Kept(raw)[end[k]][j] = end[j - 1] + 1
<1> DEFINE n == Len(p)
           m == Len(raw)
           c == Kept(raw)
           Right(k) == /\ Len(c[end[k]]) = k
                       /\ \A j \in 1..k : c[end[k]][j] = end[j - 1] + 1
           Free(k) == end[k] + 1 <= m => ~Taken(raw)[end[k] + 1]
           T == {k \in Nat : k <= n => Right(k) /\ Free(k)}
<1>1. n \in Nat /\ m \in Nat /\ Len(q) \in Nat
  OBVIOUS
<1>2. /\ c[0] = <<>> /\ \A i \in 0..m : c[i] \in Seq(1..m)
      /\ \A i \in 1..m : c[i] = IF Taken(raw)[i] THEN c[i - 1] ELSE Append(c[i - 1], i)
  BY KeptIs
<1>3. end[0] = 0 /\ \A k \in 0..n : end[k] \in Nat
  BY DEF Ends
<1> HIDE DEF c, m, n
<1>4. 0 \in T
  <2>1. Right(0)
    BY <1>2, <1>3
  <2>2. Free(0)
    <3> SUFFICES ASSUME 1 <= m PROVE ~Taken(raw)[1]
      BY <1>3
    <3>1. 1 \in 1..Len(raw)
      BY <1>1 DEF m
    <3> QED BY <3>1, TakenIs
  <2> QED BY <2>1, <2>2
<1>5. ASSUME NEW k \in Nat, k \in T PROVE k + 1 \in T
  <2> SUFFICES ASSUME k + 1 <= n PROVE Right(k + 1) /\ Free(k + 1)
    OBVIOUS
  <2> DEFINE l == k + 1
             a == end[k]
             b == end[l]
  <2>1. l \in 1..n /\ l - 1 = k /\ k \in 0..n /\ l \in 0..n /\ k <= n
    BY <1>1
  <2>2. Right(k) /\ Free(k)
    BY <1>5, <2>1
  <2> HIDE DEF l
  <2>3. a \in Nat /\ b \in Nat
    BY <1>3, <2>1
  <2>4. /\ b <= Len(q)
        /\ \/ p[l] \notin Marks /\ b = a + 1 /\ q[a + 1] = p[l]
           \/ p[l] \in Marks /\ b = a + 2 /\ q[a + 1] = ESC_PACKET /\ q[b] # ESC_PACKET
    BY <2>1 DEF Ends, n
  <2>5. Len(c[a]) = k /\ (\A j \in 1..k : c[a][j] = end[j - 1] + 1)
        /\ (a + 1 <= m => ~Taken(raw)[a + 1])
    BY <2>2
  <2> HIDE DEF a, b
  <2>6. b <= m /\ a + 1 \in 1..m /\ a \in 0..m /\ b \in 1..m /\ (a + 1) - 1 = a
    BY <1>1, <2>3, <2>4 DEF m
  <2>7. raw[a + 1] = q[a + 1] /\ raw[b] = q[b]
    BY <1>1, <2>3, <2>4
  <2>8. ~Taken(raw)[a + 1]
    BY <2>5, <2>6
  <2>9. c[a + 1] = Append(c[a], a + 1)
    BY <1>2, <2>6, <2>8
  <2>10. raw[b] # ESC_PACKET /\ c[b] = c[a + 1]
    <3>1. CASE p[l] \notin Marks
      BY <2>4, <2>7, <3>1 DEF Marks
    <3>2. CASE p[l] \in Marks
      <4>1. b = a + 2 /\ raw[a + 1] = ESC_PACKET /\ raw[b] # ESC_PACKET
        BY <2>4, <2>7, <3>2
      <4>2. b > 1 /\ b - 1 = a + 1
        BY <2>3, <4>1
      <4>3. b \in 1..Len(raw)
        BY <2>6 DEF m
      <4>4. Taken(raw)[b]
        BY <2>8, <4>1, <4>2, <4>3, TakenIs
      <4> QED BY <1>2, <2>6, <4>1, <4>2, <4>4
    <3> QED BY <3>1, <3>2
  <2>11. Right(l)
    <3> DEFINE s == c[a]
    <3>1. s \in Seq(1..m) /\ a + 1 \in 1..m /\ Len(s) = k
      BY <1>2, <2>5, <2>6
    <3>2. c[b] = Append(s, a + 1)
      BY <2>9, <2>10
    <3> HIDE DEF s
    <3>3. /\ Len(Append(s, a + 1)) = k + 1 /\ Append(s, a + 1)[k + 1] = a + 1
          /\ \A j \in 1..k : Append(s, a + 1)[j] = s[j]
      BY <3>1
    <3>4. \A j \in 1..l : j \in 1..k \/ j = k + 1
      BY DEF l
    <3>5. \A j \in 1..l : c[b][j] = end[j - 1] + 1
      <4> SUFFICES ASSUME NEW j \in 1..l PROVE c[b][j] = end[j - 1] + 1
        OBVIOUS
      <4>1. CASE j \in 1..k
        BY <2>5, <3>2, <3>3, <4>1 DEF s
      <4>2. CASE j = k + 1
        <5>1. j - 1 = k
          BY <4>2
        <5> QED BY <3>2, <3>3, <4>2, <5>1 DEF a
      <4> QED BY <3>4, <4>1, <4>2
    <3> QED BY <3>2, <3>3, <3>5 DEF b, l
  <2>12. Free(l)
    <3> SUFFICES ASSUME b + 1 <= m PROVE ~Taken(raw)[b + 1]
      BY DEF b
    <3>1. b + 1 \in 1..Len(raw) /\ (b + 1) - 1 = b
      BY <1>1, <2>3 DEF m
    <3> QED BY <2>10, <3>1, TakenIs
  <2> QED BY <2>11, <2>12 DEF l
<1> HIDE DEF T
<1>6. \A k \in Nat : k \in T
  BY <1>4, <1>5, Induction
<1>7. ASSUME NEW k \in 0..n PROVE Right(k)
  BY <1>6 DEF T
<1> QED BY <1>7 DEF c, n

(* What was sent escaped is received with each escaped byte turned into one *)
(* and the same byte. basicProtocol.h:191-204,277-294.                      *)
LEMMA BlurredOnTheWay ==
  ASSUME NEW p \in Seq(Octet), NEW raw \in Seq(Octet),
         Len(Escaped(p)) <= Len(raw), \A i \in 1..Len(Escaped(p)) : raw[i] = Escaped(p)[i]
  PROVE  Len(p) <= Len(raw) /\ \A i \in 1..Len(p) : Unescaped(raw)[i] = Blurred(p[i])
<1> DEFINE n == Len(p)
           m == Len(raw)
           c == Kept(raw)
           q == Escaped(p)
<1>1. n \in Nat /\ m \in Nat
  OBVIOUS
<1>2. q \in Seq(Octet) /\ Len(q) \in Nat
  BY EscapedType DEF UpTo
<1>3. PICK end : Ends(p, q, end)
  BY EscapedParts
<1> HIDE DEF q
<1>4. Len(q) <= m /\ \A i \in 1..Len(q) : raw[i] = q[i]
  BY DEF q
<1>5. \A k \in 0..n : /\ Len(c[end[k]]) = k
                      /\ \A j \in 1..k : c[end[k]][j] = end[j - 1] + 1
  BY <1>2, <1>3, <1>4, KeptAtEnds
<1>6. /\ \A i \in 0..m : c[i] \in Seq(1..m)
      /\ \A i \in 1..m : c[i] = IF Taken(raw)[i] THEN c[i - 1] ELSE Append(c[i - 1], i)
  BY KeptIs
<1>7. /\ c[m] \in Seq(1..m)
      /\ Unescaped(raw) = [index \in 1..m |->
           IF index <= Len(c[m])
           THEN IF raw[c[m][index]] # ESC_PACKET THEN raw[c[m][index]]
                ELSE IF c[m][index] < m THEN xor_byte(raw[c[m][index]]) ELSE raw[index]
           ELSE raw[index]]
  BY UnescapedIs
<1> HIDE DEF c, m, n
<1>8. end[n] \in 0..m
  <2>1. end[0] = 0 /\ end[n] \in Nat
    BY <1>1, <1>3 DEF Ends, n
  <2>2. CASE n = 0
    BY <1>1, <2>1, <2>2
  <2>3. CASE n # 0
    <3>1. n \in 1..n
      BY <1>1, <2>3
    <3>2. end[n] <= Len(q)
      BY <1>3, <3>1 DEF Ends, n
    <3> QED BY <1>1, <1>2, <1>4, <2>1, <3>2
  <2> QED BY <2>2, <2>3
<1>9. Growing(c, m, 1..m)
  <2> SUFFICES ASSUME NEW i \in 1..m
               PROVE  /\ Len(c[i - 1]) <= Len(c[i])
                      /\ \A j \in 1..Len(c[i - 1]) : c[i][j] = c[i - 1][j]
    BY <1>1, <1>6 DEF Growing
  <2> DEFINE s == c[i - 1]
  <2>1. i - 1 \in 0..m
    BY <1>1
  <2>2. s \in Seq(1..m) /\ (c[i] = s \/ c[i] = Append(s, i))
    BY <1>6, <2>1
  <2> HIDE DEF s
  <2>3. Len(s) <= Len(c[i]) /\ \A j \in 1..Len(s) : c[i][j] = s[j]
    BY <2>2
  <2> QED BY <2>3 DEF s
<1>10. Begins(c[end[n]], c[m])
  BY <1>8, <1>9, Continued
<1>11. n <= Len(c[m]) /\ \A j \in 1..n : c[m][j] = end[j - 1] + 1
  <2>1. n \in 0..n
    BY <1>1
  <2>2. Len(c[end[n]]) = n /\ \A j \in 1..n : c[end[n]][j] = end[j - 1] + 1
    BY <1>5, <2>1
  <2> QED BY <1>10, <2>2 DEF Begins
<1>12. n <= m
  <2> DEFINE T == {k \in Nat : k <= n => k <= end[k]}
  <2>1. 0 \in T
    BY <1>3 DEF Ends
  <2>2. ASSUME NEW k \in Nat, k \in T PROVE k + 1 \in T
    <3> SUFFICES ASSUME k + 1 <= n PROVE k + 1 <= end[k + 1]
      OBVIOUS
    <3> DEFINE l == k + 1
               a == end[l - 1]
               b == end[l]
    <3>1. l \in 1..n /\ l - 1 = k /\ k <= n /\ l - 1 \in 0..n
      BY <1>1
    <3>2. k <= a
      BY <2>2, <3>1
    <3> HIDE DEF l
    <3>3. a \in Nat /\ (b = a + 1 \/ b = a + 2)
      BY <1>3, <3>1 DEF Ends, n
    <3> HIDE DEF a, b
    <3>4. k + 1 <= b
      BY <3>2, <3>3
    <3> QED BY <3>4 DEF b, l
  <2> HIDE DEF T
  <2>3. n \in T
    BY <1>1, <2>1, <2>2, Induction
  <2>4. n <= end[n]
    BY <1>1, <2>3 DEF T
  <2> QED BY <1>1, <1>8, <2>4
<1>13. ASSUME NEW i \in 1..n PROVE Unescaped(raw)[i] = Blurred(p[i])
  <2> DEFINE a == end[i - 1]
             b == end[i]
  <2>1. i \in 1..m /\ i <= Len(c[m])
    BY <1>1, <1>11, <1>12, <1>7
  <2>2. i - 1 \in 0..n
    BY <1>1
  <2>3. a \in Nat
    BY <1>3, <2>2 DEF Ends, n
  <2>4. /\ b <= Len(q)
        /\ \/ p[i] \notin Marks /\ b = a + 1 /\ q[a + 1] = p[i]
           \/ p[i] \in Marks /\ b = a + 2 /\ q[a + 1] = ESC_PACKET
    BY <1>3 DEF Ends, n
  <2>5. c[m][i] = a + 1
    BY <1>11
  <2> HIDE DEF a, b
  <2>6. raw[a + 1] = q[a + 1]
    <3>1. a + 1 \in 1..Len(q)
      BY <1>2, <2>3, <2>4
    <3> QED BY <1>4, <3>1
  <2>7. Unescaped(raw)[i] =
          IF raw[a + 1] # ESC_PACKET THEN raw[a + 1]
          ELSE IF a + 1 < m THEN xor_byte(raw[a + 1]) ELSE raw[i]
    BY <1>7, <2>1, <2>5
  <2>8. CASE p[i] \notin Marks
    <3>1. raw[a + 1] = p[i] /\ p[i] # ESC_PACKET
      BY <2>4, <2>6, <2>8 DEF Marks
    <3>2. Blurred(p[i]) = p[i]
      BY <2>8 DEF Blurred, Marks
    <3> QED BY <2>7, <3>1, <3>2
  <2>9. CASE p[i] \in Marks
    <3>1. raw[a + 1] = ESC_PACKET /\ b = a + 2
      BY <2>4, <2>6, <2>9
    <3>2. a + 1 < m
      BY <1>1, <1>2, <1>4, <2>3, <2>4, <3>1
    <3>3. Blurred(p[i]) = xor_byte(ESC_PACKET)
      BY <2>9 DEF Blurred, Marks
    <3> QED BY <2>7, <3>1, <3>2, <3>3
  <2> QED BY <2>8, <2>9
<1> QED BY <1>12, <1>13 DEF m, n
-----------------------------------------------------------------------------
(* Turning the index n times, n at most SIZE: it stays inside the array,    *)
(* one turn more is modulo_inc, and turns add up.                           *)
LEMMA AheadType ==
  ASSUME NEW tail \in 0..RingSize - 1, NEW n \in 0..RingSize
  PROVE  Ahead(tail, n) \in 0..RingSize - 1
BY RingAssumption, SMT DEF Ahead

LEMMA AheadNext ==
  ASSUME NEW tail \in 0..RingSize - 1, NEW n \in 0..RingSize - 1
  PROVE  ModuloInc(Ahead(tail, n)) = Ahead(tail, n + 1)
BY RingAssumption, SMT DEF Ahead, ModuloInc

LEMMA AheadSum ==
  ASSUME NEW tail \in 0..RingSize - 1, NEW n \in 0..RingSize,
         NEW m \in 0..RingSize, n + m <= RingSize
  PROVE  Ahead(Ahead(tail, n), m) = Ahead(tail, n + m)
BY RingAssumption, SMT DEF Ahead

LEMMA AheadDiffers ==
  ASSUME NEW tail \in 0..RingSize - 1, NEW n \in 0..RingSize - 1,
         NEW m \in 0..RingSize - 1, m < n
  PROVE  Ahead(tail, m) # Ahead(tail, n)
BY RingAssumption, SMT DEF Ahead

(* push on a ring that is not full adds the item behind the others. *)
LEMMA PushAppends ==
  ASSUME NEW ring, RingOK(ring), ring.size < RingSize, NEW item
  PROVE  /\ RingOK(Push(ring, item))
         /\ Push(ring, item).size = ring.size + 1
         /\ Contents(Push(ring, item)) = Append(Contents(ring), item)
<1> DEFINE new == Push(ring, item)
<1>1. /\ ring.head \in 0..RingSize - 1 /\ ring.tail \in 0..RingSize - 1
      /\ ring.size \in 0..RingSize - 1 /\ RingSize \in Nat /\ RingSize > 0
      /\ ring.head = Ahead(ring.tail, ring.size)
      /\ ring.array = [i \in 0..RingSize - 1 |-> ring.array[i]]
  BY RingAssumption, SMT DEF RingOK
<1>2. new = [array |-> [ring.array EXCEPT ![ring.head] = item],
             head  |-> ModuloInc(ring.head),
             tail  |-> ring.tail,
             size  |-> ring.size + 1]
  BY <1>1, SMT DEF Push
<1>3. /\ new.array = [ring.array EXCEPT ![ring.head] = item]
      /\ new.head = ModuloInc(ring.head) /\ new.tail = ring.tail
      /\ new.size = ring.size + 1
  BY <1>2
<1> HIDE DEF new
<1>4. RingOK(new)
  <2>1. new.array = [i \in 0..RingSize - 1 |-> new.array[i]]
    BY <1>1, <1>3, Zenon
  <2>2. new.head \in 0..RingSize - 1 /\ new.head = Ahead(new.tail, new.size)
    <3>1. ring.size \in 0..RingSize - 1 /\ ring.size + 1 \in 0..RingSize
      BY <1>1, SMT
    <3>2. ModuloInc(ring.head) = Ahead(ring.tail, ring.size + 1)
      BY <1>1, <3>1, AheadNext
    <3>3. Ahead(ring.tail, ring.size + 1) \in 0..RingSize - 1
      BY <1>1, <3>1, AheadType
    <3> QED BY <1>3, <3>2, <3>3, Zenon
  <2>3. new = [array |-> new.array, head |-> new.head, tail |-> new.tail, size |-> new.size]
    BY <1>2, <1>3
  <2>4. new.tail \in 0..RingSize - 1 /\ new.size \in 0..RingSize
    BY <1>1, <1>3, SMT
  <2> QED BY <2>1, <2>2, <2>3, <2>4, Zenon DEF RingOK
<1>5. Contents(new) = Append(Contents(ring), item)
  <2>1. Append(Contents(ring), item) =
          [k \in 1..ring.size + 1 |-> IF k <= ring.size THEN Contents(ring)[k] ELSE item]
    BY <1>1, SMT DEF Contents
  <2>2. ASSUME NEW k \in 1..ring.size + 1
        PROVE  Peek(new, k - 1) = IF k <= ring.size THEN Contents(ring)[k] ELSE item
    <3>1. CASE k <= ring.size
      <4>1. Ahead(ring.tail, k - 1) \in 0..RingSize - 1 /\ Ahead(ring.tail, k - 1) # ring.head
        <5>1. k - 1 \in 0..RingSize - 1 /\ ring.size \in 0..RingSize - 1 /\ k - 1 < ring.size
              /\ k - 1 \in 0..RingSize
          BY <1>1, <3>1, SMT
        <5> QED BY <1>1, <5>1, AheadType, AheadDiffers
      <4>2. Contents(ring)[k] = ring.array[Ahead(ring.tail, k - 1)]
        BY <1>1, <3>1, SMT DEF Contents, Peek
      <4>3. new.array[Ahead(ring.tail, k - 1)] = ring.array[Ahead(ring.tail, k - 1)]
        BY <1>1, <1>3, <4>1, Zenon
      <4> QED BY <1>3, <3>1, <4>2, <4>3 DEF Peek
    <3>2. CASE k = ring.size + 1
      <4>1. k - 1 = ring.size /\ ~(k <= ring.size)
        BY <1>1, <3>2, SMT
      <4>2. ring.array[ring.head] = ring.array[ring.head] /\ new.array[ring.head] = item
        BY <1>1, <1>3, Zenon
      <4> QED BY <1>1, <1>3, <4>1, <4>2 DEF Peek
    <3> QED BY <1>1, <3>1, <3>2, SMT
  <2> QED BY <1>1, <1>3, <2>1, <2>2 DEF Contents
<1> QED BY <1>3, <1>4, <1>5 DEF new

(* n calls of pop take the n oldest items and leave the others in order. *)
LEMMA PopsDrop ==
  ASSUME NEW ring, RingOK(ring), NEW n \in 0..ring.size
  PROVE  /\ RingOK(Pops(ring, n))
         /\ Pops(ring, n).size = ring.size - n
         /\ Contents(Pops(ring, n)) = SubSeq(Contents(ring), n + 1, ring.size)
<1> DEFINE new == Pops(ring, n)
<1>1. /\ ring.head \in 0..RingSize - 1 /\ ring.tail \in 0..RingSize - 1
      /\ ring.size \in 0..RingSize /\ RingSize \in Nat /\ RingSize > 0
      /\ ring.head = Ahead(ring.tail, ring.size)
      /\ n \in 0..RingSize
  BY RingAssumption, SMT DEF RingOK
<1>2. new = [array |-> ring.array, head |-> ring.head,
             tail |-> Ahead(ring.tail, n), size |-> ring.size - n]
  BY DEF Pops
<1>3. /\ new.array = ring.array /\ new.head = ring.head
      /\ new.tail = Ahead(ring.tail, n) /\ new.size = ring.size - n
  BY <1>2
<1> HIDE DEF new
<1>4. RingOK(new)
  <2>1. new.tail \in 0..RingSize - 1 /\ new.head = Ahead(new.tail, new.size)
    <3>1. ring.size - n \in 0..RingSize /\ n + (ring.size - n) = ring.size
          /\ n + (ring.size - n) <= RingSize
      BY <1>1, SMT
    <3>2. Ahead(ring.tail, n) \in 0..RingSize - 1
      BY <1>1, AheadType
    <3>3. Ahead(Ahead(ring.tail, n), ring.size - n) = Ahead(ring.tail, n + (ring.size - n))
      BY <1>1, <3>1, AheadSum
    <3> QED BY <1>1, <1>3, <3>1, <3>2, <3>3, Zenon
  <2>2. new = [array |-> new.array, head |-> new.head, tail |-> new.tail, size |-> new.size]
    BY <1>2, <1>3
  <2>3. new.size \in 0..RingSize /\ new.head \in 0..RingSize - 1
    BY <1>1, <1>3, SMT
  <2>4. new.array = [i \in 0..RingSize - 1 |-> new.array[i]]
    BY <1>3, Zenon DEF RingOK
  <2> QED BY <2>1, <2>2, <2>3, <2>4, Zenon DEF RingOK
<1>5. Contents(new) = SubSeq(Contents(ring), n + 1, ring.size)
  <2>1. SubSeq(Contents(ring), n + 1, ring.size) =
          [k \in 1..ring.size - n |-> Contents(ring)[k + n]]
    BY <1>1, SMT DEF Contents
  <2>2. ASSUME NEW k \in 1..ring.size - n
        PROVE  Peek(new, k - 1) = Contents(ring)[k + n]
    <3>1. Ahead(new.tail, k - 1) = Ahead(ring.tail, k + n - 1) /\ k + n \in 1..ring.size
      <4>1. /\ k - 1 \in 0..RingSize /\ n + (k - 1) = k + n - 1
            /\ n + (k - 1) <= RingSize /\ k + n \in 1..ring.size
        BY <1>1, SMT
      <4> QED BY <1>1, <1>3, <4>1, AheadSum
    <3> QED BY <1>3, <3>1 DEF Peek, Contents
  <2> QED BY <1>3, <2>1, <2>2 DEF Contents
<1> QED BY <1>3, <1>4, <1>5 DEF new

(* A function on 1..n is a sequence of n items. *)
LEMMA LengthOfWindow ==
  ASSUME NEW S, NEW n \in Nat, NEW f \in [1..n -> S]
  PROVE  f \in Seq(S) /\ Len(f) = n
BY SMT

LEMMA LenAppend ==
  ASSUME NEW S, NEW s \in Seq(S), NEW x
  PROVE  Len(Append(s, x)) = Len(s) + 1
<1>1. s \in Seq(S \cup {x}) /\ x \in S \cup {x}
  BY SMT
<1> QED BY <1>1, SMT

(* Whatever the window holds, postPacket takes at least one of its bytes    *)
(* and no more than there are.                                              *)
LEMMA ConsumedType ==
  ASSUME NEW w
  PROVE  Consumed(w) \in 1..MAX_PACKET_LEN
BY PayloadAssumption, SMT DEF Consumed, MAX_PACKET_LEN

(* One byte: the ring stays a ring with less than a frame in it, and its    *)
(* contents are the window, slid.                                           *)
LEMMA ByteSlides ==
  ASSUME RingInv, NEW byte, ReceiveByte(byte)
  PROVE  /\ RingInv'
         /\ LET w == Append(Contents(rxRB), byte)
            IN  Contents(rxRB') = IF Len(w) < MAX_PACKET_LEN THEN w
                                  ELSE SubSeq(w, Consumed(w) + 1, Len(w))
<1> DEFINE w == Append(Contents(rxRB), byte)
<1>1. /\ MAX_PACKET_LEN \in Nat /\ RingSize = 2 * MAX_PACKET_LEN
      /\ RingOK(rxRB) /\ rxRB.size \in Nat /\ rxRB.size < MAX_PACKET_LEN
      /\ rxRB.size < RingSize
  BY PayloadAssumption, ProtocolAssumption, SMT DEF RingInv, RingOK, MAX_PACKET_LEN
<1>2. /\ RingOK(Pushed(byte)) /\ Pushed(byte).size = rxRB.size + 1
      /\ Contents(Pushed(byte)) = w
  BY <1>1, PushAppends DEF Pushed
<1>3. Len(w) = rxRB.size + 1
  <2> DEFINE S == {Peek(rxRB, k - 1) : k \in 1..rxRB.size}
  <2>1. Contents(rxRB) \in [1..rxRB.size -> S]
    BY Zenon DEF Contents
  <2> HIDE DEF S
  <2>2. Contents(rxRB) \in Seq(S) /\ Len(Contents(rxRB)) = rxRB.size
    BY <1>1, <2>1, LengthOfWindow
  <2> QED BY <2>2, Zenon, LenAppend
<1> HIDE DEF w
<1>4. CASE Filled(byte)
  <2> DEFINE n == Consumed(w)
  <2>1. rxRB' = Pops(Pushed(byte), n)
    BY <1>2, <1>4 DEF ReceiveByte
  <2>2. n \in 0..Pushed(byte).size /\ n > 0 /\ Pushed(byte).size = MAX_PACKET_LEN
    BY <1>1, <1>4, ConsumedType, SMT DEF Filled
  <2> HIDE DEF n
  <2>3. /\ RingOK(rxRB') /\ (rxRB').size = MAX_PACKET_LEN - n
        /\ Contents(rxRB') = SubSeq(w, n + 1, MAX_PACKET_LEN)
    BY <1>2, <2>1, <2>2, PopsDrop
  <2>4. (rxRB').size < MAX_PACKET_LEN /\ Len(w) = MAX_PACKET_LEN /\ ~(Len(w) < MAX_PACKET_LEN)
    BY <1>1, <1>2, <1>3, <2>2, <2>3, SMT
  <2> QED BY <2>3, <2>4, Zenon DEF RingInv, n, w
<1>5. CASE ~Filled(byte)
  <2>1. rxRB' = Pushed(byte)
    BY <1>5 DEF ReceiveByte
  <2>2. (rxRB').size < MAX_PACKET_LEN /\ Len(w) < MAX_PACKET_LEN
    BY <1>1, <1>2, <1>3, <1>5, <2>1, SMT DEF Filled
  <2> QED BY <1>2, <2>1, <2>2, Zenon DEF RingInv, w
<1> QED BY <1>4, <1>5

LEMMA RingInit == Init => RingInv
<1> SUFFICES ASSUME Init PROVE RingInv
  OBVIOUS
<1>1. rxRB = [array |-> [i \in 0..RingSize - 1 |-> 0], head |-> 0, tail |-> 0, size |-> 0]
  BY DEF Init, ProtocolInit, EmptyRing
<1>2. RingSize \in Nat /\ RingSize > 0 /\ MAX_PACKET_LEN > 0
  BY RingAssumption, PayloadAssumption, SMT DEF MAX_PACKET_LEN
<1>3. /\ rxRB.head \in 0..RingSize - 1 /\ rxRB.tail \in 0..RingSize - 1
      /\ rxRB.size \in 0..RingSize /\ rxRB.size < MAX_PACKET_LEN
      /\ rxRB.head = Ahead(rxRB.tail, rxRB.size)
  BY <1>1, <1>2, SMT DEF Ahead
<1>4. rxRB.array = [i \in 0..RingSize - 1 |-> rxRB.array[i]]
  BY <1>1, Zenon
<1>5. rxRB = [array |-> rxRB.array, head |-> rxRB.head,
              tail |-> rxRB.tail, size |-> rxRB.size]
  BY <1>1
<1> QED BY <1>3, <1>4, <1>5, Zenon DEF RingInv, RingOK

(* Only OnRecv touches the ring, and it does so with ReceiveByte. *)
LEMMA OnlyOnRecv ==
  ASSUME Next
  PROVE  \/ rxBuffer # <<>> /\ ReceiveByte(Head(rxBuffer))
         \/ UNCHANGED rxRB /\ (rxBuffer = <<>> \/ UNCHANGED rxBuffer)
<1>1. ASSUME NEW r \in Request, ClientAsks(r) PROVE UNCHANGED <<rxRB, rxBuffer>>
  BY <1>1 DEF ClientAsks, udpVars, rxVars
<1>2. ASSUME NEW length \in Piece, ClientSends(length) PROVE UNCHANGED <<rxRB, rxBuffer>>
  BY <1>2 DEF ClientSends
<1>3. ASSUME NEW byte \in Stray, StrayByte(byte) PROVE UNCHANGED <<rxRB, rxBuffer>>
  BY <1>3 DEF StrayByte
<1>4. CASE OnRecv
  BY <1>4 DEF OnRecv, Handling
<1>5. CASE SocketHandler
  BY <1>5 DEF SocketHandler, Receive, SendCompletes, RunPosted, Idle
<1>6. CASE SocketError
  BY <1>6 DEF SocketError, ReceiveFails, SendFails, Idle
<1>7. CASE Stop
  BY <1>7 DEF Stop, rxVars
<1> QED BY <1>1, <1>2, <1>3, <1>4, <1>5, <1>6, <1>7 DEF Next

LEMMA RingStep == RingInv /\ [Next]_vars => RingInv'
<1> SUFFICES ASSUME RingInv, [Next]_vars PROVE RingInv'
  OBVIOUS
<1>1. CASE UNCHANGED rxRB
  BY <1>1 DEF RingInv
<1>2. CASE rxBuffer # <<>> /\ ReceiveByte(Head(rxBuffer))
  BY <1>2, ByteSlides
<1>3. CASE UNCHANGED vars
  BY <1>1, <1>3 DEF vars
<1> QED BY <1>1, <1>2, <1>3, OnlyOnRecv

(* The ring never holds a whole frame between two bytes, so it never        *)
(* refuses one.  basicProtocol.h:313-317, ringBuffer.h:98.                  *)
THEOREM RingInvariance == Spec => []RingInv
<1> QED BY RingInit, RingStep, PTL DEF Spec

(* Bytes are neither lost nor reordered in the ring, for every size of      *)
(* frame and wherever the ring wraps.  ringBuffer.h:93-123.                 *)
THEOREM RingIsWindow == Spec => WindowSlides
<1>1. ASSUME RingInv, [Next]_vars
      PROVE  [(rxBuffer # <<>> /\ rxBuffer' # rxBuffer) =>
                LET w == Append(Contents(rxRB), Head(rxBuffer))
                IN  Contents(rxRB') = IF Len(w) < MAX_PACKET_LEN THEN w
                                      ELSE SubSeq(w, Consumed(w) + 1, Len(w))]_vars
  <2> SUFFICES ASSUME rxBuffer # <<>>, rxBuffer' # rxBuffer
               PROVE  LET w == Append(Contents(rxRB), Head(rxBuffer))
                      IN  Contents(rxRB') = IF Len(w) < MAX_PACKET_LEN THEN w
                                            ELSE SubSeq(w, Consumed(w) + 1, Len(w))
    OBVIOUS
  <2>1. Next
    BY <1>1 DEF vars, udpVars, rxVars
  <2>2. ReceiveByte(Head(rxBuffer))
    BY <2>1, OnlyOnRecv
  <2> QED BY <1>1, <2>2, ByteSlides
<1> QED BY <1>1, RingInvariance, PTL DEF Spec, WindowSlides

-----------------------------------------------------------------------------
(* TxInv is inductive once posted is known to count and no datagram to be    *)
(* handled after a failed receive.                                          *)
TxIInv == TxInv /\ posted \in Nat /\ (rxFailed => rxBuffer = <<>>)

LEMMA TxIInvInit == Init => TxIInv
BY SMT DEF Init, UdpInit, TxIInv, TxInv

LEMMA StartWriteKeepsTx ==
  ASSUME TxInv, open, NEW queue, StartWrite(queue)
  PROVE  /\ txQueue' # <<>> => isTxRunning'
         /\ isTxRunning' <=> sending'
BY Zenon DEF StartWrite, TxInv

LEMMA OnRecvKeepsTx ==
  ASSUME TxIInv, OnRecv
  PROVE  TxIInv'
<1>1. /\ rxBuffer # <<>> /\ open /\ ~rxFailed
      /\ rxArmed' <=> rxBuffer' = <<>>
      /\ UNCHANGED <<posted, open, rxFailed>>
  BY DEF OnRecv, Handling, NextByte, TxIInv, TxInv
<1>2. UNCHANGED txVars \/ \E queue : StartWrite(queue)
  BY Zenon DEF OnRecv, Serve, PostTX
<1>3. CASE UNCHANGED txVars
  BY <1>1, <1>3 DEF TxIInv, TxInv, txVars
<1>4. CASE \E queue : StartWrite(queue)
  <2>1. /\ txQueue' # <<>> => isTxRunning'
        /\ isTxRunning' <=> sending'
    BY <1>1, <1>4, StartWriteKeepsTx DEF TxIInv
  <2> QED BY <1>1, <2>1 DEF TxIInv, TxInv
<1> QED BY <1>2, <1>3, <1>4

LEMMA SocketKeepsTx ==
  ASSUME TxIInv, SocketHandler \/ SocketError
  PROVE  TxIInv'
<1>1. CASE Receive
  BY <1>1 DEF Receive, TxIInv, TxInv, txVars
<1>2. CASE SendCompletes
  BY <1>2, SMT DEF SendCompletes, TxIInv, TxInv, rxVars
<1>3. CASE RunPosted
  <2>1. UNCHANGED <<rxVars, open, rxFailed>> /\ posted' \in Nat /\ StartWrite(txQueue)
    BY <1>3, SMT DEF RunPosted, TxIInv
  <2>2. CASE open
    BY <2>1, <2>2, StartWriteKeepsTx DEF TxIInv, TxInv, rxVars
  <2>3. CASE ~open
    BY <2>1, <2>3 DEF StartWrite, TxIInv, TxInv, rxVars
  <2> QED BY <2>2, <2>3
<1>4. CASE ReceiveFails
  BY <1>4 DEF ReceiveFails, Idle, TxIInv, TxInv, txVars
<1>5. CASE SendFails
  BY <1>5 DEF SendFails, Idle, TxIInv, TxInv
<1> QED BY <1>1, <1>2, <1>3, <1>4, <1>5 DEF SocketHandler, SocketError

LEMMA TxStep == TxIInv /\ [Next]_vars => TxIInv'
<1> SUFFICES ASSUME TxIInv, [Next]_vars PROVE TxIInv'
  OBVIOUS
<1> DEFINE kept == UNCHANGED <<txVars, rxBuffer, rxArmed, posted, open, rxFailed>>
<1>1. ASSUME kept PROVE TxIInv'
  BY <1>1 DEF TxIInv, TxInv, txVars
<1>2. ASSUME NEW r \in Request, ClientAsks(r) PROVE kept
  BY <1>2 DEF ClientAsks, udpVars, rxVars
<1>3. ASSUME NEW length \in Piece, ClientSends(length) PROVE kept
  BY <1>3 DEF ClientSends
<1>4. ASSUME NEW byte \in Stray, StrayByte(byte) PROVE kept
  BY <1>4 DEF StrayByte
<1>5. CASE Stop
  BY <1>1, <1>5 DEF Stop, rxVars
<1>6. CASE UNCHANGED vars
  BY <1>1, <1>6 DEF vars, udpVars, rxVars
<1> QED BY <1>1, <1>2, <1>3, <1>4, <1>5, <1>6, OnRecvKeepsTx, SocketKeepsTx DEF Next

(* No reply waits without something to wake it, no buffer is in use         *)
(* unmarked and no receive is forgotten, whatever the requests, the faults  *)
(* and the sizes of the buffers.  udpServer.h:96-152.                       *)
THEOREM NoLostWakeUp == Spec => []TxInv
<1>1. TxIInv => TxInv
  BY DEF TxIInv
<1> QED BY <1>1, TxIInvInit, TxStep, PTL DEF Spec

-----------------------------------------------------------------------------
(***************************************************************************)
(* The replies, in the socket, in the buffer and in the queue, are one     *)
(* sequence (Replied), of which `outbox` is what has left.                 *)
(***************************************************************************)
\* The read/write server is given a frame by this byte.
Served == OnRecv /\ Calls(Head(rxBuffer), CallbackList) = ReadWriteServer

ReplyFrame(o, port) == Packet(port, READ_WRITE_PROTOCOL_PORT, PayloadBytes(Reply(o)))
Sends(o, port) ==
  /\ Replies(o)
  /\ Sendable(port, READ_WRITE_PROTOCOL_PORT, PayloadBytes(Reply(o)))
  /\ Len(ReplyFrame(o, port)) <= buffer_size

\* An operation that is answered adds its answer; nothing else changes the
\* sequence, and what leaves is the next of it.
KeepsReplies ==
  IF Served
  THEN LET o    == Operation(Payload(Head(rxBuffer)))
           port == FromPort(Head(rxBuffer))
       IN  /\ outbox' = outbox
           /\ Replied' = IF Sends(o, port) THEN Append(Replied, ReplyFrame(o, port))
                         ELSE Replied
  ELSE /\ Replied' = Replied
       /\ outbox' = outbox \/ outbox' = Append(outbox, Replied[Len(outbox) + 1])

\* Moving an item from one part of the sequence to the next.
LEMMA BufferLeaves ==
  ASSUME NEW S, NEW o \in Seq(S), NEW q \in Seq(S), NEW b \in S
  PROVE  /\ (Append(o, b) \o <<>>) \o q = (o \o <<b>>) \o q
         /\ ((o \o <<b>>) \o q)[Len(o) + 1] = b
         /\ Len(o) < Len((o \o <<b>>) \o q)
OBVIOUS

LEMMA HeadMoves ==
  ASSUME NEW S, NEW o \in Seq(S), NEW q \in Seq(S), q # <<>>
  PROVE  (o \o <<Head(q)>>) \o Tail(q) = (o \o <<>>) \o q
OBVIOUS

LEMMA AppendMoves ==
  ASSUME NEW S, NEW o \in Seq(S), NEW q \in Seq(S), NEW f \in S
  PROVE  o \o Append(q, f) = Append(o \o q, f)
OBVIOUS

LEMMA Wider ==
  ASSUME NEW S, NEW s \in Seq(S), NEW x
  PROVE  s \in Seq(S \cup {x}) /\ Append(s, x) \in Seq(S \cup {x})
OBVIOUS

\* The parts of the sequence are sequences, of whatever frames there are.
TxSeqs == \E S : outbox \in Seq(S) /\ txQueue \in Seq(S) /\ txBuffer \in S

Waiting == IF isTxRunning THEN <<txBuffer>> ELSE <<>>

LEMMA StartWriteKeeps ==
  ASSUME NEW S, outbox \in Seq(S), txBuffer \in S, NEW queue \in Seq(S),
         StartWrite(queue), UNCHANGED outbox
  PROVE  /\ txQueue' \in Seq(S) /\ txBuffer' \in S
         /\ Replied' = (outbox \o Waiting) \o queue
<1>1. CASE ~isTxRunning /\ queue # <<>>
  <2>1. isTxRunning' /\ txBuffer' = Head(queue) /\ txQueue' = Tail(queue)
    BY <1>1 DEF StartWrite
  <2>2. Head(queue) \in S /\ Tail(queue) \in Seq(S)
    BY <1>1
  <2>3. Replied' = (outbox \o <<Head(queue)>>) \o Tail(queue)
    BY <2>1 DEF Replied
  <2> QED BY <1>1, <2>1, <2>2, <2>3, HeadMoves DEF Waiting
<1>2. CASE ~(~isTxRunning /\ queue # <<>>)
  BY <1>2 DEF StartWrite, Replied, Waiting
<1> QED BY <1>1, <1>2

\* A byte is handled: at most one reply is queued.
LEMMA OnRecvReplies ==
  ASSUME TxSeqs, OnRecv
  PROVE  /\ TxSeqs'
         /\ outbox' = outbox
         /\ Replied' =
              LET o    == Operation(Payload(Head(rxBuffer)))
                  port == FromPort(Head(rxBuffer))
              IN  IF Served /\ Sends(o, port) THEN Append(Replied, ReplyFrame(o, port))
                  ELSE Replied
<1> DEFINE o == Operation(Payload(Head(rxBuffer)))
           port == FromPort(Head(rxBuffer))
           frame == ReplyFrame(o, port)
<1>1. outbox' = outbox
  BY DEF OnRecv
<1>2. PICK S : outbox \in Seq(S) /\ txQueue \in Seq(S) /\ txBuffer \in S
  BY DEF TxSeqs
<1>3. CASE Served /\ Sends(o, port)
  <2>1. StartWrite(Append(txQueue, frame))
    BY <1>3 DEF Served, OnRecv, Serve, PostTX, Sends, ReplyFrame
  <2> DEFINE T == S \cup {frame}
  <2> HIDE DEF frame
  <2>2. /\ outbox \in Seq(T) /\ txQueue \in Seq(T) /\ txBuffer \in T /\ frame \in T
        /\ Append(txQueue, frame) \in Seq(T)
    BY <1>2, Wider
  <2> HIDE DEF T
  <2>3. /\ txQueue' \in Seq(T) /\ txBuffer' \in T
        /\ Replied' = (outbox \o Waiting) \o Append(txQueue, frame)
    BY <1>1, <2>1, <2>2, StartWriteKeeps
  <2>4. outbox \o Waiting \in Seq(T)
    BY <2>2 DEF Waiting
  <2>5. Replied' = Append((outbox \o Waiting) \o txQueue, frame)
    BY <2>2, <2>3, <2>4, AppendMoves
  <2>6. Replied = (outbox \o Waiting) \o txQueue
    BY DEF Replied, Waiting
  <2>7. TxSeqs'
    BY <1>1, <2>2, <2>3 DEF TxSeqs
  <2> QED BY <1>1, <1>3, <2>5, <2>6, <2>7 DEF frame
<1>4. CASE ~(Served /\ Sends(o, port))
  <2>1. UNCHANGED txVars
    BY <1>4 DEF Served, OnRecv, Serve, PostTX, Sends, ReplyFrame
  <2>2. UNCHANGED <<txQueue, txBuffer, isTxRunning>>
    BY <2>1 DEF txVars
  <2> QED BY <1>1, <1>4, <2>2 DEF TxSeqs, Replied
<1> QED BY <1>3, <1>4

\* The other handlers queue nothing.
LEMMA SocketReplies ==
  ASSUME TxSeqs, TxIInv, SocketHandler \/ SocketError
  PROVE  /\ TxSeqs'
         /\ Replied' = Replied
         /\ \/ outbox' = outbox
            \/ /\ outbox' = Append(outbox, Replied[Len(outbox) + 1])
               /\ Len(outbox') = Len(outbox) + 1 /\ Len(outbox) < Len(Replied)
<1>1. PICK S : outbox \in Seq(S) /\ txQueue \in Seq(S) /\ txBuffer \in S
  BY DEF TxSeqs
<1>2. CASE SendCompletes
  <2>1. isTxRunning /\ ~isTxRunning'
    BY <1>2 DEF SendCompletes, TxIInv, TxInv
  <2>2. outbox' = Append(outbox, txBuffer) /\ UNCHANGED <<txQueue, txBuffer>>
    BY <1>2 DEF SendCompletes
  <2>3. /\ Replied = (outbox \o <<txBuffer>>) \o txQueue
        /\ Replied' = (Append(outbox, txBuffer) \o <<>>) \o txQueue
    BY <2>1, <2>2 DEF Replied
  <2>4. /\ Replied' = Replied /\ Replied[Len(outbox) + 1] = txBuffer
        /\ Len(outbox) < Len(Replied)
    <3>1. outbox \in Seq(S) /\ txQueue \in Seq(S) /\ txBuffer \in S
      BY <1>1
    <3>2. /\ (Append(outbox, txBuffer) \o <<>>) \o txQueue = (outbox \o <<txBuffer>>) \o txQueue
          /\ ((outbox \o <<txBuffer>>) \o txQueue)[Len(outbox) + 1] = txBuffer
          /\ Len(outbox) < Len((outbox \o <<txBuffer>>) \o txQueue)
      BY <3>1, BufferLeaves, Zenon
    <3> QED BY <2>3, <3>2, Zenon
  <2>5. outbox' \in Seq(S) /\ Len(outbox') = Len(outbox) + 1
    BY <1>1, <2>2
  <2> QED BY <1>1, <2>2, <2>4, <2>5 DEF TxSeqs
<1>3. CASE RunPosted
  <2>1. StartWrite(txQueue) /\ outbox' = outbox
    BY <1>3 DEF RunPosted
  <2>2. /\ txQueue' \in Seq(S) /\ txBuffer' \in S
        /\ Replied' = (outbox \o Waiting) \o txQueue
    BY <1>1, <2>1, StartWriteKeeps
  <2> QED BY <1>1, <2>1, <2>2 DEF TxSeqs, Replied, Waiting
<1>4. CASE Receive \/ ReceiveFails \/ SendFails
  <2>1. UNCHANGED <<txQueue, txBuffer, isTxRunning, outbox>>
    BY <1>4 DEF Receive, ReceiveFails, SendFails, txVars
  <2> QED BY <2>1 DEF TxSeqs, Replied
<1> QED BY <1>2, <1>3, <1>4 DEF SocketHandler, SocketError

\* The client, the network and the signal do not touch the replies.
LEMMA OthersKeepReplies ==
  ASSUME [Next]_vars, ~OnRecv, ~SocketHandler, ~SocketError
  PROVE  UNCHANGED <<outbox, txQueue, txBuffer, isTxRunning, Replied>>
<1>1. CASE UNCHANGED vars
  BY <1>1 DEF vars, udpVars, txVars, Replied
<1>2. ASSUME NEW r \in Request, ClientAsks(r)
      PROVE  UNCHANGED <<outbox, txQueue, txBuffer, isTxRunning>>
  BY <1>2 DEF ClientAsks, udpVars, txVars
<1>3. ASSUME NEW length \in Piece, ClientSends(length)
      PROVE  UNCHANGED <<outbox, txQueue, txBuffer, isTxRunning>>
  BY <1>3 DEF ClientSends, txVars
<1>4. ASSUME NEW byte \in Stray, StrayByte(byte)
      PROVE  UNCHANGED <<outbox, txQueue, txBuffer, isTxRunning>>
  BY <1>4 DEF StrayByte, txVars
<1>5. CASE Stop
  BY <1>5 DEF Stop, txVars, Replied
<1>6. UNCHANGED <<outbox, txQueue, txBuffer, isTxRunning>>
  BY <1>1, <1>2, <1>3, <1>4, <1>5 DEF Next, Replied
<1> QED BY <1>6 DEF Replied

LEMMA TxSeqsStep == TxSeqs /\ TxIInv /\ [Next]_vars => TxSeqs'
BY OnRecvReplies, SocketReplies, OthersKeepReplies DEF TxSeqs

LEMMA TxSeqsInit == Init => TxSeqs
<1> SUFFICES ASSUME Init PROVE TxSeqs
  OBVIOUS
<1>1. outbox = <<>> /\ txQueue = <<>> /\ txBuffer = <<>>
  BY DEF Init, UdpInit
<1>2. outbox \in Seq({<<>>}) /\ txQueue \in Seq({<<>>}) /\ txBuffer \in {<<>>}
  BY <1>1
<1> QED BY <1>2 DEF TxSeqs

(* Whatever is queued while a frame is being sent, between its completion   *)
(* and the start_write that this posts, or after: each answer enters the    *)
(* sequence of replies once, when its request is served, and the replies    *)
(* leave one by one in that order, for every size of buffer and number of   *)
(* requests.  udpServer.h:64-152.                                           *)
THEOREM RepliesLeaveInOrder == Spec => [][KeepsReplies]_vars
<1>1. ASSUME TxSeqs, TxIInv, [Next]_vars PROVE [KeepsReplies]_vars
  <2>1. CASE OnRecv
    BY <1>1, <2>1, OnRecvReplies DEF KeepsReplies
  <2>2. CASE ~OnRecv /\ (SocketHandler \/ SocketError)
    BY <1>1, <2>2, SocketReplies DEF Served, KeepsReplies
  <2>3. CASE ~OnRecv /\ ~SocketHandler /\ ~SocketError
    BY <1>1, <2>3, OthersKeepReplies DEF Served, KeepsReplies
  <2> QED BY <2>1, <2>2, <2>3
<1> QED BY <1>1, TxSeqsInit, TxIInvInit, TxSeqsStep, TxStep, PTL DEF Spec

-----------------------------------------------------------------------------
(***************************************************************************)
(* The refinement, but for the service itself: that what the client, the   *)
(* network, the transmit side and the parsing do is what RemoteMemory      *)
(* allows.  As what a request is served depends on what is in the frames,  *)
(* on escaping and unescaping them byte by byte.                           *)
(***************************************************************************)
SentSeq == \E T : sent \in Seq(T)

\* What RemoteMemory sees of the requests, the operations and the answers.
Asked == [k \in DOMAIN sent |-> AbstractOperation(Arrived(sent[k]))]
CarriedOut == [k \in DOMAIN executed |-> AbstractOperation(executed[k])]
Answered == [k \in DOMAIN Replied |-> AbstractAnswer(Replied[k])]

LEMMA SeqIsFunction ==
  ASSUME NEW S, NEW s \in Seq(S) PROVE s \in [1..Len(s) -> S]
OBVIOUS

LEMMA AppendIs ==
  ASSUME NEW S, NEW s \in Seq(S), NEW x \in S
  PROVE  Append(s, x) = [k \in 1..Len(s) + 1 |-> IF k <= Len(s) THEN s[k] ELSE x]
<1>1. Append(s, x) \in Seq(S) /\ Len(Append(s, x)) = Len(s) + 1 /\ Len(s) \in Nat
  OBVIOUS
<1>2. Append(s, x) \in [1..Len(s) + 1 -> S]
  BY <1>1, SeqIsFunction, Zenon
<1>3. ASSUME NEW k \in 1..Len(s) + 1
      PROVE  Append(s, x)[k] = IF k <= Len(s) THEN s[k] ELSE x
  BY <1>1, <1>3
<1> QED BY <1>2, <1>3, Zenon

\* An array that is another one and an item more.
LEMMA ArrayGrows ==
  ASSUME NEW n \in Nat, NEW f, f = [k \in 1..n |-> f[k]],
         NEW g, g = [k \in 1..n + 1 |-> g[k]], \A k \in 1..n : g[k] = f[k]
  PROVE  g = Append(f, g[n + 1]) /\ Len(f) = n
<1> DEFINE x == g[n + 1]
           A == {f[k] : k \in 1..n} \cup {x}
<1>1. f \in [1..n -> A] /\ x \in A
  BY Zenon
<1> HIDE DEF A
<1>2. f \in Seq(A) /\ Len(f) = n
  BY <1>1, LengthOfWindow
<1>3. Append(f, x) = [k \in 1..Len(f) + 1 |-> IF k <= Len(f) THEN f[k] ELSE x]
  BY <1>1, <1>2, AppendIs
<1>4. Append(f, x) = [k \in 1..n + 1 |-> IF k <= n THEN f[k] ELSE x]
  BY <1>2, <1>3, Zenon
<1>5. ASSUME NEW k \in 1..n + 1 PROVE g[k] = IF k <= n THEN f[k] ELSE x
  <2>1. CASE k <= n
    <3>1. k \in 1..n
      BY <2>1
    <3> QED BY <2>1, <3>1
  <2>2. CASE ~(k <= n)
    <3>1. k = n + 1
      BY <2>2
    <3> QED BY <2>2, <3>1
  <2> QED BY <2>1, <2>2
<1> HIDE DEF x
<1>6. g = Append(f, x)
  BY <1>4, <1>5, Zenon
<1> QED BY <1>2, <1>6 DEF x

\* A sequence of anything and one item more.
LEMMA Appended ==
  ASSUME NEW T, NEW s \in Seq(T), NEW x
  PROVE  /\ Len(s) \in Nat /\ DOMAIN s = 1..Len(s) /\ DOMAIN Append(s, x) = 1..Len(s) + 1
         /\ \A k \in 1..Len(s) : k \in 1..Len(s) + 1 /\ Append(s, x)[k] = s[k]
         /\ Len(s) + 1 \in 1..Len(s) + 1 /\ Append(s, x)[Len(s) + 1] = x
<1> DEFINE S == T \cup {x}
<1>1. s \in Seq(S) /\ x \in S
  BY Wider
<1> HIDE DEF S
<1> QED BY <1>1

LEMMA AsManyAnswers ==
  ASSUME TxSeqs PROVE Len(Answered) = Len(Replied)
<1>1. PICK S : outbox \in Seq(S) /\ txQueue \in Seq(S) /\ txBuffer \in S
  BY DEF TxSeqs
<1>2. Waiting \in Seq(S)
  BY <1>1 DEF Waiting
<1>3. Replied = (outbox \o Waiting) \o txQueue
  BY DEF Replied, Waiting
<1>4. Replied \in Seq(S)
  BY <1>1, <1>2, <1>3
<1> QED BY <1>4 DEF Answered

LEMMA SentStep == SentSeq /\ [Next]_vars => SentSeq'
<1> SUFFICES ASSUME SentSeq, [Next]_vars PROVE SentSeq'
  OBVIOUS
<1>1. PICK T : sent \in Seq(T)
  BY DEF SentSeq
<1>2. sent' = sent \/ \E o : sent' = Append(sent, o)
  <2>1. ASSUME NEW r \in Request, ClientAsks(r) PROVE \E o : sent' = Append(sent, o)
    BY <2>1 DEF ClientAsks
  <2>2. ASSUME NEW length \in Piece, ClientSends(length) PROVE sent' = sent
    BY <2>2 DEF ClientSends
  <2>3. ASSUME NEW byte \in Stray, StrayByte(byte) PROVE sent' = sent
    BY <2>3 DEF StrayByte
  <2>4. OnRecv \/ SocketHandler \/ SocketError \/ Stop \/ UNCHANGED vars => sent' = sent
    BY DEF OnRecv, SocketHandler, SocketError, Stop, vars, clientVars
  <2> QED BY <2>1, <2>2, <2>3, <2>4 DEF Next
<1>3. CASE sent' = sent
  BY <1>1, <1>3 DEF SentSeq
<1>4. ASSUME NEW o, sent' = Append(sent, o) PROVE SentSeq'
  BY <1>1, <1>4, Wider DEF SentSeq
<1> QED BY <1>2, <1>3, <1>4

(* What the framing makes of a byte is a byte that it does not change. *)
LEMMA BlurredIs ==
  /\ \A v \in Octet : Blurred(v) \in Octet /\ Blurred(Blurred(v)) = Blurred(v)
  /\ \A v \in Nat : v < ESC_PACKET => Blurred(v) = v
BY DEF Blurred, Octet, PACKET_SOP, PACKET_EOP, ESC_PACKET, xor_byte, FlipBit

\* The client's request, with the next number.
LEMMA AskedNext ==
  ASSUME SentSeq, NEW r \in Request, ClientAsks(r)
  PROVE  Asked' = Append(Asked, [no |-> Len(Asked) + 1,
           request |-> AbstractRequest(Arrived([op |-> r.op, size |-> r.size, majic |-> 0,
                         address |-> r.address, values |-> r.values]))])
<1>1. PICK T : sent \in Seq(T)
  BY DEF SentSeq
<1> DEFINE n == Len(sent)
           o == [op |-> r.op, size |-> r.size, majic |-> n + 1,
                 address |-> r.address, values |-> r.values]
           z == [op |-> r.op, size |-> r.size, majic |-> 0,
                 address |-> r.address, values |-> r.values]
           s == Append(sent, o)
           f == [k \in 1..n |-> AbstractOperation(Arrived(sent[k]))]
           g == [k \in 1..n + 1 |-> AbstractOperation(Arrived(s[k]))]
<1>2. sent' = s /\ n < MaxRequests
  BY DEF ClientAsks
<1>3. AbstractOperation(Arrived(o)) = [no |-> Blurred(Blurred(n + 1)),
                                       request |-> AbstractRequest(Arrived(z))]
  <2>1. Arrived(o).majic = Blurred(n + 1)
    BY DEF Arrived
  <2>2. AbstractRequest(Arrived(o)) = AbstractRequest(Arrived(z))
    BY DEF AbstractRequest, Arrived
  <2> QED BY <2>1, <2>2 DEF AbstractOperation
<1>4. n \in Nat /\ n + 1 \in Nat /\ n + 1 < ESC_PACKET
  <2>1. n \in Nat /\ MaxRequests \in Nat /\ MaxRequests < ESC_PACKET
    BY <1>1, ClientAssumption
  <2>2. ESC_PACKET \in Nat
    BY DEF ESC_PACKET
  <2> QED BY <1>2, <2>1, <2>2
<1>5. Blurred(n + 1) = n + 1
  BY <1>4, BlurredIs
<1> HIDE DEF o, z
<1>6. /\ DOMAIN sent = 1..n /\ DOMAIN s = 1..n + 1
      /\ \A k \in 1..n : k \in 1..n + 1 /\ s[k] = sent[k]
      /\ n + 1 \in 1..n + 1 /\ s[n + 1] = o
  BY <1>1, Appended
<1> HIDE DEF n, s
<1>7. /\ f = [k \in 1..n |-> f[k]] /\ g = [k \in 1..n + 1 |-> g[k]]
      /\ \A k \in 1..n : g[k] = f[k]
      /\ g[n + 1] = AbstractOperation(Arrived(o))
  BY <1>6, Zenon
<1>8. Asked = f
  BY <1>6 DEF Asked
<1>9. Asked' = g
  BY <1>2, <1>6 DEF Asked
<1> HIDE DEF f, g
<1>10. g = Append(f, g[n + 1]) /\ Len(f) = n
  <2>1. /\ n \in Nat /\ f = [k \in 1..n |-> f[k]] /\ g = [k \in 1..n + 1 |-> g[k]]
        /\ \A k \in 1..n : g[k] = f[k]
    BY <1>4, <1>7
  <2> QED BY <2>1, ArrayGrows, Zenon
<1>11. AbstractOperation(Arrived(o)) = [no |-> n + 1, request |-> AbstractRequest(Arrived(z))]
  BY <1>3, <1>5, Zenon
<1> QED BY <1>7, <1>8, <1>9, <1>10, <1>11, Zenon DEF z

LEMMA AsksImplement ==
  ASSUME SentSeq, NEW r \in Request, ClientAsks(r)
  PROVE  Service!Next
<1> DEFINE q == AbstractRequest(Arrived([op |-> r.op, size |-> r.size, majic |-> 0,
                  address |-> r.address, values |-> r.values]))
<1>1. UNCHANGED <<executed, memory, outbox, txQueue, txBuffer, isTxRunning, faults>>
  BY DEF ClientAsks, udpVars, txVars
<1>2. Asked' = Append(Asked, [no |-> Len(Asked) + 1, request |-> q])
  BY AskedNext
<1>3. q \in {AbstractRequest(Arrived([op |-> x.op, size |-> x.size, majic |-> 0,
                address |-> x.address, values |-> x.values])) : x \in Request}
  OBVIOUS
<1>4. UNCHANGED Replied
  BY <1>1 DEF Replied
<1> HIDE DEF q
<1>5. Service!Ask(q)
  BY <1>1, <1>2, <1>4 DEF Service!Ask, Asked, Value
<1> QED BY <1>3, <1>5 DEF Service!Next

\* The network: a fault, or nothing that RemoteMemory sees.
LEMMA NetworkImplements ==
  ASSUME (\E length \in Piece : ClientSends(length)) \/ (\E byte \in Stray : StrayByte(byte))
  PROVE  [Service!Next]_(Service!vars)
<1>1. /\ UNCHANGED <<sent, executed, memory, outbox, txQueue, txBuffer, isTxRunning>>
      /\ faults' = faults \/ faults' = faults + 1
  BY DEF ClientSends, StrayByte, Arrives, IsLost, txVars
<1>2. UNCHANGED Replied
  BY <1>1 DEF Replied
<1>3. CASE faults' = faults
  BY <1>1, <1>2, <1>3 DEF Service!vars, Value
<1>4. CASE faults' = faults + 1
  BY <1>1, <1>2, <1>4 DEF Service!Next, Service!Fault, Value
<1> QED BY <1>1, <1>3, <1>4

\* The socket: an answer leaves, or nothing that RemoteMemory sees.
LEMMA SocketImplements ==
  ASSUME TxSeqs, TxIInv, SocketHandler \/ SocketError
  PROVE  [Service!Next]_(Service!vars)
<1>1. UNCHANGED <<sent, executed, memory, faults>>
  BY DEF SocketHandler, SocketError, clientVars
<1>2. Replied' = Replied
  BY SocketReplies
<1>3. CASE outbox' = outbox
  BY <1>1, <1>2, <1>3 DEF Service!vars, Value
<1>4. CASE Len(outbox') = Len(outbox) + 1 /\ Len(outbox) < Len(Replied)
  <2>1. Len(outbox) < Len(Answered)
    BY <1>4, AsManyAnswers
  <2>2. Service!Answer
    BY <1>1, <1>2, <1>4, <2>1 DEF Service!Answer, Answered, Value
  <2> QED BY <2>2 DEF Service!Next
<1> QED BY <1>3, <1>4, SocketReplies

\* A byte that gives the server no frame, and the signal.
LEMMA RestImplements ==
  ASSUME TxSeqs, ~Served, OnRecv \/ Stop \/ UNCHANGED vars
  PROVE  UNCHANGED Service!vars
<1>1. CASE OnRecv
  <2>1. UNCHANGED <<sent, executed, memory, faults, outbox>>
    BY <1>1 DEF OnRecv, Served, clientVars
  <2>2. Replied' = Replied
    BY <1>1, OnRecvReplies
  <2> QED BY <2>1, <2>2 DEF Service!vars, Value
<1>2. CASE Stop \/ UNCHANGED vars
  <2>1. UNCHANGED <<sent, executed, memory, faults, outbox, txQueue, txBuffer, isTxRunning>>
    BY <1>2 DEF Stop, vars, udpVars, txVars, clientVars
  <2>2. UNCHANGED Replied
    BY <2>1 DEF Replied
  <2> QED BY <2>1, <2>2 DEF Service!vars, Value
<1> QED BY <1>1, <1>2

LEMMA InitImplements == Init => Service!Init
<1> SUFFICES ASSUME Init PROVE Service!Init
  OBVIOUS
<1>1. /\ sent = <<>> /\ executed = <<>> /\ faults = 0 /\ memory = [a \in Address |-> 0]
      /\ outbox = <<>> /\ txQueue = <<>> /\ ~isTxRunning
  BY DEF Init, MemoryInit, UdpInit
<1>2. Replied = <<>>
  BY <1>1 DEF Replied
<1>3. Asked = <<>> /\ CarriedOut = <<>> /\ Answered = <<>> /\ Len(outbox) = 0
  BY <1>1, <1>2 DEF Asked, CarriedOut, Answered
<1>4. [a \in Address |-> Blurred(Value(a))] = [a \in Address |-> Blurred(IF PcDebug THEN a ELSE 0)]
  BY <1>1 DEF Value
<1> QED BY <1>1, <1>3, <1>4 DEF Service!Init, Asked, CarriedOut, Answered

(* All that the stack does but serving a request is what the abstract       *)
(* memory may do: a request is asked for, a fault happens, an answer leaves *)
(* in its turn, or nothing is to be seen, whatever the datagrams, errors    *)
(* and faults.  pcTestApp.cpp, udpServer.h:64-152, basicProtocol.h:305-325. *)
THEOREM AllButServingImplements ==
  Spec => Service!Init /\ [][Served \/ [Service!Next]_(Service!vars)]_vars
<1>1. ASSUME TxSeqs, TxIInv, SentSeq, [Next]_vars
      PROVE  [Served \/ [Service!Next]_(Service!vars)]_vars
  BY <1>1, AsksImplement, NetworkImplements, SocketImplements, RestImplements DEF Next
<1>2. Init => SentSeq
  <2>1. <<>> \in Seq({})
    OBVIOUS
  <2> QED BY <2>1 DEF Init, SentSeq
<1> QED BY <1>1, <1>2, TxSeqsInit, TxIInvInit, TxSeqsStep, TxStep, SentStep, InitImplements,
           PTL DEF Spec

-----------------------------------------------------------------------------
(* The bytes by their bounds. *)
LEMMA OctetsAre ==
  /\ Octet \subseteq Nat
  /\ \A v \in Int : v \in Octet <=> 0 <= v /\ v <= 255
BY DEF Octet

(* A part of a sequence, as the array it is copied to. *)
LEMMA PartOf ==
  ASSUME NEW S, NEW s \in Seq(S), NEW m \in Nat, NEW n \in Nat, n + m <= Len(s)
  PROVE  SubSeq(s, n + 1, n + m) \in [1..m -> S]
<1>1. SubSeq(s, n + 1, n + m) \in Seq(S) /\ Len(SubSeq(s, n + 1, n + m)) = m
  OBVIOUS
<1> QED BY <1>1, SeqIsFunction, Zenon

(* An operation as the bytes of a payload hold it. *)
Header == [op : Octet, size : Octet, majic : Octet, address : Octet,
           values : [1..MAX_READWRITE_SIZE -> Octet]]

(* The payload of a full window is bytes, as long as the frame leaves *)
(* room for.                                                          *)
LEMMA PayloadOfWindow ==
  ASSUME NEW w \in Seq(Octet), Len(w) = MAX_PACKET_LEN
  PROVE  PayloadOf(w) \in Seq(Octet) /\ Len(PayloadOf(w)) = PayloadMax
<1> DEFINE raw == SubSeq(w, 5, PayloadMax + 4)
<1>1. raw \in Seq(Octet) /\ Len(raw) = PayloadMax
  BY PayloadAssumption DEF MAX_PACKET_LEN
<1> HIDE DEF raw
<1> QED BY <1>1, UnescapedType DEF PayloadOf, raw

(* Whatever bytes a payload holds, the server reads an operation of *)
(* bytes from it. readWriteProtocol.h:101-107.                      *)
LEMMA OperationType ==
  ASSUME NEW payload \in Seq(Octet), OperationLength <= Len(payload)
  PROVE  Operation(payload) \in Header
<1>1. MAX_READWRITE_SIZE \in Nat
  BY ReadWriteAssumption
<1> DEFINE m == MAX_READWRITE_SIZE
           values == SubSeq(payload, 5, OperationLength)
<1>2. Len(payload) \in Nat /\ 4 + m <= Len(payload) /\ OperationLength = 4 + m
  BY DEF OperationLength
<1> HIDE DEF m
<1>3. /\ payload[1] \in Octet /\ payload[2] \in Octet
      /\ payload[3] \in Octet /\ payload[4] \in Octet
  BY <1>1, <1>2 DEF m
<1>4. values \in [1..m -> Octet]
  <2>1. SubSeq(payload, 4 + 1, 4 + m) \in [1..m -> Octet]
    BY <1>1, <1>2, PartOf DEF m
  <2> QED BY <1>2, <2>1
<1> HIDE DEF values
<1> QED BY <1>3, <1>4 DEF Operation, Header, values, m

(* An operation goes into a payload as bytes. *)
LEMMA PayloadBytesType ==
  ASSUME NEW o, o.op \in Octet, o.size \in Octet, o.majic \in Octet, o.address \in Octet,
         o.values \in [1..MAX_READWRITE_SIZE -> Octet]
  PROVE  PayloadBytes(o) \in Seq(Octet) /\ Len(PayloadBytes(o)) = OperationLength
<1>1. o.values \in Seq(Octet) /\ Len(o.values) = MAX_READWRITE_SIZE
  BY ReadWriteAssumption, LengthOfWindow
<1> QED BY <1>1, ReadWriteAssumption DEF PayloadBytes, OperationLength

(* The request stays inside the memory and inside its array of values; *)
(* the server checks neither. readWriteProtocol.h:115-148.             *)
InBounds(o) ==
  /\ o.size <= MAX_READWRITE_SIZE
  /\ o.address..o.address + o.size - 1 \subseteq Address

(* A request inside the memory is answered with bytes, and leaves bytes *)
(* in the memory.                                                       *)
LEMMA ReplyType ==
  ASSUME NEW o \in Header, InBounds(o), memory \in [Address -> Octet]
  PROVE  /\ PayloadBytes(Reply(o)) \in Seq(Octet)
         /\ Written(o) \in [Address -> Octet]
<1>1. /\ o.op \in Octet /\ o.size \in Octet /\ o.majic \in Octet /\ o.address \in Octet
      /\ o.values \in [1..MAX_READWRITE_SIZE -> Octet]
  BY DEF Header
<1>2. Address \subseteq Octet /\ MAX_READWRITE_SIZE \in Nat /\ 0 \in Octet
  BY ReadWriteAssumption, ClientAssumption, OctetsAre
<1>3. o.size <= MAX_READWRITE_SIZE
  BY DEF InBounds
<1>4. /\ o.size \in Nat /\ o.address \in Nat /\ o.size <= MAX_READWRITE_SIZE
      /\ Address \subseteq Nat /\ MAX_READWRITE_SIZE \in Nat
  BY <1>1, <1>2, <1>3, OctetsAre
<1>5. ASSUME NEW i \in 1..MAX_READWRITE_SIZE, i <= o.size
      PROVE  Value(o.address + i - 1) \in Octet
  <2>1. o.address + i - 1 \in o.address..o.address + o.size - 1
    BY <1>4, <1>5
  <2>2. o.address + i - 1 \in Address
    BY <2>1 DEF InBounds
  <2> HIDE DEF InBounds
  <2> QED BY <1>2, <2>2 DEF Value
<1> DEFINE values == [i \in 1..MAX_READWRITE_SIZE |->
                        IF i <= o.size THEN Value(o.address + i - 1) ELSE 0]
<1>6. values \in [1..MAX_READWRITE_SIZE -> Octet]
  BY <1>5, <1>2
<1> HIDE DEF values
<1>7. /\ Reply(o).op = o.op /\ Reply(o).size = o.size /\ Reply(o).majic = o.majic
      /\ Reply(o).address = o.address /\ Reply(o).values = values
  BY DEF Reply, Header, values
<1>8. PayloadBytes(Reply(o)) \in Seq(Octet)
  BY <1>6, <1>7, <1>1, PayloadBytesType
<1>9. ASSUME NEW a \in Address, a - o.address \in 0..o.size - 1
      PROVE  o.values[a - o.address + 1] \in Octet
  <2>1. a \in Int /\ a - o.address + 1 \in 1..MAX_READWRITE_SIZE
    BY <1>4, <1>9
  <2> QED BY <1>1, <2>1
<1>10. Written(o) \in [Address -> Octet]
  BY <1>9 DEF Written
<1> QED BY <1>8, <1>10

(* What is on its way to the server is bytes. *)
BytesArrive ==
  /\ Contents(rxRB) \in Seq(Octet)
  /\ rxBuffer \in Seq(Octet) /\ inbox \in Seq(Seq(Octet)) /\ unsent \in Seq(Octet)

(* A request of the client goes out as a frame of bytes. *)
LEMMA AskedType ==
  ASSUME SentSeq, NEW r \in Request, Len(sent) < MaxRequests, NEW o,
         o = [op |-> r.op, size |-> r.size, majic |-> Len(sent) + 1,
              address |-> r.address, values |-> r.values]
  PROVE  Packet(READ_WRITE_PROTOCOL_PORT, ClientPort, PayloadBytes(o)) \in Seq(Octet)
<1>1. Len(sent) \in Nat
  BY DEF SentSeq
<1>2. Len(sent) + 1 \in Octet
  <2>1. MaxRequests \in Nat /\ MaxRequests < ESC_PACKET
    BY ClientAssumption
  <2> QED BY <1>1, <2>1, OctetsAre DEF ESC_PACKET
<1>3. /\ r.op \in Octet /\ r.size \in Octet /\ r.address \in Octet
      /\ r.values \in [1..MAX_READWRITE_SIZE -> Octet]
  BY ClientAssumption DEF ContiguousRead, ContiguousWrite, Octet
<1>4. PayloadBytes(o) \in Seq(Octet) /\ Len(PayloadBytes(o)) = OperationLength
  BY <1>2, <1>3, PayloadBytesType
<1>5. Len(Escaped(PayloadBytes(o))) <= PayloadMax
  <2>1. Escaped(PayloadBytes(o)) \in UpTo(2 * OperationLength)
    BY <1>4, EscapedType
  <2>2. 2 * OperationLength <= PayloadMax /\ OperationLength \in Nat /\ PayloadMax \in Nat
    BY ClientAssumption, ReadWriteAssumption, PayloadAssumption DEF OperationLength
  <2> QED BY <2>1, <2>2 DEF UpTo
<1>6. READ_WRITE_PROTOCOL_PORT \in Octet /\ ClientPort \in Octet
  BY ClientAssumption DEF READ_WRITE_PROTOCOL_PORT, Octet
<1> QED BY <1>4, <1>5, <1>6, PacketType

(* No step puts anything but bytes on the way to the server. *)
LEMMA BytesStep ==
  ASSUME RingInv, SentSeq, BytesArrive, [Next]_vars
  PROVE  BytesArrive'
<1> DEFINE client == UNCHANGED <<rxRB, rxBuffer>>
<1>1. UNCHANGED rxRB => Contents(rxRB') = Contents(rxRB)
  OBVIOUS
<1>2. ASSUME NEW r \in Request, ClientAsks(r) PROVE BytesArrive'
  <2>1. UNCHANGED <<rxRB, rxBuffer, inbox>> /\ Len(sent) < MaxRequests
    BY <1>2 DEF ClientAsks, udpVars, rxVars
  <2>2. unsent' \in Seq(Octet)
    BY <1>2, <2>1, AskedType DEF ClientAsks
  <2> QED BY <1>1, <2>1, <2>2 DEF BytesArrive
<1>3. ASSUME NEW length \in Piece, ClientSends(length) PROVE BytesArrive'
  <2> DEFINE n == IF length < Len(unsent) THEN length ELSE Len(unsent)
  <2>1. n \in 0..Len(unsent) /\ Len(unsent) \in Nat
    BY ClientAssumption DEF BytesArrive
  <2>2. /\ UNCHANGED <<rxRB, rxBuffer>> /\ unsent' = SubSeq(unsent, n + 1, Len(unsent))
        /\ UNCHANGED inbox \/ inbox' = Append(inbox, SubSeq(unsent, 1, n))
    BY <1>3 DEF ClientSends, Arrives, IsLost
  <2> HIDE DEF n
  <2>3. SubSeq(unsent, n + 1, Len(unsent)) \in Seq(Octet) /\ SubSeq(unsent, 1, n) \in Seq(Octet)
    BY <2>1 DEF BytesArrive
  <2>4. inbox' \in Seq(Seq(Octet))
    <3>1. CASE UNCHANGED inbox
      BY <3>1 DEF BytesArrive
    <3>2. CASE inbox' = Append(inbox, SubSeq(unsent, 1, n))
      <4> DEFINE part == SubSeq(unsent, 1, n)
      <4> HIDE DEF part
      <4>1. part \in Seq(Octet) /\ inbox' = Append(inbox, part)
        BY <2>3, <3>2 DEF part
      <4> QED BY <4>1 DEF BytesArrive
    <3> QED BY <2>2, <3>1, <3>2
  <2> QED BY <1>1, <2>2, <2>3, <2>4 DEF BytesArrive
<1>4. ASSUME NEW byte \in Stray, StrayByte(byte) PROVE BytesArrive'
  <2>1. UNCHANGED <<rxRB, rxBuffer, unsent>> /\ inbox' = Append(inbox, <<byte>>)
    BY <1>4 DEF StrayByte
  <2>2. <<byte>> \in Seq(Octet)
    BY ClientAssumption
  <2>3. inbox' \in Seq(Seq(Octet))
    BY <2>1, <2>2 DEF BytesArrive
  <2> QED BY <1>1, <2>1, <2>3 DEF BytesArrive
<1>5. CASE OnRecv
  <2>1. /\ rxBuffer # <<>> /\ rxBuffer' = Tail(rxBuffer) /\ UNCHANGED <<inbox, unsent>>
        /\ ReceiveByte(Head(rxBuffer))
    BY <1>5 DEF OnRecv, Handling, NextByte, clientVars
  <2>2. Head(rxBuffer) \in Octet /\ Tail(rxBuffer) \in Seq(Octet)
    BY <2>1 DEF BytesArrive
  <2> DEFINE w == Append(Contents(rxRB), Head(rxBuffer))
  <2>3. w \in Seq(Octet)
    BY <2>2 DEF BytesArrive
  <2>4. Contents(rxRB') = IF Len(w) < MAX_PACKET_LEN THEN w
                          ELSE SubSeq(w, Consumed(w) + 1, Len(w))
    BY <2>1, ByteSlides
  <2> HIDE DEF w
  <2>5. SubSeq(w, Consumed(w) + 1, Len(w)) \in Seq(Octet)
    BY <2>3, ConsumedType, PayloadAssumption DEF MAX_PACKET_LEN
  <2> QED BY <2>1, <2>2, <2>3, <2>4, <2>5 DEF BytesArrive
<1>6. CASE SocketHandler
  <2>1. UNCHANGED <<rxRB, unsent>>
    BY <1>6 DEF SocketHandler, clientVars
  <2>2. CASE Receive
    <3>1. rxBuffer' = Head(inbox) /\ inbox' = Tail(inbox) /\ inbox # <<>>
      BY <2>2 DEF Receive
    <3>2. rxBuffer' \in Seq(Octet) /\ inbox' \in Seq(Seq(Octet))
      BY <3>1 DEF BytesArrive
    <3> QED BY <1>1, <2>1, <3>2 DEF BytesArrive
  <2>3. CASE SendCompletes \/ RunPosted
    BY <1>1, <2>1, <2>3 DEF SendCompletes, RunPosted, rxVars, BytesArrive
  <2> QED BY <1>6, <2>2, <2>3 DEF SocketHandler
<1>7. CASE SocketError
  BY <1>1, <1>7 DEF SocketError, ReceiveFails, SendFails, clientVars, BytesArrive
<1>8. CASE Stop \/ UNCHANGED vars
  BY <1>1, <1>8 DEF Stop, vars, udpVars, rxVars, clientVars, BytesArrive
<1> QED BY <1>2, <1>3, <1>4, <1>5, <1>6, <1>7, <1>8 DEF Next
-----------------------------------------------------------------------------
(* The frames that send_packet writes. *)
Frames == {f \in Seq(Octet) : Len(f) = MAX_PACKET_LEN /\ CarriesCrc(f)}

(* Every request executed so far stayed inside the memory. *)
RequestsInBounds == \A k \in DOMAIN executed : InBounds(executed[k])

(* executed is a sequence. *)
ExecutedSeq == \E T : executed \in Seq(T)

(* What waits in the queue and in the transmit buffer is frames. *)
QueueHolds == txQueue \in Seq(Frames) /\ (isTxRunning => txBuffer \in Frames)

(* While the requests stay inside the memory, it holds bytes and the *)
(* replies are frames.                                               *)
ServerInv == RequestsInBounds => memory \in [Address -> Octet] /\ QueueHolds

(* executed stays a sequence. *)
LEMMA ExecutedStep == ExecutedSeq /\ [Next]_vars => ExecutedSeq'
<1> SUFFICES ASSUME ExecutedSeq, [Next]_vars PROVE ExecutedSeq'
  OBVIOUS
<1>1. PICK T : executed \in Seq(T)
  BY DEF ExecutedSeq
<1>2. UNCHANGED executed \/ \E o : executed' = Append(executed, o)
  BY DEF Next, ClientAsks, ClientSends, StrayByte, OnRecv, Serve, SocketHandler,
     SocketError, Stop, vars
<1>3. CASE UNCHANGED executed
  BY <1>1, <1>3 DEF ExecutedSeq
<1>4. ASSUME NEW o, executed' = Append(executed, o) PROVE ExecutedSeq'
  BY <1>1, <1>4, Wider DEF ExecutedSeq
<1> QED BY <1>2, <1>3, <1>4

(* If all requests stayed inside the memory after one more, that one *)
(* did and so did those before.                                      *)
LEMMA AppendedInBounds ==
  ASSUME ExecutedSeq, NEW o, executed' = Append(executed, o), RequestsInBounds'
  PROVE  RequestsInBounds /\ InBounds(o)
<1>1. PICK T : executed \in Seq(T)
  BY DEF ExecutedSeq
<1> DEFINE S == T \cup {o}
<1>2. executed \in Seq(S) /\ o \in S
  BY <1>1, Wider
<1> HIDE DEF S
<1>3. /\ Len(executed) \in Nat /\ DOMAIN executed = 1..Len(executed)
      /\ DOMAIN executed' = 1..Len(executed) + 1
      /\ executed'[Len(executed) + 1] = o
      /\ \A k \in 1..Len(executed) : executed'[k] = executed[k]
  BY <1>2
<1> HIDE DEF InBounds
<1>4. Len(executed) + 1 \in DOMAIN executed' /\ DOMAIN executed \subseteq DOMAIN executed'
  BY <1>3
<1> QED BY <1>3, <1>4 DEF RequestsInBounds

(* start_write moves frames. udpServer.h:115-131. *)
LEMMA StartWriteHolds ==
  ASSUME QueueHolds, NEW queue \in Seq(Frames), StartWrite(queue)
  PROVE  QueueHolds'
<1>1. CASE ~isTxRunning /\ queue # <<>>
  <2>1. txBuffer' = Head(queue) /\ txQueue' = Tail(queue)
    BY <1>1 DEF StartWrite
  <2>2. Head(queue) \in Frames /\ Tail(queue) \in Seq(Frames)
    BY <1>1
  <2> QED BY <2>1, <2>2 DEF QueueHolds
<1>2. CASE ~(~isTxRunning /\ queue # <<>>)
  BY <1>2 DEF StartWrite, QueueHolds
<1> QED BY <1>1, <1>2

(* The operation in a full window, and the port it comes from, are *)
(* bytes.                                                          *)
LEMMA WindowHoldsOperation ==
  ASSUME RingInv, BytesArrive, Handling, Filled(Head(rxBuffer))
  PROVE  /\ Operation(Payload(Head(rxBuffer))) \in Header
         /\ FromPort(Head(rxBuffer)) \in Octet
<1> DEFINE byte == Head(rxBuffer)
           w == Contents(Pushed(byte))
<1>1. byte \in Octet
  BY DEF BytesArrive, Handling
<1> HIDE DEF byte
<1>2. RingOK(rxRB) /\ rxRB.size < RingSize
  BY PayloadAssumption, ProtocolAssumption, SMT DEF RingInv, RingOK, MAX_PACKET_LEN
<1>3. w = Append(Contents(rxRB), byte)
  BY <1>2, PushAppends DEF Pushed
<1>4. w \in Seq(Octet)
  BY <1>1, <1>3 DEF BytesArrive
<1>5. Len(w) = Pushed(byte).size
  <2>1. Pushed(byte).size = rxRB.size + 1 /\ rxRB.size \in Nat
    <3>1. rxRB.size \in Nat
      BY <1>2, RingAssumption DEF RingOK
    <3> QED BY <1>2, <3>1, PushAppends DEF Pushed
  <2>2. w \in [1..Pushed(byte).size -> {Peek(Pushed(byte), k - 1) : k \in 1..Pushed(byte).size}]
    BY DEF Contents
  <2> QED BY <2>1, <2>2, LengthOfWindow
<1>6. Len(w) = MAX_PACKET_LEN
  BY <1>5 DEF Filled, byte
<1> HIDE DEF w
<1>7. PayloadOf(w) \in Seq(Octet) /\ Len(PayloadOf(w)) = PayloadMax
  BY <1>4, <1>6, PayloadOfWindow
<1>8. OperationLength <= PayloadMax
  BY ClientAssumption, ReadWriteAssumption, PayloadAssumption DEF OperationLength
<1>9. w[2] \in Octet
  BY <1>4, <1>6, PayloadAssumption DEF MAX_PACKET_LEN
<1> QED BY <1>7, <1>8, <1>9, OperationType DEF Payload, FromPort, w, byte

(* Serving a request keeps the memory and the queue. *)
(* readWriteProtocol.h:97-156.                       *)
LEMMA ServedInv ==
  ASSUME RingInv, BytesArrive, ExecutedSeq, ServerInv, Served, RequestsInBounds'
  PROVE  memory' \in [Address -> Octet] /\ QueueHolds'
<1> DEFINE o == Operation(Payload(Head(rxBuffer)))
           port == FromPort(Head(rxBuffer))
           reply == PayloadBytes(Reply(o))
           frame == Packet(port, READ_WRITE_PROTOCOL_PORT, reply)
<1>1. Handling /\ Serve(o, port)
  BY DEF Served, OnRecv
<1>2. Filled(Head(rxBuffer))
  BY DEF Served, Calls, ReadWriteServer, NoCallback
<1>3. o \in Header /\ port \in Octet
  BY <1>1, <1>2, WindowHoldsOperation
<1> HIDE DEF o, port
<1>4. /\ executed' = Append(executed, o)
      /\ memory' = (IF o.op = ContiguousWrite THEN Written(o) ELSE memory)
  BY <1>1 DEF Serve, Execute
<1>5. RequestsInBounds /\ InBounds(o)
  BY <1>4, AppendedInBounds
<1>6. memory \in [Address -> Octet] /\ QueueHolds
  BY <1>5 DEF ServerInv
<1>7. reply \in Seq(Octet) /\ Written(o) \in [Address -> Octet]
  BY <1>3, <1>5, <1>6, ReplyType
<1> HIDE DEF reply
<1>8. memory' \in [Address -> Octet]
  BY <1>4, <1>6, <1>7
<1>9. UNCHANGED txVars
        \/ (Sendable(port, READ_WRITE_PROTOCOL_PORT, reply) /\ StartWrite(Append(txQueue, frame)))
  BY <1>1 DEF Serve, PostTX, reply
<1>10. CASE UNCHANGED txVars
  BY <1>6, <1>8, <1>10 DEF txVars, QueueHolds
<1>11. CASE /\ Sendable(port, READ_WRITE_PROTOCOL_PORT, reply)
            /\ StartWrite(Append(txQueue, frame))
  <2>1. Len(Escaped(reply)) <= PayloadMax /\ READ_WRITE_PROTOCOL_PORT \in Octet
    BY <1>11, OctetsAre DEF Sendable, READ_WRITE_PROTOCOL_PORT
  <2>2. frame \in Frames
    BY <1>3, <1>7, <2>1, PacketType DEF Frames
  <2> HIDE DEF frame
  <2>3. Append(txQueue, frame) \in Seq(Frames)
    BY <1>6, <2>2 DEF QueueHolds
  <2> QED BY <1>6, <1>8, <1>11, <2>3, StartWriteHolds
<1> QED BY <1>9, <1>10, <1>11

(* Every step does. *)
LEMMA ServerStep ==
  ASSUME RingInv, BytesArrive, ExecutedSeq, ServerInv, [Next]_vars
  PROVE  ServerInv'
<1> SUFFICES ASSUME RequestsInBounds' PROVE memory' \in [Address -> Octet] /\ QueueHolds'
  BY DEF ServerInv
<1>1. CASE Served
  BY <1>1, ServedInv
<1>2. CASE UNCHANGED executed /\ UNCHANGED memory /\ (UNCHANGED txVars \/ RunPosted
             \/ SendCompletes \/ SendFails)
  <2>1. memory \in [Address -> Octet] /\ QueueHolds
    BY <1>2 DEF ServerInv, RequestsInBounds
  <2>2. CASE UNCHANGED txVars
    BY <1>2, <2>1, <2>2 DEF txVars, QueueHolds
  <2>3. CASE RunPosted
    BY <1>2, <2>1, <2>3, StartWriteHolds DEF RunPosted, QueueHolds
  <2>4. CASE SendCompletes \/ SendFails
    BY <1>2, <2>1, <2>4 DEF SendCompletes, SendFails, QueueHolds
  <2> QED BY <1>2, <2>2, <2>3, <2>4
<1>3. Served \/ (UNCHANGED <<executed, memory>> /\ (UNCHANGED txVars \/ RunPosted
             \/ SendCompletes \/ SendFails))
  <2>1. CASE OnRecv
    BY <2>1 DEF OnRecv, Served
  <2>2. CASE SocketHandler \/ SocketError
    BY <2>2 DEF SocketHandler, SocketError, Receive, ReceiveFails
  <2>3. CASE ~OnRecv /\ ~SocketHandler /\ ~SocketError
    BY <2>3 DEF Next, ClientAsks, ClientSends, StrayByte, Stop, vars, udpVars
  <2> QED BY <2>1, <2>2, <2>3
<1> QED BY <1>1, <1>2, <1>3

(* The bounds of the model and the flags. *)
Bounded ==
  /\ Len(sent) <= MaxRequests /\ Len(inbox) <= MaxInbox /\ faults \in 0..MaxFaults
  /\ rxArmed \in BOOLEAN /\ isTxRunning \in BOOLEAN /\ sending \in BOOLEAN
  /\ open \in BOOLEAN /\ stopped \in BOOLEAN

(* A tail is no longer than the sequence. *)
LEMMA LenOfTail ==
  ASSUME NEW S, NEW s \in Seq(S), s # <<>> PROVE Len(Tail(s)) <= Len(s)
OBVIOUS

(* Every step keeps the bounds and the flags. *)
LEMMA BoundedStep ==
  ASSUME BytesArrive, SentSeq, Bounded, [Next]_vars PROVE Bounded'
<1> USE DEF Bounded
<1>1. ASSUME NEW r \in Request, ClientAsks(r) PROVE Bounded'
  <2>1. PICK T : sent \in Seq(T)
    BY DEF SentSeq
  <2>2. /\ UNCHANGED <<inbox, faults, rxArmed, isTxRunning, sending, open, stopped>>
        /\ Len(sent) < MaxRequests /\ \E o : sent' = Append(sent, o)
    BY <1>1 DEF ClientAsks, udpVars, rxVars, txVars
  <2>3. Len(sent') = Len(sent) + 1 /\ Len(sent) \in Nat
    BY <2>1, <2>2, LenAppend
  <2> QED BY <2>2, <2>3, ClientAssumption, OctetsAre
<1>2. ASSUME NEW datagram, Arrives(datagram) \/ IsLost
      PROVE  Len(inbox') <= MaxInbox /\ faults' \in 0..MaxFaults
  <2>1. CASE Arrives(datagram)
    <3>1. Len(inbox') = Len(inbox) + 1 /\ Len(inbox) \in Nat
      BY <2>1, LenAppend DEF Arrives, BytesArrive
    <3> QED BY <2>1, <3>1, ClientAssumption DEF Arrives
  <2>2. CASE IsLost
    BY <2>2, ClientAssumption DEF IsLost
  <2> QED BY <1>2, <2>1, <2>2
<1>3. ASSUME NEW length \in Piece, ClientSends(length) PROVE Bounded'
  <2>1. /\ UNCHANGED <<sent, rxArmed, isTxRunning, sending, open, stopped>>
        /\ \E datagram : Arrives(datagram) \/ IsLost
    BY <1>3 DEF ClientSends, txVars
  <2> QED BY <1>2, <2>1
<1>4. ASSUME NEW byte \in Stray, StrayByte(byte) PROVE Bounded'
  <2>1. /\ UNCHANGED <<sent, rxArmed, isTxRunning, sending, open, stopped>>
        /\ faults < MaxFaults /\ faults' = faults + 1
        /\ Len(inbox) < MaxInbox /\ inbox' = Append(inbox, <<byte>>)
    BY <1>4 DEF StrayByte, txVars
  <2>2. Len(inbox') = Len(inbox) + 1 /\ Len(inbox) \in Nat
    BY <2>1, LenAppend DEF BytesArrive
  <2> QED BY <2>1, <2>2, ClientAssumption
<1>5. ASSUME NEW queue, StartWrite(queue) PROVE isTxRunning' \in BOOLEAN /\ sending' \in BOOLEAN
  BY <1>5 DEF StartWrite
<1>6. CASE OnRecv
  <2>1. /\ UNCHANGED <<sent, inbox, faults, open, stopped>> /\ rxArmed' \in BOOLEAN
        /\ UNCHANGED txVars \/ \E queue : StartWrite(queue)
    BY <1>6, Zenon DEF OnRecv, Handling, NextByte, Serve, PostTX, clientVars
  <2> QED BY <1>5, <2>1 DEF txVars
<1>7. CASE SocketHandler
  <2>1. CASE Receive
    <3>1. /\ UNCHANGED <<sent, faults, isTxRunning, sending, open, stopped>>
          /\ rxArmed' = FALSE /\ inbox' = Tail(inbox) /\ inbox # <<>>
      BY <1>7, <2>1 DEF SocketHandler, Receive, clientVars, txVars
    <3>2. Len(inbox') <= Len(inbox) /\ Len(inbox') \in Nat /\ Len(inbox) \in Nat
      BY <3>1, LenOfTail DEF BytesArrive
    <3>3. Len(inbox') <= MaxInbox /\ MaxInbox \in Nat
      BY <3>2, ClientAssumption
    <3> QED BY <3>1, <3>3
  <2>2. CASE SendCompletes
    BY <1>7, <2>2 DEF SocketHandler, SendCompletes, clientVars, rxVars
  <2>3. CASE RunPosted
    BY <1>5, <1>7, <2>3 DEF SocketHandler, RunPosted, clientVars, rxVars
  <2> QED BY <1>7, <2>1, <2>2, <2>3 DEF SocketHandler
<1>8. CASE SocketError
  BY <1>8 DEF SocketError, ReceiveFails, SendFails, clientVars, txVars
<1>9. CASE Stop
  BY <1>9 DEF Stop, clientVars, txVars, rxVars
<1>10. CASE UNCHANGED vars
  BY <1>10 DEF vars, udpVars, clientVars, txVars, rxVars
<1> QED BY <1>1, <1>3, <1>4, <1>6, <1>7, <1>8, <1>9, <1>10 DEF Next

(* The inductive invariant of the stack. *)
PcInv == /\ RingInv /\ TxIInv /\ SentSeq /\ BytesArrive /\ ExecutedSeq
         /\ ServerInv /\ Bounded

(* It holds at the start, before any byte has come. *)
LEMMA PcInvInit == Init => PcInv
<1> SUFFICES ASSUME Init PROVE PcInv
  OBVIOUS
<1>1. RingInv /\ TxIInv
  BY RingInit, TxIInvInit
<1>2. /\ sent = <<>> /\ executed = <<>> /\ unsent = <<>> /\ inbox = <<>> /\ rxBuffer = <<>>
      /\ txQueue = <<>> /\ isTxRunning = FALSE /\ sending = FALSE /\ open = TRUE
      /\ stopped = FALSE /\ rxArmed = TRUE /\ faults = 0
      /\ memory = [a \in Address |-> 0] /\ rxRB = EmptyRing
  BY DEF Init, UdpInit, MemoryInit, ProtocolInit
<1>3. \A S : <<>> \in Seq(S)
  OBVIOUS
<1>4. SentSeq /\ ExecutedSeq
  BY <1>2, <1>3 DEF SentSeq, ExecutedSeq
<1>5. BytesArrive
  <2>1. Contents(rxRB) \in [1..0 -> Octet]
    BY <1>2 DEF EmptyRing, Contents
  <2>2. Contents(rxRB) \in Seq(Octet)
    BY <2>1, LengthOfWindow
  <2> QED BY <1>2, <1>3, <2>2 DEF BytesArrive
<1>6. 0 \in Octet
  BY OctetsAre
<1>7. ServerInv
  BY <1>2, <1>3, <1>6 DEF ServerInv, QueueHolds
<1>8. Bounded
  <2>1. Len(<<>>) = 0
    OBVIOUS
  <2>2. 0 <= MaxRequests /\ 0 <= MaxInbox /\ 0 \in 0..MaxFaults
    BY ClientAssumption, OctetsAre
  <2>3. Len(sent) <= MaxRequests /\ Len(inbox) <= MaxInbox
    BY <1>2, <2>1, <2>2, Zenon
  <2> QED BY <1>2, <2>2, <2>3 DEF Bounded
<1> QED BY <1>1, <1>4, <1>5, <1>7, <1>8 DEF PcInv

(* The ring, the transmit side, the bytes on the way and, while         *)
(* requests stay inside the memory, the memory and the queue of replies *)
(* keep their invariants together.                                      *)
THEOREM PcInvariance == Spec => []PcInv
<1>1. PcInv /\ [Next]_vars => PcInv'
  BY RingStep, TxStep, SentStep, BytesStep, ExecutedStep, ServerStep, BoundedStep DEF PcInv
<1> QED BY <1>1, PcInvInit, PTL DEF Spec

(* Nothing but bytes is ever read, queued or stored, for every frame   *)
(* that noise, loss and bad cuts can make of the datagrams, unless a   *)
(* request of more than MAX_READWRITE_SIZE words or outside the memory *)
(* was executed: the server indexes its arrays with the size and       *)
(* address of the frame unchecked. readWriteProtocol.h:115-148.        *)
THEOREM TypeCorrect == Spec => [](RequestsInBounds => TypeOK)
<1>1. PcInv => (RequestsInBounds => TypeOK)
  <2> SUFFICES ASSUME PcInv, RequestsInBounds PROVE TypeOK
    OBVIOUS
  <2>1. RingInv /\ TxIInv /\ BytesArrive /\ Bounded /\ memory \in [Address -> Octet]
    BY DEF PcInv, ServerInv
  <2> QED BY <2>1 DEF RingInv, TxIInv, BytesArrive, Bounded, TypeOK
<1> QED BY <1>1, PcInvariance, PTL

(* Under the same condition every reply, wherever it waits, is a frame *)
(* of full length whose CRC the other side can check by the remainder. *)
(* basicProtocol.h:186-216, crc16.h:33-35.                             *)
THEOREM FramesAreValid == Spec => [](RequestsInBounds => FramesCarryTheirCrc)
<1>1. PcInv => (RequestsInBounds => FramesCarryTheirCrc)
  BY DEF PcInv, ServerInv, QueueHolds, Frames, CarriesCrc, FramesCarryTheirCrc
<1> QED BY <1>1, PcInvariance, PTL

-----------------------------------------------------------------------------
(***************************************************************************)
(* Serving, until the first fault: the frames of the requests not served   *)
(* yet stand behind each other in the ring, the receive buffer, the        *)
(* datagrams and what is unsent.  First, where bytes stand in a sequence.  *)
(***************************************************************************)
(* The bytes s stand in q behind the first n. *)
Holds(q, n, s) ==
  /\ n \in Nat /\ n + Len(s) <= Len(q)
  /\ \A j \in 1..Len(s) : s[j] = q[n + j]

(* They do still when more follows. *)
LEMMA HoldsMore ==
  ASSUME NEW S, NEW q \in Seq(S), NEW f \in Seq(S), NEW s \in Seq(S), NEW n, Holds(q, n, s)
  PROVE  Holds(q \o f, n, s)
<1>1. /\ Len(q \o f) = Len(q) + Len(f) /\ Len(f) \in Nat /\ Len(q) \in Nat /\ Len(s) \in Nat
      /\ \A i \in 1..Len(q) : (q \o f)[i] = q[i]
  OBVIOUS
<1>2. n \in Nat /\ n + Len(s) <= Len(q) /\ \A j \in 1..Len(s) : s[j] = q[n + j]
  BY DEF Holds
<1> DEFINE r == q \o f
<1> HIDE DEF r
<1>3. ASSUME NEW j \in 1..Len(s) PROVE s[j] = r[n + j]
  <2>1. n + j \in 1..Len(q)
    BY <1>1, <1>2
  <2> QED BY <1>1, <1>2, <2>1 DEF r
<1>4. n + Len(s) <= Len(r)
  BY <1>1, <1>2 DEF r
<1> QED BY <1>2, <1>3, <1>4 DEF Holds, r

(* The two parts of what q holds follow each other in q. *)
LEMMA HoldsParts ==
  ASSUME NEW S, NEW q \in Seq(S), NEW s \in Seq(S), NEW n, Holds(q, n, s), NEW k \in 0..Len(s)
  PROVE  Holds(q, n, SubSeq(s, 1, k)) /\ Holds(q, n + k, SubSeq(s, k + 1, Len(s)))
<1>1. /\ Len(SubSeq(s, 1, k)) = k /\ Len(SubSeq(s, k + 1, Len(s))) = Len(s) - k
      /\ Len(s) \in Nat /\ Len(q) \in Nat
      /\ \A j \in 1..k : SubSeq(s, 1, k)[j] = s[j]
      /\ \A j \in 1..Len(s) - k : SubSeq(s, k + 1, Len(s))[j] = s[j + k]
  OBVIOUS
<1>2. n \in Nat /\ n + Len(s) <= Len(q) /\ \A j \in 1..Len(s) : s[j] = q[n + j]
  BY DEF Holds
<1> DEFINE a == SubSeq(s, 1, k)
           b == SubSeq(s, k + 1, Len(s))
<1> HIDE DEF a, b
<1>3. /\ Len(a) = k /\ Len(b) = Len(s) - k
      /\ \A j \in 1..k : a[j] = s[j]
      /\ \A j \in 1..Len(s) - k : b[j] = s[j + k]
  BY <1>1 DEF a, b
<1>4. ASSUME NEW j \in 1..Len(s) - k PROVE b[j] = q[(n + k) + j]
  <2>1. j + k \in 1..Len(s)
    BY <1>1
  <2>2. n + (j + k) = (n + k) + j
    BY <1>2
  <2> QED BY <1>2, <1>3, <2>1, <2>2
<1>5. n + k \in Nat /\ (n + k) + (Len(s) - k) <= Len(q) /\ n + k <= Len(q)
  BY <1>1, <1>2
<1>6. ASSUME NEW j \in 1..k PROVE a[j] = q[n + j]
  <2>1. j \in 1..Len(s)
    BY <1>1
  <2>2. s[j] = q[n + j] /\ a[j] = s[j]
    BY <1>2, <1>3, <2>1
  <2> QED BY <2>2
<1>7. Holds(q, n, a)
  BY <1>2, <1>3, <1>5, <1>6 DEF Holds
<1>8. Holds(q, n + k, b)
  BY <1>3, <1>4, <1>5 DEF Holds
<1> QED BY <1>7, <1>8 DEF a, b

(* The first byte and the others. *)
LEMMA HoldsTail ==
  ASSUME NEW S, NEW q \in Seq(S), NEW s \in Seq(S), s # <<>>, NEW n, Holds(q, n, s)
  PROVE  /\ n + 1 <= Len(q) /\ Head(s) = q[n + 1] /\ Holds(q, n + 1, Tail(s))
         /\ Len(Tail(s)) = Len(s) - 1
<1>1. /\ Len(s) \in Nat /\ Len(s) > 0 /\ Len(q) \in Nat /\ Head(s) = s[1]
      /\ Len(Tail(s)) = Len(s) - 1
      /\ \A j \in 1..Len(s) - 1 : Tail(s)[j] = s[j + 1]
  OBVIOUS
<1>2. n \in Nat /\ n + Len(s) <= Len(q) /\ \A j \in 1..Len(s) : s[j] = q[n + j]
  BY DEF Holds
<1> DEFINE t == Tail(s)
<1> HIDE DEF t
<1>3. ASSUME NEW j \in 1..Len(s) - 1 PROVE t[j] = q[(n + 1) + j]
  <2>1. j + 1 \in 1..Len(s) /\ n + (j + 1) = (n + 1) + j
    BY <1>1, <1>2
  <2> QED BY <1>1, <1>2, <2>1 DEF t
<1>4. n + 1 \in Nat /\ (n + 1) + (Len(s) - 1) <= Len(q) /\ n + 1 <= Len(q) /\ 1 \in 1..Len(s)
  BY <1>1, <1>2
<1>5. Len(t) = Len(s) - 1
  BY <1>1 DEF t
<1>6. Holds(q, n + 1, t)
  BY <1>3, <1>4, <1>5 DEF Holds
<1> QED BY <1>1, <1>2, <1>4, <1>6 DEF t

(* One byte more. *)
LEMMA HoldsNext ==
  ASSUME NEW S, NEW q \in Seq(S), NEW s \in Seq(S), NEW n, Holds(q, n, s),
         NEW x, n + Len(s) + 1 <= Len(q), x = q[n + Len(s) + 1]
  PROVE  Holds(q, n, Append(s, x))
<1>1. /\ Len(s) \in Nat /\ Len(q) \in Nat
  OBVIOUS
<1>2. n \in Nat /\ n + Len(s) <= Len(q) /\ \A j \in 1..Len(s) : s[j] = q[n + j]
  BY DEF Holds
<1>3. x \in S
  <2>1. n + Len(s) + 1 \in 1..Len(q)
    BY <1>1, <1>2
  <2> QED BY <2>1
<1> DEFINE t == Append(s, x)
<1>4. /\ Len(t) = Len(s) + 1
      /\ \A j \in 1..Len(s) + 1 : t[j] = IF j <= Len(s) THEN s[j] ELSE x
  BY <1>3, AppendIs, LenAppend
<1> HIDE DEF t
<1>5. ASSUME NEW j \in 1..Len(s) + 1 PROVE t[j] = q[n + j]
  <2>1. CASE j <= Len(s)
    <3>1. j \in 1..Len(s)
      BY <2>1, <1>1
    <3> QED BY <1>2, <1>4, <2>1, <3>1
  <2>2. CASE ~(j <= Len(s))
    <3>1. j = Len(s) + 1 /\ n + j = n + Len(s) + 1
      <4>1. n \in Nat /\ Len(s) \in Nat
        BY <1>1, <1>2
      <4> QED BY <2>2, <4>1
    <3>2. t[j] = x
      BY <1>4, <2>2
    <3> QED BY <3>1, <3>2
  <2> QED BY <2>1, <2>2
<1> QED BY <1>1, <1>2, <1>4, <1>5 DEF Holds, t

(* What stands in the same place is the same. *)
LEMMA HoldsSame ==
  ASSUME NEW S, NEW q \in Seq(S), NEW s \in Seq(S), NEW t \in Seq(S), NEW n,
         Holds(q, n, s), Holds(q, n, t), Len(s) = Len(t)
  PROVE  s = t
<1>1. \A j \in 1..Len(s) : s[j] = t[j]
  BY DEF Holds
<1>2. s \in [1..Len(s) -> S] /\ t \in [1..Len(s) -> S]
  BY SeqIsFunction
<1> QED BY <1>1, <1>2

(* The datagrams d cut the bytes of q between n and m into pieces. *)
Between(q, n, d, m) ==
  \E start \in [1..Len(d) + 1 -> Nat] :
    /\ start[1] = n /\ start[Len(d) + 1] = m
    /\ \A k \in 1..Len(d) : start[k + 1] = start[k] + Len(d[k]) /\ Holds(q, start[k], d[k])

(* The same holds of a longer q. *)
LEMMA BetweenMore ==
  ASSUME NEW S, NEW q \in Seq(S), NEW f \in Seq(S), NEW d \in Seq(Seq(S)), NEW n, NEW m,
         Between(q, n, d, m)
  PROVE  Between(q \o f, n, d, m)
<1>1. PICK start \in [1..Len(d) + 1 -> Nat] :
        /\ start[1] = n /\ start[Len(d) + 1] = m
        /\ \A k \in 1..Len(d) : start[k + 1] = start[k] + Len(d[k]) /\ Holds(q, start[k], d[k])
  BY DEF Between
<1>2. \A k \in 1..Len(d) : d[k] \in Seq(S)
  OBVIOUS
<1>3. \A k \in 1..Len(d) : Holds(q \o f, start[k], d[k])
  BY <1>1, <1>2, HoldsMore
<1> DEFINE r == q \o f
<1> HIDE DEF r, Holds
<1>4. \A k \in 1..Len(d) : Holds(r, start[k], d[k])
  BY <1>3 DEF r
<1>5. Between(r, n, d, m)
  BY <1>1, <1>4 DEF Between
<1> QED BY <1>5 DEF r

(* None at first. *)
LEMMA BetweenNone ==
  ASSUME NEW q, NEW n \in Nat
  PROVE  Between(q, n, <<>>, n)
<1> DEFINE start == [k \in 1..1 |-> n]
<1>1. start \in [1..0 + 1 -> Nat] /\ start[1] = n /\ start[0 + 1] = n /\ 1..0 = {}
  OBVIOUS
<1>2. Len(<<>>) = 0
  OBVIOUS
<1> HIDE DEF start, Holds
<1> QED BY <1>1, <1>2, Zenon DEF Between

(* A datagram more. *)
LEMMA BetweenAppend ==
  ASSUME NEW S, NEW q \in Seq(S), NEW d \in Seq(Seq(S)), NEW n, NEW m, NEW s \in Seq(S),
         Between(q, n, d, m), Holds(q, m, s)
  PROVE  Between(q, n, Append(d, s), m + Len(s))
<1> DEFINE l == Len(d)
           e == Append(d, s)
<1>1. PICK start \in [1..l + 1 -> Nat] :
        /\ start[1] = n /\ start[l + 1] = m
        /\ \A k \in 1..l : start[k + 1] = start[k] + Len(d[k]) /\ Holds(q, start[k], d[k])
  BY DEF Between
<1>2. l \in Nat /\ Len(s) \in Nat /\ m \in Nat
  <2>1. l + 1 \in 1..l + 1
    OBVIOUS
  <2> QED BY <1>1, <2>1
<1>3. Len(e) = l + 1 /\ \A k \in 1..l + 1 : e[k] = IF k <= l THEN d[k] ELSE s
  OBVIOUS
<1> HIDE DEF l, e, Holds
<1> DEFINE new == [k \in 1..(l + 1) + 1 |-> IF k <= l + 1 THEN start[k] ELSE m + Len(s)]
<1>4. /\ new \in [1..(l + 1) + 1 -> Nat]
      /\ new[1] = n /\ new[(l + 1) + 1] = m + Len(s)
      /\ \A k \in 1..l + 1 : new[k] = start[k]
  BY <1>1, <1>2
<1>5. ASSUME NEW k \in 1..l + 1
      PROVE  new[k + 1] = new[k] + Len(e[k]) /\ Holds(q, new[k], e[k])
  <2>1. CASE k <= l
    <3>1. k \in 1..l /\ k + 1 \in 1..l + 1
      BY <1>2, <2>1
    <3>2. new[k] = start[k] /\ new[k + 1] = start[k + 1] /\ e[k] = d[k]
      BY <1>3, <1>4, <2>1, <3>1
    <3> HIDE DEF new
    <3> QED BY <1>1, <3>1, <3>2
  <2>2. CASE ~(k <= l)
    <3>1. k = l + 1 /\ k + 1 = (l + 1) + 1
      BY <1>2, <2>2
    <3>2. e[k] = s /\ new[k] = m /\ new[k + 1] = m + Len(s)
      BY <1>1, <1>3, <1>4, <2>2, <3>1
    <3> HIDE DEF new
    <3> QED BY <3>2
  <2> QED BY <2>1, <2>2
<1> HIDE DEF new
<1>6. Between(q, n, e, m + Len(s))
  BY <1>3, <1>4, <1>5 DEF Between
<1> QED BY <1>6 DEF e

(* The oldest is taken. *)
LEMMA BetweenTail ==
  ASSUME NEW S, NEW q \in Seq(S), NEW d \in Seq(Seq(S)), d # <<>>, NEW n, NEW m,
         Between(q, n, d, m)
  PROVE  Holds(q, n, Head(d)) /\ Between(q, n + Len(Head(d)), Tail(d), m)
<1> DEFINE l == Len(d)
           e == Tail(d)
<1>1. PICK start \in [1..l + 1 -> Nat] :
        /\ start[1] = n /\ start[l + 1] = m
        /\ \A k \in 1..l : start[k + 1] = start[k] + Len(d[k]) /\ Holds(q, start[k], d[k])
  BY DEF Between
<1>2. /\ l \in Nat /\ l > 0 /\ 1 \in 1..l /\ Head(d) = d[1] /\ Len(e) = l - 1
      /\ \A k \in 1..l - 1 : e[k] = d[k + 1]
  OBVIOUS
<1> HIDE DEF l, e, Holds
<1> DEFINE new == [k \in 1..l |-> start[k + 1]]
<1>3. new \in [1..l -> Nat] /\ new[1] = start[1 + 1] /\ new[l] = m
  BY <1>1, <1>2
<1>4. ASSUME NEW k \in 1..l - 1
      PROVE  new[k + 1] = new[k] + Len(e[k]) /\ Holds(q, new[k], e[k])
  <2>1. k \in 1..l /\ k + 1 \in 1..l
    BY <1>2
  <2>2. new[k] = start[k + 1] /\ new[k + 1] = start[(k + 1) + 1] /\ e[k] = d[k + 1]
    BY <1>2, <2>1
  <2> HIDE DEF new
  <2> QED BY <1>1, <2>1, <2>2
<1>5. new[1] = n + Len(Head(d)) /\ Holds(q, n, Head(d))
  BY <1>1, <1>2, <1>3
<1>6. (l - 1) + 1 = l
  BY <1>2
<1> HIDE DEF new
<1>7. Between(q, n + Len(Head(d)), e, m)
  BY <1>2, <1>3, <1>4, <1>5, <1>6 DEF Between
<1> QED BY <1>5, <1>7 DEF e

-----------------------------------------------------------------------------
(* What becomes of a request on its way. *)

(* Arrays that agree everywhere. *)
LEMMA SameArray ==
  ASSUME NEW n \in Nat, NEW S, NEW f \in [1..n -> S], NEW g \in [1..n -> S],
         \A i \in 1..n : f[i] = g[i]
  PROVE  f = g
OBVIOUS

(* The bytes of a request, field by field. *)
LEMMA HeaderPayload ==
  ASSUME NEW o \in Header
  PROVE  LET p == PayloadBytes(o)
         IN  /\ p \in Seq(Octet) /\ Len(p) = OperationLength
             /\ p[1] = o.op /\ p[2] = o.size /\ p[3] = o.majic /\ p[4] = o.address
             /\ \A i \in 1..MAX_READWRITE_SIZE : p[4 + i] = o.values[i]
<1>1. o.values \in Seq(Octet) /\ Len(o.values) = MAX_READWRITE_SIZE
  <2>1. o.values \in [1..MAX_READWRITE_SIZE -> Octet]
    BY DEF Header
  <2> QED BY <2>1, ReadWriteAssumption, LengthOfWindow
<1> DEFINE v == o.values
           h == <<o.op, o.size, o.majic, o.address>>
<1>2. h \in Seq(Octet) /\ Len(h) = 4
  BY DEF Header
<1>3. h[1] = o.op /\ h[2] = o.size /\ h[3] = o.majic /\ h[4] = o.address
  OBVIOUS
<1>4. PayloadBytes(o) = h \o v
  BY DEF PayloadBytes
<1> HIDE DEF v, h
<1>5. MAX_READWRITE_SIZE \in Nat /\ OperationLength = 4 + MAX_READWRITE_SIZE
  BY ReadWriteAssumption DEF OperationLength
<1>6. v \in Seq(Octet) /\ Len(v) = MAX_READWRITE_SIZE
  BY <1>1 DEF v
<1> DEFINE p == h \o v
<1>7. /\ p \in Seq(Octet) /\ Len(p) = Len(h) + Len(v)
      /\ \A i \in 1..Len(h) : p[i] = h[i]
      /\ \A i \in 1..Len(v) : p[Len(h) + i] = v[i]
  <2>1. h \in Seq(Octet) /\ v \in Seq(Octet)
    BY <1>2, <1>6
  <2> QED BY <2>1, Joined
<1> HIDE DEF p
<1>8. /\ p \in Seq(Octet) /\ Len(p) = OperationLength
      /\ \A i \in 1..MAX_READWRITE_SIZE : p[4 + i] = v[i]
  BY <1>2, <1>5, <1>6, <1>7
<1>9. p[1] = h[1] /\ p[2] = h[2] /\ p[3] = h[3] /\ p[4] = h[4]
  <2>1. 1 \in 1..Len(h) /\ 2 \in 1..Len(h) /\ 3 \in 1..Len(h) /\ 4 \in 1..Len(h)
    BY <1>2
  <2> QED BY <1>7, <2>1
<1> QED BY <1>3, <1>4, <1>8, <1>9 DEF p, v

(* A request arrives as a request. *)
LEMMA ArrivedType ==
  ASSUME NEW o \in Header
  PROVE  Arrived(o) \in Header
<1>1. /\ o.op \in Octet /\ o.size \in Octet /\ o.majic \in Octet /\ o.address \in Octet
      /\ o.values \in [1..MAX_READWRITE_SIZE -> Octet]
  BY DEF Header
<1> DEFINE values == [i \in DOMAIN o.values |-> Blurred(o.values[i])]
<1>2. values \in [1..MAX_READWRITE_SIZE -> Octet]
  BY <1>1, BlurredIs
<1>3. /\ Blurred(o.op) \in Octet /\ Blurred(o.size) \in Octet
      /\ Blurred(o.majic) \in Octet /\ Blurred(o.address) \in Octet
  BY <1>1, BlurredIs
<1> HIDE DEF values
<1>4. Arrived(o) = [op |-> Blurred(o.op), size |-> Blurred(o.size),
                    majic |-> Blurred(o.majic), address |-> Blurred(o.address),
                    values |-> values]
  BY DEF Arrived, values
<1> QED BY <1>2, <1>3, <1>4 DEF Header

(* A payload that begins with the bytes of the request, as they arrive, is *)
(* the request as it arrives. readWriteProtocol.h:101-107.                 *)
LEMMA OperationIs ==
  ASSUME NEW o \in Header, NEW q \in Seq(Octet), OperationLength <= Len(q),
         \A i \in 1..OperationLength : q[i] = Blurred(PayloadBytes(o)[i])
  PROVE  Operation(q) = Arrived(o)
<1> DEFINE p == PayloadBytes(o)
           m == MAX_READWRITE_SIZE
<1>1. /\ p[1] = o.op /\ p[2] = o.size /\ p[3] = o.majic /\ p[4] = o.address
      /\ \A i \in 1..m : p[4 + i] = o.values[i]
  BY HeaderPayload
<1>2. m \in Nat /\ OperationLength = 4 + m
  BY ReadWriteAssumption DEF OperationLength
<1>3. \A i \in 1..OperationLength : q[i] = Blurred(p[i])
  OBVIOUS
<1> HIDE DEF p, m
<1>4. /\ q[1] = Blurred(o.op) /\ q[2] = Blurred(o.size)
      /\ q[3] = Blurred(o.majic) /\ q[4] = Blurred(o.address)
  <2>1. 1 \in 1..OperationLength /\ 2 \in 1..OperationLength /\ 3 \in 1..OperationLength
        /\ 4 \in 1..OperationLength
    BY <1>2
  <2> QED BY <1>1, <1>3, <2>1
<1> DEFINE s == SubSeq(q, 5, OperationLength)
           v == [i \in DOMAIN o.values |-> Blurred(o.values[i])]
<1>5. SubSeq(q, 4 + 1, 4 + m) \in [1..m -> Octet]
  BY <1>2, PartOf
<1>6. s \in [1..m -> Octet]
  BY <1>2, <1>5
<1>7. DOMAIN o.values = 1..m /\ o.values \in [1..m -> Octet]
  BY DEF Header, m
<1>8. ASSUME NEW i \in 1..m PROVE s[i] = v[i]
  <2>1. 4 + i \in 1..OperationLength
    BY <1>2
  <2>2. s[i] = q[4 + i]
    BY <1>2
  <2>3. q[4 + i] = Blurred(p[4 + i])
    BY <1>3, <2>1
  <2>4. v[i] = Blurred(o.values[i])
    BY <1>7
  <2> QED BY <1>1, <2>2, <2>3, <2>4
<1>9. v \in [1..m -> Octet]
  BY <1>7, BlurredIs
<1> HIDE DEF s, v
<1>10. s = v
  BY <1>2, <1>6, <1>8, <1>9, SameArray
<1>11. Arrived(o) = [op |-> Blurred(o.op), size |-> Blurred(o.size),
                     majic |-> Blurred(o.majic), address |-> Blurred(o.address),
                     values |-> v]
  BY DEF Arrived, v
<1> QED BY <1>4, <1>10, <1>11 DEF Operation, s

(* A frame, each part of it in its place; the payload comes out as the *)
(* framing blurs it. basicProtocol.h:186-216,269-297.                  *)
LEMMA FrameCarries ==
  ASSUME NEW to \in Octet, NEW from \in Octet, NEW p \in Seq(Octet),
         Len(Escaped(p)) <= PayloadMax
  PROVE  LET w == Packet(to, from, p)
         IN  /\ w \in Seq(Octet) /\ Len(w) = MAX_PACKET_LEN
             /\ w[1] = PACKET_SOP /\ w[2] = from /\ w[3] = to
             /\ w[MAX_PACKET_LEN] = PACKET_EOP
             /\ PayloadOf(w) \in Seq(Octet) /\ Len(PayloadOf(w)) = PayloadMax
             /\ Len(p) <= PayloadMax
             /\ \A i \in 1..Len(p) : PayloadOf(w)[i] = Blurred(p[i])
<1> DEFINE w == Packet(to, from, p)
           q == Escaped(p)
           rest == Padded(q)
           n == PayloadMax - Len(q)
           zeros == [i \in 1..n |-> 0]
           h == <<PACKET_SOP, from, to, 0>>
           crc == Crc(h \o rest)
           e == <<crc \div 256, crc % 256, PACKET_EOP>>
<1>1. q \in Seq(Octet)
  BY EscapedType DEF UpTo
<1>2. w \in Seq(Octet) /\ Len(w) = MAX_PACKET_LEN
  BY PacketType
<1>3. w = (h \o rest) \o e
  BY DEF Packet
<1> HIDE DEF q
<1>4. n \in Nat /\ Len(q) + n = PayloadMax /\ Len(q) \in Nat /\ PayloadMax \in Nat
      /\ Len(q) <= PayloadMax
  BY <1>1, PayloadAssumption DEF q
<1>5. rest = q \o zeros
  BY DEF Padded
<1> HIDE DEF n
<1>6. zeros \in Seq(Octet) /\ Len(zeros) = n
  BY <1>4, OctetsAre
<1> HIDE DEF zeros
<1>7. rest \in Seq(Octet) /\ Len(rest) = PayloadMax /\ \A i \in 1..Len(q) : rest[i] = q[i]
  <2>1. q \in Seq(Octet) /\ zeros \in Seq(Octet)
    BY <1>1, <1>6
  <2>2. /\ q \o zeros \in Seq(Octet) /\ Len(q \o zeros) = Len(q) + Len(zeros)
        /\ \A i \in 1..Len(q) : (q \o zeros)[i] = q[i]
    BY <2>1, Joined
  <2> QED BY <1>4, <1>5, <1>6, <2>2
<1> HIDE DEF rest
<1>9. /\ h \in Seq(Octet) /\ Len(h) = 4 /\ h[1] = PACKET_SOP /\ h[2] = from /\ h[3] = to
  BY DEF Octet, PACKET_SOP
<1>10. e \in Seq(Int \cup {crc \div 256, crc % 256}) /\ Len(e) = 3 /\ e[3] = PACKET_EOP
  BY DEF PACKET_EOP
<1> HIDE DEF h, crc, e, w
<1>11. /\ h \o rest \in Seq(Octet) /\ Len(h \o rest) = 4 + PayloadMax
       /\ \A i \in 1..4 : (h \o rest)[i] = h[i]
       /\ \A i \in 1..PayloadMax : (h \o rest)[4 + i] = rest[i]
  <2>1. /\ h \o rest \in Seq(Octet) /\ Len(h \o rest) = Len(h) + Len(rest)
        /\ \A i \in 1..Len(h) : (h \o rest)[i] = h[i]
        /\ \A i \in 1..Len(rest) : (h \o rest)[Len(h) + i] = rest[i]
    <3>1. h \in Seq(Octet) /\ rest \in Seq(Octet)
      BY <1>7, <1>9
    <3> QED BY <3>1, Joined
  <2> QED BY <1>7, <1>9, <2>1
<1> DEFINE b == h \o rest
<1> HIDE DEF b
<1>12. /\ \A i \in 1..4 + PayloadMax : w[i] = b[i]
       /\ w[4 + PayloadMax + 3] = e[3]
  <2>1. b \in Seq(Octet) /\ Len(b) = 4 + PayloadMax /\ w = b \o e
    BY <1>3, <1>11 DEF b
  <2> DEFINE T == Octet \cup (Int \cup {crc \div 256, crc % 256})
  <2>2. b \in Seq(T) /\ e \in Seq(T)
    BY <1>10, <2>1
  <2> HIDE DEF T
  <2>3. /\ \A i \in 1..4 + PayloadMax : w[i] = b[i]
        /\ \A i \in 1..3 : w[(4 + PayloadMax) + i] = e[i]
    <3>1. /\ \A i \in 1..Len(b) : (b \o e)[i] = b[i]
          /\ \A i \in 1..Len(e) : (b \o e)[Len(b) + i] = e[i]
      BY <2>2, Joined
    <3> QED BY <1>10, <2>1, <3>1
  <2>4. 3 \in 1..3 /\ 4 + PayloadMax + 3 = (4 + PayloadMax) + 3
    BY <1>4
  <2> QED BY <2>3, <2>4
<1>13. MAX_PACKET_LEN = 4 + PayloadMax + 3
  BY <1>4 DEF MAX_PACKET_LEN
<1>14. w[1] = PACKET_SOP /\ w[2] = from /\ w[3] = to /\ w[MAX_PACKET_LEN] = PACKET_EOP
  <2>1. \A i \in 1..4 : i \in 1..4 + PayloadMax
    BY <1>4
  <2>2. \A i \in 1..4 : w[i] = h[i]
    BY <1>11, <1>12, <2>1 DEF b
  <2> QED BY <1>9, <1>10, <1>12, <1>13, <2>2
<1> DEFINE raw == SubSeq(w, 5, PayloadMax + 4)
<1>15. raw \in Seq(Octet) /\ Len(raw) = PayloadMax /\ \A i \in 1..PayloadMax : raw[i] = w[4 + i]
  BY <1>2, <1>4, <1>13
<1> HIDE DEF raw
<1>16. ASSUME NEW i \in 1..PayloadMax PROVE raw[i] = rest[i]
  <2>1. 4 + i \in 1..4 + PayloadMax
    BY <1>4
  <2>2. raw[i] = w[4 + i]
    BY <1>15
  <2>3. w[4 + i] = b[4 + i]
    BY <1>12, <2>1
  <2>4. b[4 + i] = rest[i]
    BY <1>11 DEF b
  <2> QED BY <2>2, <2>3, <2>4
<1>17. \A i \in 1..Len(q) : raw[i] = q[i]
  <2>1. \A i \in 1..Len(q) : i \in 1..PayloadMax
    BY <1>4
  <2> QED BY <1>7, <1>16, <2>1
<1>18. Len(p) <= Len(raw) /\ \A i \in 1..Len(p) : Unescaped(raw)[i] = Blurred(p[i])
  <2>1. Len(q) <= Len(raw)
    BY <1>4, <1>15
  <2> QED BY <1>15, <1>17, <2>1, BlurredOnTheWay DEF q
<1>19. PayloadOf(w) = Unescaped(raw)
  BY DEF PayloadOf, raw
<1>20. Unescaped(raw) \in Seq(Octet) /\ Len(Unescaped(raw)) = PayloadMax
  BY <1>15, UnescapedType
<1> QED BY <1>2, <1>14, <1>15, <1>18, <1>19, <1>20 DEF w

(* A payload of the length of an operation fits into a frame, whatever it *)
(* holds. basicProtocol.h:193-203.                                        *)
LEMMA OperationFits ==
  ASSUME NEW p \in Seq(Octet), Len(p) = OperationLength
  PROVE  /\ Len(p) <= PayloadMax /\ Len(Escaped(p)) <= PayloadMax
         /\ OperationLength \in Nat /\ OperationLength <= PayloadMax /\ PayloadMax \in Nat
<1>1. Escaped(p) \in UpTo(2 * OperationLength)
  BY EscapedType
<1>2. 2 * OperationLength <= PayloadMax /\ OperationLength \in Nat /\ PayloadMax \in Nat
  BY ClientAssumption, ReadWriteAssumption, PayloadAssumption DEF OperationLength
<1> QED BY <1>1, <1>2 DEF UpTo

(* The client's frame for a request. *)
RequestFrame(o) == Packet(READ_WRITE_PROTOCOL_PORT, ClientPort, PayloadBytes(o))

(* The window that holds it is taken whole, for the read/write server, *)
(* who finds the request in it, blurred. basicProtocol.h:232-303.      *)
LEMMA RequestFrameIs ==
  ASSUME NEW o \in Header
  PROVE  LET w == RequestFrame(o)
         IN  /\ w \in Seq(Octet) /\ Len(w) = MAX_PACKET_LEN
             /\ Consumed(w) = MAX_PACKET_LEN /\ Complete(w)
             /\ w[2] = ClientPort /\ w[3] = READ_WRITE_PROTOCOL_PORT
             /\ Operation(PayloadOf(w)) = Arrived(o)
<1> DEFINE w == RequestFrame(o)
           p == PayloadBytes(o)
<1>1. p \in Seq(Octet) /\ Len(p) = OperationLength
  BY HeaderPayload
<1>2. /\ OperationLength \in Nat /\ OperationLength <= PayloadMax
      /\ Len(Escaped(p)) <= PayloadMax
  BY <1>1, OperationFits
<1>3. READ_WRITE_PROTOCOL_PORT \in Octet /\ ClientPort \in Octet /\ ClientPort < PORT_MAX
  BY ClientAssumption DEF READ_WRITE_PROTOCOL_PORT, Octet
<1> HIDE DEF p
<1>4. /\ w \in Seq(Octet) /\ Len(w) = MAX_PACKET_LEN
      /\ w[1] = PACKET_SOP /\ w[2] = ClientPort /\ w[3] = READ_WRITE_PROTOCOL_PORT
      /\ w[MAX_PACKET_LEN] = PACKET_EOP
      /\ PayloadOf(w) \in Seq(Octet) /\ Len(PayloadOf(w)) = PayloadMax
      /\ \A i \in 1..Len(p) : PayloadOf(w)[i] = Blurred(p[i])
  <2> DEFINE x == Packet(READ_WRITE_PROTOCOL_PORT, ClientPort, p)
  <2>1. /\ x \in Seq(Octet) /\ Len(x) = MAX_PACKET_LEN
        /\ x[1] = PACKET_SOP /\ x[2] = ClientPort /\ x[3] = READ_WRITE_PROTOCOL_PORT
        /\ x[MAX_PACKET_LEN] = PACKET_EOP
        /\ PayloadOf(x) \in Seq(Octet) /\ Len(PayloadOf(x)) = PayloadMax
        /\ \A i \in 1..Len(p) : PayloadOf(x)[i] = Blurred(p[i])
    <3>1. READ_WRITE_PROTOCOL_PORT \in Octet /\ ClientPort \in Octet
      BY <1>3
    <3>2. p \in Seq(Octet) /\ Len(Escaped(p)) <= PayloadMax
      BY <1>1, <1>2
    <3> QED BY <3>1, <3>2, FrameCarries
  <2>2. w = x
    BY DEF RequestFrame, p
  <2> HIDE DEF w, x
  <2> QED BY <2>1, <2>2
<1> HIDE DEF w
<1>5. Operation(PayloadOf(w)) = Arrived(o)
  <2>1. OperationLength <= Len(PayloadOf(w))
    BY <1>2, <1>4
  <2>2. \A i \in 1..OperationLength : PayloadOf(w)[i] = Blurred(PayloadBytes(o)[i])
    BY <1>1, <1>4 DEF p
  <2> QED BY <1>4, <2>1, <2>2, OperationIs
<1>6. isValidPort(w[2]) /\ isValidPort(w[3])
  BY <1>3, <1>4 DEF isValidPort, READ_WRITE_PROTOCOL_PORT, PORT_MAX, ESC_PACKET
<1>7. Consumed(w) = MAX_PACKET_LEN
  BY <1>4, <1>6 DEF Consumed
<1> QED BY <1>4, <1>5, <1>7 DEF w, Complete

(* The first place where the test is passed, when the others fail. *)
LEMMA OneIsLeast ==
  ASSUME NEW I \in SUBSET Nat, 1 \in I, \A i \in I : 1 <= i
  PROVE  Min(I) = 1
<1>1. \E x \in I : \A y \in I : x =< y
  OBVIOUS
<1> DEFINE m == Min(I)
<1>2. m \in I /\ \A y \in I : m =< y
  BY <1>1 DEF Min
<1> HIDE DEF m
<1>3. m \in Nat /\ m =< 1 /\ 1 <= m
  BY <1>2
<1> QED BY <1>3 DEF m

(* The read/write server is the callback of its port. *)
(* readWriteProtocol.h:84-88, basicProtocol.h:159-172,258-265. *)
LEMMA ServerIsCalled ==
  CallbackOf(CallbackList, READ_WRITE_PROTOCOL_PORT) = ReadWriteServer
<1> DEFINE free == [toPort |-> BROADCAST_PORT, callback |-> NoCallback]
           ours == [toPort |-> READ_WRITE_PROTOCOL_PORT, callback |-> ReadWriteServer]
           list == [EmptyList EXCEPT ![1] = ours]
<1>1. MAX_PORTS \in Nat /\ MAX_PORTS > 0 /\ 1 \in 1..MAX_PORTS
  BY ProtocolAssumption
<1>2. /\ EmptyList = [i \in 1..MAX_PORTS |-> free]
      /\ free.toPort = BROADCAST_PORT /\ ours.toPort = READ_WRITE_PROTOCOL_PORT
      /\ ours.callback = ReadWriteServer
  BY DEF EmptyList
<1>3. BROADCAST_PORT # READ_WRITE_PROTOCOL_PORT /\ ReadWriteServer # NoCallback
  BY DEF BROADCAST_PORT, READ_WRITE_PROTOCOL_PORT, ReadWriteServer, NoCallback
<1> HIDE DEF free, ours
<1>4. /\ EmptyList \in [1..MAX_PORTS -> {free}] /\ list \in [1..MAX_PORTS -> {free, ours}]
      /\ \A i \in 1..MAX_PORTS : EmptyList[i] = free
      /\ list[1] = ours /\ \A i \in 1..MAX_PORTS : i # 1 => list[i] = free
  BY <1>1, <1>2
<1>5. Len(EmptyList) = MAX_PORTS /\ Len(list) = MAX_PORTS
  BY <1>1, <1>4, LengthOfWindow
<1> HIDE DEF list
<1>6. CallbackList = list
  <2> DEFINE I == {i \in 1..MAX_PORTS : EmptyList[i].toPort = BROADCAST_PORT}
  <2>1. I = 1..MAX_PORTS
    BY <1>2, <1>4
  <2>2. Min(I) = 1 /\ I # {}
    BY <1>1, <2>1, OneIsLeast
  <2> HIDE DEF I
  <2>3. SelectInSeq(EmptyList, LAMBDA entry : entry.toPort = BROADCAST_PORT) = 1
    BY <1>5, <2>2 DEF SelectInSeq, I
  <2>4. CallbackList
          = (IF SelectInSeq(EmptyList, LAMBDA entry : entry.toPort = BROADCAST_PORT) = 0
             THEN EmptyList
             ELSE [EmptyList EXCEPT
                     ![SelectInSeq(EmptyList, LAMBDA entry : entry.toPort = BROADCAST_PORT)]
                       = ours])
    BY DEF CallbackList, Post, ours
  <2>5. 1 # 0
    OBVIOUS
  <2> DEFINE sel == SelectInSeq(EmptyList, LAMBDA entry : entry.toPort = BROADCAST_PORT)
  <2>6. sel = 1
    BY <2>3
  <2>7. CallbackList = (IF sel = 0 THEN EmptyList ELSE [EmptyList EXCEPT ![sel] = ours])
    BY <2>4
  <2> HIDE DEF sel
  <2> QED BY <2>5, <2>6, <2>7 DEF list
<1>7. CallbackOf(list, READ_WRITE_PROTOCOL_PORT) = ReadWriteServer
  <2> DEFINE I == {i \in 1..MAX_PORTS : list[i].toPort = READ_WRITE_PROTOCOL_PORT
                                        /\ list[i].callback # NoCallback}
  <2>1. I = {1}
    BY <1>1, <1>2, <1>3, <1>4
  <2>2. Min(I) = 1 /\ I # {}
    BY <2>1, OneIsLeast
  <2> HIDE DEF I
  <2>3. SelectInSeq(list, LAMBDA e : e.toPort = READ_WRITE_PROTOCOL_PORT
                                     /\ e.callback # NoCallback) = 1
    BY <1>5, <2>2 DEF SelectInSeq, I
  <2> QED BY <1>2, <1>4, <2>3 DEF CallbackOf
<1> QED BY <1>6, <1>7

-----------------------------------------------------------------------------
(* The bytes q are the frames of the requests s, one behind the other, and *)
(* at[k] is where frame k ends.                                            *)
Carries(q, at, s) ==
  /\ q \in Seq(Octet)
  /\ at \in [0..Len(s) -> Nat] /\ at[Len(s)] = Len(q)
  /\ \A k \in 1..Len(s) :
       at[k] = at[k - 1] + MAX_PACKET_LEN /\ Holds(q, at[k - 1], RequestFrame(s[k]))

(* From the n-th on, q is what is in the ring, what is left of the *)
(* datagram being handled, the datagrams that wait and what the    *)
(* client has still to send.                                       *)
OnTheWay(q, n, ring, buffer, box, rest) ==
  \E m : /\ Holds(q, n, ring)
         /\ Holds(q, n + Len(ring), buffer)
         /\ Between(q, (n + Len(ring)) + Len(buffer), box, m)
         /\ Holds(q, m, rest) /\ m + Len(rest) = Len(q)

(* The parts are sequences of bytes. *)
Parts(ring, buffer, box, rest) ==
  ring \in Seq(Octet) /\ buffer \in Seq(Octet) /\ box \in Seq(Seq(Octet)) /\ rest \in Seq(Octet)

(* Something holds nothing at its end. *)
LEMMA HoldsNone ==
  ASSUME NEW q, NEW n \in Nat, n <= Len(q)
  PROVE  Holds(q, n, <<>>)
<1>1. Len(<<>>) = 0 /\ 1..0 = {} /\ n + 0 = n
  OBVIOUS
<1> QED BY <1>1, Zenon DEF Holds

(* The client cuts a piece off its frame. *)
LEMMA PieceLeaves ==
  ASSUME NEW q \in Seq(Octet), NEW n, NEW ring, NEW buffer, NEW box, NEW rest,
         Parts(ring, buffer, box, rest), OnTheWay(q, n, ring, buffer, box, rest),
         NEW k \in 0..Len(rest)
  PROVE  OnTheWay(q, n, ring, buffer, Append(box, SubSeq(rest, 1, k)),
                  SubSeq(rest, k + 1, Len(rest)))
<1> DEFINE a == SubSeq(rest, 1, k)
           b == SubSeq(rest, k + 1, Len(rest))
<1>1. PICK m : /\ Holds(q, n, ring)
               /\ Holds(q, n + Len(ring), buffer)
               /\ Between(q, (n + Len(ring)) + Len(buffer), box, m)
               /\ Holds(q, m, rest) /\ m + Len(rest) = Len(q)
  BY DEF OnTheWay
<1>2. rest \in Seq(Octet) /\ box \in Seq(Seq(Octet))
  BY DEF Parts
<1>3. Holds(q, m, a) /\ Holds(q, m + k, b)
  BY <1>1, <1>2, HoldsParts
<1>4. a \in Seq(Octet) /\ Len(a) = k /\ Len(b) = Len(rest) - k
  BY <1>2
<1> HIDE DEF a, b
<1>5. Between(q, (n + Len(ring)) + Len(buffer), Append(box, a), m + Len(a))
  BY <1>1, <1>2, <1>3, <1>4, BetweenAppend
<1>6. m \in Nat /\ Len(rest) \in Nat
  BY <1>1, <1>2 DEF Holds
<1>7. (m + k) + Len(b) = Len(q) /\ m + Len(a) = m + k
  BY <1>1, <1>4, <1>6
<1>8. OnTheWay(q, n, ring, buffer, Append(box, a), b)
  BY <1>1, <1>3, <1>5, <1>7, Zenon DEF OnTheWay
<1> QED BY <1>8 DEF a, b

(* The oldest datagram is handled. *)
LEMMA DatagramTaken ==
  ASSUME NEW q \in Seq(Octet), NEW n, NEW ring, NEW box, NEW rest, box # <<>>,
         Parts(ring, <<>>, box, rest), OnTheWay(q, n, ring, <<>>, box, rest)
  PROVE  OnTheWay(q, n, ring, Head(box), Tail(box), rest)
<1>1. PICK m : /\ Holds(q, n, ring)
               /\ Holds(q, n + Len(ring), <<>>)
               /\ Between(q, (n + Len(ring)) + Len(<<>>), box, m)
               /\ Holds(q, m, rest) /\ m + Len(rest) = Len(q)
  BY DEF OnTheWay
<1>2. n \in Nat /\ Len(ring) \in Nat /\ Len(<<>>) = 0
  BY <1>1 DEF Holds, Parts
<1>3. (n + Len(ring)) + Len(<<>>) = n + Len(ring)
  BY <1>2
<1>4. box \in Seq(Seq(Octet))
  BY DEF Parts
<1> DEFINE z == n + Len(ring)
<1>5. Between(q, z, box, m)
  BY <1>1, <1>3
<1> HIDE DEF z
<1>6. Holds(q, z, Head(box)) /\ Between(q, z + Len(Head(box)), Tail(box), m)
  BY <1>4, <1>5, BetweenTail
<1> QED BY <1>1, <1>6, Zenon DEF OnTheWay, z

(* A byte goes into the ring. *)
LEMMA ByteTaken ==
  ASSUME NEW q \in Seq(Octet), NEW n, NEW ring, NEW buffer, NEW box, NEW rest,
         buffer # <<>>,
         Parts(ring, buffer, box, rest), OnTheWay(q, n, ring, buffer, box, rest)
  PROVE  OnTheWay(q, n, Append(ring, Head(buffer)), Tail(buffer), box, rest)
<1> DEFINE x == Head(buffer)
           t == Tail(buffer)
           r == Append(ring, x)
<1>1. PICK m : /\ Holds(q, n, ring)
               /\ Holds(q, n + Len(ring), buffer)
               /\ Between(q, (n + Len(ring)) + Len(buffer), box, m)
               /\ Holds(q, m, rest) /\ m + Len(rest) = Len(q)
  BY DEF OnTheWay
<1>2. ring \in Seq(Octet) /\ buffer \in Seq(Octet)
  BY DEF Parts
<1> DEFINE z == n + Len(ring)
<1>3. z + 1 <= Len(q) /\ x = q[z + 1] /\ Holds(q, z + 1, t) /\ Len(t) = Len(buffer) - 1
  <2>1. Holds(q, z, buffer)
    BY <1>1
  <2> HIDE DEF z
  <2> QED BY <1>2, <2>1, HoldsTail
<1>4. n \in Nat /\ Len(ring) \in Nat /\ Len(buffer) \in Nat
  BY <1>1, <1>2 DEF Holds
<1>5. Holds(q, n, r) /\ Len(r) = Len(ring) + 1
  <2>1. n + Len(ring) + 1 <= Len(q) /\ x = q[n + Len(ring) + 1]
    BY <1>3
  <2> HIDE DEF x
  <2> QED BY <1>1, <1>2, <2>1, HoldsNext, LenAppend
<1> HIDE DEF x, t, r, z
<1>6. n + Len(r) = z + 1 /\ (n + Len(r)) + Len(t) = (n + Len(ring)) + Len(buffer)
  BY <1>3, <1>4, <1>5 DEF z
<1>7. OnTheWay(q, n, r, t, box, rest)
  BY <1>1, <1>3, <1>5, <1>6, Zenon DEF OnTheWay
<1> QED BY <1>7 DEF r, t, x

(* A frame is taken out of the ring. *)
LEMMA FrameTaken ==
  ASSUME NEW q \in Seq(Octet), NEW n, NEW ring, NEW buffer, NEW box, NEW rest,
         Parts(ring, buffer, box, rest), OnTheWay(q, n, ring, buffer, box, rest)
  PROVE  OnTheWay(q, n + Len(ring), <<>>, buffer, box, rest)
<1>1. PICK m : /\ Holds(q, n, ring)
               /\ Holds(q, n + Len(ring), buffer)
               /\ Between(q, (n + Len(ring)) + Len(buffer), box, m)
               /\ Holds(q, m, rest) /\ m + Len(rest) = Len(q)
  BY DEF OnTheWay
<1> DEFINE z == n + Len(ring)
<1>2. z \in Nat /\ z <= Len(q)
  <2>1. n \in Nat /\ n + Len(ring) <= Len(q) /\ Len(ring) \in Nat
    BY <1>1 DEF Holds, Parts
  <2> QED BY <2>1
<1> HIDE DEF z
<1>3. Holds(q, z, <<>>)
  BY <1>2, HoldsNone
<1>4. Len(<<>>) = 0 /\ z + 0 = z
  BY <1>2
<1> QED BY <1>1, <1>3, <1>4, Zenon DEF OnTheWay, z

(* Where the frames end, they do not end after the bytes. *)
LEMMA LastFrameEnds ==
  ASSUME NEW q, NEW at, NEW s \in Seq(Header), Carries(q, at, s), NEW e \in 0..Len(s)
  PROVE  at[e] \in Nat /\ at[e] <= Len(q)
<1> DEFINE n == Len(s)
           T == {i \in Nat : i <= n => at[n - i] <= at[n]}
<1>1. /\ n \in Nat /\ at \in [0..n -> Nat] /\ at[n] = Len(q)
      /\ \A k \in 1..n : at[k] = at[k - 1] + MAX_PACKET_LEN
  BY DEF Carries
<1>2. MAX_PACKET_LEN \in Nat
  BY PayloadAssumption DEF MAX_PACKET_LEN
<1> HIDE DEF n
<1>3. 0 \in T
  <2>1. n - 0 = n /\ n \in 0..n
    BY <1>1
  <2>2. at[n] \in Nat
    BY <1>1, <2>1
  <2>3. at[n - 0] <= at[n]
    BY <2>1, <2>2
  <2> QED BY <2>3
<1>4. ASSUME NEW i \in Nat, i \in T PROVE i + 1 \in T
  <2> SUFFICES ASSUME i + 1 <= n PROVE at[n - (i + 1)] <= at[n]
    OBVIOUS
  <2>1. n - i \in 1..n /\ (n - i) - 1 = n - (i + 1) /\ n - (i + 1) \in 0..n /\ n \in 0..n
        /\ n - i \in 0..n
    BY <1>1
  <2>2. at[n - i] <= at[n]
    BY <1>1, <1>4
  <2>3. at[n - i] = at[n - (i + 1)] + MAX_PACKET_LEN
    BY <1>1, <2>1
  <2>4. at[n - i] \in Nat /\ at[n - (i + 1)] \in Nat /\ at[n] \in Nat
    BY <1>1, <2>1
  <2> QED BY <1>2, <2>2, <2>3, <2>4
<1> HIDE DEF T
<1>5. n - e \in Nat /\ n - e <= n /\ n - (n - e) = e
  BY <1>1 DEF n
<1>6. n - e \in T
  BY <1>3, <1>4, <1>5, Induction
<1>7. at[n - (n - e)] <= at[n]
  BY <1>5, <1>6 DEF T
<1>8. e \in 0..n
  BY DEF n
<1> QED BY <1>1, <1>5, <1>7, <1>8

(* A full window at the end of a frame is the next frame. *)
LEMMA WindowIsFrame ==
  ASSUME NEW q, NEW at, NEW s \in Seq(Header), Carries(q, at, s), NEW e \in 0..Len(s),
         NEW w \in Seq(Octet), Len(w) = MAX_PACKET_LEN, Holds(q, at[e], w)
  PROVE  /\ e + 1 \in 1..Len(s) /\ w = RequestFrame(s[e + 1])
         /\ at[e + 1] = at[e] + MAX_PACKET_LEN
<1> DEFINE n == Len(s)
<1>1. /\ n \in Nat /\ at \in [0..n -> Nat] /\ at[n] = Len(q) /\ q \in Seq(Octet)
      /\ \A k \in 1..n : at[k] = at[k - 1] + MAX_PACKET_LEN
                         /\ Holds(q, at[k - 1], RequestFrame(s[k]))
  BY DEF Carries
<1>2. MAX_PACKET_LEN \in Nat /\ MAX_PACKET_LEN > 0
  BY PayloadAssumption DEF MAX_PACKET_LEN
<1>3. at[e] + MAX_PACKET_LEN <= Len(q) /\ at[e] \in Nat
  BY DEF Holds
<1>4. e # n
  <2> SUFFICES ASSUME e = n PROVE FALSE
    OBVIOUS
  <2>1. at[e] = Len(q)
    BY <1>1
  <2> QED BY <1>2, <1>3, <2>1
<1>5. e + 1 \in 1..n /\ (e + 1) - 1 = e
  BY <1>1, <1>4
<1>6. at[e + 1] = at[e] + MAX_PACKET_LEN /\ Holds(q, at[e], RequestFrame(s[e + 1]))
  <2> HIDE DEF Holds
  <2> QED BY <1>1, <1>5
<1>7. s[e + 1] \in Header
  BY <1>5
<1>8. RequestFrame(s[e + 1]) \in Seq(Octet) /\ Len(RequestFrame(s[e + 1])) = MAX_PACKET_LEN
  BY <1>7, RequestFrameIs
<1> DEFINE f == RequestFrame(s[e + 1])
           a == at[e]
<1>9. Len(f) = Len(w) /\ f \in Seq(Octet) /\ Holds(q, a, f) /\ Holds(q, a, w)
  BY <1>6, <1>8
<1> HIDE DEF f, a
<1>10. w = f
  BY <1>1, <1>9, HoldsSame
<1> QED BY <1>5, <1>6, <1>10 DEF f

(* The client has a request more to send. *)
LEMMA FrameAsked ==
  ASSUME NEW q, NEW at, NEW s \in Seq(Header), Carries(q, at, s), NEW e \in 0..Len(s),
         NEW o \in Header, NEW ring, NEW buffer, NEW box,
         Parts(ring, buffer, box, <<>>), OnTheWay(q, at[e], ring, buffer, box, <<>>)
  PROVE  \E r, new : /\ Carries(r, new, Append(s, o))
                     /\ OnTheWay(r, new[e], ring, buffer, box, RequestFrame(o))
<1> DEFINE n == Len(s)
           f == RequestFrame(o)
           r == q \o f
           new == [k \in 0..n + 1 |-> IF k <= n THEN at[k] ELSE Len(q) + MAX_PACKET_LEN]
           t == Append(s, o)
<1>1. /\ n \in Nat /\ at \in [0..n -> Nat] /\ at[n] = Len(q) /\ q \in Seq(Octet)
      /\ \A k \in 1..n : at[k] = at[k - 1] + MAX_PACKET_LEN
                         /\ Holds(q, at[k - 1], RequestFrame(s[k]))
  BY DEF Carries
<1>2. f \in Seq(Octet) /\ Len(f) = MAX_PACKET_LEN
  BY RequestFrameIs
<1>3. MAX_PACKET_LEN \in Nat /\ Len(q) \in Nat
  BY <1>1, PayloadAssumption DEF MAX_PACKET_LEN
<1>4. \A k \in 1..n : RequestFrame(s[k]) \in Seq(Octet)
  <2>1. \A k \in 1..n : s[k] \in Header
    OBVIOUS
  <2> QED BY <2>1, RequestFrameIs
<1>5. Len(t) = n + 1 /\ \A k \in 1..n + 1 : t[k] = IF k <= n THEN s[k] ELSE o
  BY AppendIs
<1> HIDE DEF f, t, n
<1>6. r \in Seq(Octet) /\ Len(r) = Len(q) + MAX_PACKET_LEN
  <2>1. q \in Seq(Octet) /\ f \in Seq(Octet)
    BY <1>1, <1>2
  <2>2. q \o f \in Seq(Octet) /\ Len(q \o f) = Len(q) + Len(f)
    BY <2>1, Joined
  <2> QED BY <1>2, <2>2
<1>7. Holds(r, Len(q), f)
  <2>1. \A i \in 1..Len(f) : (q \o f)[Len(q) + i] = f[i]
    <3>1. q \in Seq(Octet) /\ f \in Seq(Octet)
      BY <1>1, <1>2
    <3> QED BY <3>1, Joined
  <2> QED BY <1>2, <1>3, <1>6, <2>1 DEF Holds
<1>8. \A k \in 1..n : Holds(r, at[k - 1], RequestFrame(s[k]))
  BY <1>1, <1>2, <1>4, HoldsMore
<1>9. /\ new \in [0..n + 1 -> Nat] /\ new[n + 1] = Len(q) + MAX_PACKET_LEN
      /\ \A k \in 0..n : new[k] = at[k]
  BY <1>1, <1>3
<1> HIDE DEF r, new
<1>10. ASSUME NEW k \in 1..n + 1
       PROVE  new[k] = new[k - 1] + MAX_PACKET_LEN /\ Holds(r, new[k - 1], RequestFrame(t[k]))
  <2>1. CASE k <= n
    <3>1. k \in 1..n /\ k \in 0..n /\ k - 1 \in 0..n
      BY <1>1, <2>1
    <3>2. new[k] = at[k] /\ new[k - 1] = at[k - 1] /\ t[k] = s[k]
      BY <1>5, <1>9, <2>1, <3>1
    <3>3. at[k] = at[k - 1] + MAX_PACKET_LEN
      BY <1>1, <3>1
    <3>4. Holds(r, at[k - 1], RequestFrame(s[k]))
      BY <1>8, <3>1
    <3> QED BY <3>2, <3>3, <3>4
  <2>2. CASE ~(k <= n)
    <3>1. k = n + 1 /\ k - 1 = n /\ n \in 0..n
      BY <1>1, <2>2
    <3>2. new[k] = Len(q) + MAX_PACKET_LEN /\ new[k - 1] = Len(q) /\ t[k] = o
      BY <1>1, <1>5, <1>9, <2>2, <3>1
    <3> HIDE DEF Holds
    <3> QED BY <1>7, <3>2 DEF f
  <2> QED BY <2>1, <2>2
<1>11. Carries(r, new, t)
  <2> HIDE DEF Holds
  <2>1. new[n + 1] = Len(r)
    BY <1>6, <1>9
  <2> QED BY <1>5, <1>6, <1>9, <1>10, <2>1 DEF Carries
<1>12. new[e] = at[e]
  BY <1>9 DEF n
<1>13. PICK m : /\ Holds(q, at[e], ring)
                /\ Holds(q, at[e] + Len(ring), buffer)
                /\ Between(q, (at[e] + Len(ring)) + Len(buffer), box, m)
                /\ Holds(q, m, <<>>) /\ m + Len(<<>>) = Len(q)
  BY DEF OnTheWay
<1>14. m = Len(q)
  <2>1. m \in Nat /\ Len(<<>>) = 0
    BY <1>13 DEF Holds
  <2> QED BY <1>13, <2>1
<1> DEFINE a == at[e]
<1>15. ring \in Seq(Octet) /\ buffer \in Seq(Octet) /\ box \in Seq(Seq(Octet))
  BY DEF Parts
<1>16. /\ Holds(r, a, ring) /\ Holds(r, a + Len(ring), buffer)
       /\ Between(r, (a + Len(ring)) + Len(buffer), box, Len(q))
  <2>1. Holds(q, a, ring) /\ Holds(q, a + Len(ring), buffer)
        /\ Between(q, (a + Len(ring)) + Len(buffer), box, Len(q))
    BY <1>13, <1>14
  <2> HIDE DEF a
  <2> QED BY <1>1, <1>2, <1>15, <2>1, HoldsMore, BetweenMore DEF r
<1>17. Len(q) + Len(f) = Len(r)
  BY <1>2, <1>6
<1> HIDE DEF a
<1>18. OnTheWay(r, a, ring, buffer, box, f)
  BY <1>7, <1>16, <1>17, Zenon DEF OnTheWay
<1> QED BY <1>11, <1>12, <1>18 DEF f, t, a

-----------------------------------------------------------------------------
(* What the client has asked for. *)
SentHeaders == sent \in Seq(Header)

(* The operations carried out are the first of those asked for, as they *)
(* arrive.                                                              *)
InOrder(done, asked) ==
  /\ done \in Seq(Header) /\ Len(done) <= Len(asked)
  /\ \A k \in 1..Len(done) : done[k] = Arrived(asked[k])

(* The frames of the others are on their way to the ring or in it, and *)
(* nothing else.                                                       *)
InTransit(asked, done, ring, buffer, box, rest) ==
  \E q, at : Carries(q, at, asked) /\ OnTheWay(q, at[Len(done)], ring, buffer, box, rest)

(* As long as there was no fault. *)
Undisturbed ==
  /\ InOrder(executed, sent)
  /\ InTransit(sent, executed, Contents(rxRB), rxBuffer, inbox, unsent)

(* The window that a byte completes. basicProtocol.h:305-325. *)
LEMMA WindowOf ==
  ASSUME RingInv, Contents(rxRB) \in Seq(Octet), NEW byte \in Octet
  PROVE  LET w == Append(Contents(rxRB), byte)
         IN  /\ Contents(Pushed(byte)) = w /\ w \in Seq(Octet)
             /\ Len(w) <= MAX_PACKET_LEN
             /\ Filled(byte) <=> Len(w) = MAX_PACKET_LEN
<1> DEFINE w == Append(Contents(rxRB), byte)
<1>1. RingOK(rxRB) /\ rxRB.size < RingSize /\ rxRB.size \in Nat /\ rxRB.size < MAX_PACKET_LEN
      /\ MAX_PACKET_LEN \in Nat
  BY PayloadAssumption, ProtocolAssumption, SMT DEF RingInv, RingOK, MAX_PACKET_LEN
<1>2. /\ Contents(Pushed(byte)) = w /\ Pushed(byte).size = rxRB.size + 1
  BY <1>1, PushAppends DEF Pushed
<1>3. w \in Seq(Octet)
  OBVIOUS
<1>4. Len(Contents(rxRB)) = rxRB.size
  <2>1. Contents(rxRB) \in [1..rxRB.size -> {Peek(rxRB, k - 1) : k \in 1..rxRB.size}]
    BY Zenon DEF Contents
  <2> QED BY <1>1, <2>1, LengthOfWindow
<1>5. Len(w) = rxRB.size + 1
  BY <1>4, LenAppend
<1> HIDE DEF w
<1>6. Len(w) <= MAX_PACKET_LEN
  BY <1>1, <1>5
<1> QED BY <1>2, <1>3, <1>5, <1>6 DEF w, Filled

(* A byte of an undisturbed stream: it completes the next request, which is *)
(* served, or it is collected.                                              *)
LEMMA ByteOfStream ==
  ASSUME RingInv, BytesArrive, SentHeaders, Undisturbed, OnRecv
  PROVE  /\ Served =>
              /\ Len(executed) + 1 \in 1..Len(sent)
              /\ Operation(Payload(Head(rxBuffer))) = Arrived(sent[Len(executed) + 1])
              /\ FromPort(Head(rxBuffer)) = ClientPort
              /\ InTransit(sent, Append(executed, Arrived(sent[Len(executed) + 1])),
                           Contents(rxRB'), rxBuffer', inbox, unsent)
         /\ ~Served =>
              InTransit(sent, executed, Contents(rxRB'), rxBuffer', inbox, unsent)
<1> DEFINE byte == Head(rxBuffer)
           w == Append(Contents(rxRB), byte)
           e == Len(executed)
<1>1. /\ rxBuffer # <<>> /\ rxBuffer' = Tail(rxBuffer) /\ ReceiveByte(byte)
  BY DEF OnRecv, Handling, NextByte
<1>2. byte \in Octet /\ Contents(rxRB) \in Seq(Octet)
  BY <1>1 DEF BytesArrive
<1>3. Parts(Contents(rxRB), rxBuffer, inbox, unsent)
  BY DEF BytesArrive, Parts
<1>4. e \in 0..Len(sent) /\ sent \in Seq(Header) /\ executed \in Seq(Header)
  BY DEF Undisturbed, InOrder, SentHeaders
<1>5. PICK q, at : /\ Carries(q, at, sent)
                   /\ OnTheWay(q, at[e], Contents(rxRB), rxBuffer, inbox, unsent)
  BY DEF Undisturbed, InTransit
<1>6. /\ Contents(Pushed(byte)) = w /\ w \in Seq(Octet) /\ Len(w) <= MAX_PACKET_LEN
      /\ Filled(byte) <=> Len(w) = MAX_PACKET_LEN
  BY <1>2, WindowOf
<1>7. Contents(rxRB') = IF Len(w) < MAX_PACKET_LEN THEN w ELSE SubSeq(w, Consumed(w) + 1, Len(w))
  BY <1>1, ByteSlides
<1>8. q \in Seq(Octet)
  BY <1>5 DEF Carries
<1>9. OnTheWay(q, at[e], w, Tail(rxBuffer), inbox, unsent)
  BY <1>1, <1>3, <1>5, <1>8, ByteTaken
<1>10. Parts(w, Tail(rxBuffer), inbox, unsent)
  BY <1>1, <1>3, <1>6 DEF Parts
<1>11. MAX_PACKET_LEN \in Nat /\ Len(w) \in Nat
  BY <1>6, PayloadAssumption DEF MAX_PACKET_LEN
<1> HIDE DEF w, byte, e
<1>12. CASE Len(w) < MAX_PACKET_LEN
  <2>1. ~Filled(byte)
    BY <1>6, <1>11, <1>12
  <2>2. ~Served
    BY <2>1 DEF Served, Calls, ReadWriteServer, NoCallback, byte
  <2>3. Contents(rxRB') = w
    BY <1>7, <1>12
  <2>4. OnTheWay(q, at[e], Contents(rxRB'), rxBuffer', inbox, unsent)
    BY <1>1, <1>9, <2>3
  <2>5. InTransit(sent, executed, Contents(rxRB'), rxBuffer', inbox, unsent)
    BY <1>5, <2>4 DEF InTransit, e
  <2> QED BY <2>2, <2>5
<1>13. CASE Len(w) = MAX_PACKET_LEN
  <2>1. Holds(q, at[e], w)
    BY <1>9 DEF OnTheWay
  <2>2. /\ e + 1 \in 1..Len(sent) /\ w = RequestFrame(sent[e + 1])
        /\ at[e + 1] = at[e] + MAX_PACKET_LEN
    BY <1>4, <1>5, <1>6, <1>13, <2>1, WindowIsFrame
  <2>3. sent[e + 1] \in Header
    BY <1>4, <2>2
  <2>4. /\ Consumed(w) = MAX_PACKET_LEN /\ Complete(w)
        /\ w[2] = ClientPort /\ w[3] = READ_WRITE_PROTOCOL_PORT
        /\ Operation(PayloadOf(w)) = Arrived(sent[e + 1])
    BY <2>2, <2>3, RequestFrameIs
  <2>5. Calls(byte, CallbackList) = ReadWriteServer
    BY <1>6, <1>13, <2>4, ServerIsCalled DEF Calls
  <2>6. Served
    BY <2>5 DEF Served, byte
  <2>7. Contents(rxRB') = <<>>
    <3>1. SubSeq(w, MAX_PACKET_LEN + 1, MAX_PACKET_LEN) = <<>>
      BY <1>6, <1>11
    <3>2. ~(Len(w) < MAX_PACKET_LEN)
      BY <1>11, <1>13
    <3> QED BY <1>7, <1>13, <2>4, <3>1, <3>2
  <2>8. OnTheWay(q, at[e] + Len(w), <<>>, Tail(rxBuffer), inbox, unsent)
    BY <1>8, <1>9, <1>10, FrameTaken
  <2>9. OnTheWay(q, at[e + 1], Contents(rxRB'), rxBuffer', inbox, unsent)
    BY <1>1, <1>13, <2>2, <2>7, <2>8
  <2>10. Len(Append(executed, Arrived(sent[e + 1]))) = e + 1
    <3>1. Arrived(sent[e + 1]) \in Header
      BY <2>3, ArrivedType
    <3> QED BY <1>4, <3>1, LenAppend DEF e
  <2>11. InTransit(sent, Append(executed, Arrived(sent[e + 1])),
                  Contents(rxRB'), rxBuffer', inbox, unsent)
    BY <1>5, <2>9, <2>10 DEF InTransit
  <2> QED BY <1>6, <2>2, <2>4, <2>6, <2>11 DEF e, byte, Payload, FromPort
<1> QED BY <1>6, <1>11, <1>12, <1>13

(* The client's requests are headers of bytes. *)
LEMMA AskedHeader ==
  ASSUME SentHeaders, NEW r \in Request, ClientAsks(r)
  PROVE  \E o \in Header :
           /\ sent' = Append(sent, o) /\ unsent = <<>> /\ unsent' = RequestFrame(o)
           /\ SentHeaders'
<1> DEFINE o == [op |-> r.op, size |-> r.size, majic |-> Len(sent) + 1,
                 address |-> r.address, values |-> r.values]
<1>1. /\ sent' = Append(sent, o) /\ Len(sent) < MaxRequests /\ unsent = <<>>
      /\ unsent' = RequestFrame(o)
  BY DEF ClientAsks, RequestFrame
<1>2. Len(sent) \in Nat /\ sent \in Seq(Header)
  BY DEF SentHeaders
<1>3. Len(sent) + 1 \in Octet
  <2>1. MaxRequests \in Nat /\ MaxRequests < ESC_PACKET
    BY ClientAssumption
  <2> QED BY <1>1, <1>2, <2>1, OctetsAre DEF ESC_PACKET
<1>4. /\ r.op \in Octet /\ r.size \in Octet /\ r.address \in Octet
      /\ r.values \in [1..MAX_READWRITE_SIZE -> Octet]
  <2>1. r \in [op : {ContiguousRead, ContiguousWrite}, size : Octet, address : Octet,
               values : [1..MAX_READWRITE_SIZE -> Octet]]
    BY ClientAssumption
  <2>2. ContiguousRead \in Octet /\ ContiguousWrite \in Octet
    BY DEF ContiguousRead, ContiguousWrite, Octet
  <2> QED BY <2>1, <2>2
<1>5. o \in Header
  BY <1>3, <1>4 DEF Header
<1> HIDE DEF o
<1>6. sent' \in Seq(Header)
  BY <1>1, <1>2, <1>5
<1> QED BY <1>1, <1>5, <1>6 DEF SentHeaders

(* Serving the next request keeps their order. *)
LEMMA NextInOrder ==
  ASSUME NEW done, NEW asked \in Seq(Header), InOrder(done, asked),
         Len(done) + 1 \in 1..Len(asked)
  PROVE  InOrder(Append(done, Arrived(asked[Len(done) + 1])), asked)
<1> DEFINE n == Len(done)
           o == Arrived(asked[n + 1])
           s == Append(done, o)
<1>1. done \in Seq(Header) /\ n \in Nat /\ \A k \in 1..n : done[k] = Arrived(asked[k])
  BY DEF InOrder
<1>2. o \in Header
  <2>1. asked[n + 1] \in Header
    OBVIOUS
  <2> QED BY <2>1, ArrivedType
<1> HIDE DEF o
<1>3. s \in Seq(Header) /\ Len(s) = n + 1
        /\ \A k \in 1..n + 1 : s[k] = IF k <= n THEN done[k] ELSE o
  BY <1>1, <1>2, AppendIs
<1> HIDE DEF s
<1>4. ASSUME NEW k \in 1..n + 1 PROVE s[k] = Arrived(asked[k])
  <2>1. CASE k <= n
    <3>1. k \in 1..n
      BY <1>1, <2>1
    <3> QED BY <1>1, <1>3, <2>1, <3>1
  <2>2. CASE ~(k <= n)
    <3>1. k = n + 1
      BY <1>1, <2>2
    <3> QED BY <1>3, <2>2, <3>1 DEF o
  <2> QED BY <2>1, <2>2
<1>5. n + 1 <= Len(asked)
  OBVIOUS
<1> QED BY <1>3, <1>4, <1>5 DEF InOrder, s, o

(* A byte is handled. *)
LEMMA UndisturbedByte ==
  ASSUME RingInv, BytesArrive, SentHeaders, Undisturbed, OnRecv
  PROVE  Undisturbed'
<1>1. UNCHANGED <<sent, inbox, unsent>>
  BY DEF OnRecv, clientVars
<1> DEFINE o == Arrived(sent[Len(executed) + 1])
<1>2. CASE Served
  <2>1. /\ Len(executed) + 1 \in 1..Len(sent)
        /\ Operation(Payload(Head(rxBuffer))) = o
        /\ InTransit(sent, Append(executed, o), Contents(rxRB'), rxBuffer', inbox, unsent)
    BY <1>2, ByteOfStream
  <2>2. sent \in Seq(Header)
    BY DEF SentHeaders
  <2>3. executed' = Append(executed, o)
    BY <1>2, <2>1 DEF Served, OnRecv, Serve
  <2>4. InOrder(Append(executed, o), sent)
    BY <2>1, <2>2, NextInOrder DEF Undisturbed
  <2> HIDE DEF o
  <2> QED BY <1>1, <2>1, <2>3, <2>4 DEF Undisturbed
<1>3. CASE ~Served
  <2>1. UNCHANGED executed
    BY <1>3 DEF Served, OnRecv
  <2>2. InTransit(sent, executed, Contents(rxRB'), rxBuffer', inbox, unsent)
    BY <1>3, ByteOfStream
  <2> QED BY <1>1, <2>1, <2>2 DEF Undisturbed
<1> QED BY <1>2, <1>3

(* The client asks. *)
LEMMA UndisturbedAsk ==
  ASSUME BytesArrive, SentHeaders, Undisturbed, NEW r \in Request, ClientAsks(r)
  PROVE  Undisturbed' /\ SentHeaders'
<1>1. PICK o \in Header :
        /\ sent' = Append(sent, o) /\ unsent = <<>> /\ unsent' = RequestFrame(o) /\ SentHeaders'
  BY AskedHeader
<1>2. UNCHANGED <<executed, rxRB, rxBuffer, inbox>>
  BY DEF ClientAsks, udpVars, rxVars
<1>3. /\ sent \in Seq(Header) /\ executed \in Seq(Header)
      /\ Len(executed) <= Len(sent) /\ \A k \in 1..Len(executed) : executed[k] = Arrived(sent[k])
  BY DEF SentHeaders, Undisturbed, InOrder
<1> DEFINE e == Len(executed)
           c == Contents(rxRB)
<1>4. e \in 0..Len(sent)
  BY <1>3
<1>5. PICK q, at : /\ Carries(q, at, sent)
                   /\ OnTheWay(q, at[e], c, rxBuffer, inbox, <<>>)
  BY <1>1 DEF Undisturbed, InTransit
<1>6. Parts(c, rxBuffer, inbox, <<>>)
  BY <1>1 DEF BytesArrive, Parts
<1> HIDE DEF e, c
<1>7. PICK p, new : /\ Carries(p, new, Append(sent, o))
                    /\ OnTheWay(p, new[e], c, rxBuffer, inbox, RequestFrame(o))
  BY <1>3, <1>4, <1>5, <1>6, FrameAsked
<1>8. InTransit(Append(sent, o), executed, c, rxBuffer, inbox, RequestFrame(o))
  BY <1>7 DEF InTransit, e
<1>9. InOrder(executed, Append(sent, o))
  <2>1. /\ Len(Append(sent, o)) = Len(sent) + 1 /\ Len(sent) \in Nat /\ Len(executed) \in Nat
        /\ \A k \in 1..Len(sent) : Append(sent, o)[k] = sent[k]
    BY <1>3
  <2>2. \A k \in 1..Len(executed) : k \in 1..Len(sent)
    BY <1>3, <2>1
  <2>3. Len(executed) <= Len(Append(sent, o))
    BY <1>3, <2>1
  <2> QED BY <1>3, <2>1, <2>2, <2>3 DEF InOrder
<1>10. (Contents(rxRB))' = c
  BY <1>2 DEF c
<1> QED BY <1>1, <1>2, <1>8, <1>9, <1>10 DEF Undisturbed

(* The client sends a piece, which arrives. *)
LEMMA UndisturbedPiece ==
  ASSUME BytesArrive, Undisturbed, NEW length \in Piece, ClientSends(length), UNCHANGED faults,
         faults = 0
  PROVE  Undisturbed'
<1> DEFINE n == IF length < Len(unsent) THEN length ELSE Len(unsent)
<1>1. n \in 0..Len(unsent) /\ Len(unsent) \in Nat
  BY ClientAssumption DEF BytesArrive
<1>2. /\ unsent' = SubSeq(unsent, n + 1, Len(unsent))
      /\ inbox' = Append(inbox, SubSeq(unsent, 1, n))
      /\ UNCHANGED <<sent, executed, rxRB, rxBuffer>>
  BY DEF ClientSends, Arrives, IsLost
<1> HIDE DEF n
<1>3. Parts(Contents(rxRB), rxBuffer, inbox, unsent)
  BY DEF BytesArrive, Parts
<1>4. PICK q, at : /\ Carries(q, at, sent)
                   /\ OnTheWay(q, at[Len(executed)], Contents(rxRB), rxBuffer, inbox, unsent)
  BY DEF Undisturbed, InTransit
<1>5. q \in Seq(Octet)
  BY <1>4 DEF Carries
<1>6. OnTheWay(q, at[Len(executed)], Contents(rxRB), rxBuffer, inbox', unsent')
  BY <1>1, <1>2, <1>3, <1>4, <1>5, PieceLeaves
<1>7. InTransit(sent, executed, Contents(rxRB), rxBuffer, inbox', unsent')
  BY <1>4, <1>6 DEF InTransit
<1> QED BY <1>2, <1>7 DEF Undisturbed

(* A datagram is received. *)
LEMMA UndisturbedReceive ==
  ASSUME BytesArrive, Undisturbed, Receive, UNCHANGED <<sent, executed, rxRB, unsent>>
  PROVE  Undisturbed'
<1>1. rxBuffer = <<>> /\ inbox # <<>> /\ rxBuffer' = Head(inbox) /\ inbox' = Tail(inbox)
  BY DEF Receive, Idle
<1>2. Parts(Contents(rxRB), <<>>, inbox, unsent)
  BY <1>1 DEF BytesArrive, Parts
<1>3. PICK q, at : /\ Carries(q, at, sent)
                   /\ OnTheWay(q, at[Len(executed)], Contents(rxRB), <<>>, inbox, unsent)
  BY <1>1 DEF Undisturbed, InTransit
<1>4. q \in Seq(Octet)
  BY <1>3 DEF Carries
<1>5. OnTheWay(q, at[Len(executed)], Contents(rxRB), rxBuffer', inbox', unsent)
  BY <1>1, <1>2, <1>3, <1>4, DatagramTaken
<1>6. InTransit(sent, executed, Contents(rxRB), rxBuffer', inbox', unsent)
  BY <1>3, <1>5 DEF InTransit
<1> QED BY <1>6 DEF Undisturbed

(* The invariant of the service: as long as there was no fault, nothing is *)
(* disturbed.                                                              *)
ServiceInv == SentHeaders /\ (faults = 0 => Undisturbed)

LEMMA ServiceStep ==
  ASSUME RingInv, BytesArrive, Bounded, ServiceInv, [Next]_vars
  PROVE  ServiceInv'
<1> USE DEF ServiceInv
<1>1. faults \in Nat
  BY ClientAssumption DEF Bounded
<1>2. ASSUME NEW r \in Request, ClientAsks(r) PROVE ServiceInv'
  <2>1. SentHeaders'
    BY <1>2, AskedHeader
  <2>2. UNCHANGED faults
    BY <1>2 DEF ClientAsks
  <2> QED BY <1>2, <2>1, <2>2, UndisturbedAsk
<1>3. SentHeaders' \/ ~(UNCHANGED sent)
  BY DEF SentHeaders
<1>4. ASSUME NEW length \in Piece, ClientSends(length) PROVE ServiceInv'
  <2>1. UNCHANGED sent /\ (UNCHANGED faults \/ faults' = faults + 1)
    BY <1>4 DEF ClientSends, Arrives, IsLost
  <2>2. CASE UNCHANGED faults
    BY <1>3, <1>4, <2>1, <2>2, UndisturbedPiece
  <2>3. CASE faults' = faults + 1
    <3>1. faults' # 0
      BY <1>1, <2>3
    <3> QED BY <1>3, <2>1, <3>1
  <2> QED BY <2>1, <2>2, <2>3
<1>5. ASSUME NEW byte \in Stray, StrayByte(byte) PROVE ServiceInv'
  <2>1. UNCHANGED sent /\ faults' = faults + 1
    BY <1>5 DEF StrayByte
  <2>2. faults' # 0
    BY <1>1, <2>1
  <2> QED BY <1>3, <2>1, <2>2
<1>6. CASE OnRecv
  <2>1. UNCHANGED <<sent, faults>>
    BY <1>6 DEF OnRecv, clientVars
  <2> QED BY <1>3, <1>6, <2>1, UndisturbedByte
<1>7. CASE Receive /\ UNCHANGED <<rxRB, memory, clientVars, executed>>
  <2>1. UNCHANGED <<sent, executed, rxRB, unsent, faults>>
    BY <1>7 DEF clientVars
  <2> QED BY <1>3, <1>7, <2>1, UndisturbedReceive
<1>8. CASE UNCHANGED <<sent, executed, rxRB, unsent, faults, rxBuffer, inbox>>
  BY <1>3, <1>8 DEF Undisturbed
<1>9. CASE SocketHandler
  <2>1. CASE Receive
    BY <1>7, <1>9, <2>1 DEF SocketHandler
  <2>2. CASE SendCompletes \/ RunPosted
    BY <1>8, <1>9, <2>2 DEF SocketHandler, SendCompletes, RunPosted, rxVars, clientVars
  <2> QED BY <1>9, <2>1, <2>2 DEF SocketHandler
<1>10. CASE SocketError \/ Stop \/ UNCHANGED vars
  <2>1. UNCHANGED <<sent, executed, rxRB, unsent, faults, rxBuffer, inbox>>
    BY <1>10 DEF SocketError, ReceiveFails, SendFails, Stop, vars, udpVars, rxVars, clientVars
  <2> QED BY <1>8, <2>1
<1> QED BY <1>2, <1>4, <1>5, <1>6, <1>9, <1>10 DEF Next

(* Nothing is on its way yet. *)
LEMMA ServiceInvInit == Init => ServiceInv
<1> SUFFICES ASSUME Init PROVE ServiceInv
  OBVIOUS
<1>1. /\ sent = <<>> /\ executed = <<>> /\ unsent = <<>> /\ inbox = <<>> /\ rxBuffer = <<>>
      /\ rxRB = EmptyRing
  BY DEF Init, UdpInit, ProtocolInit
<1>2. <<>> \in Seq(Header) /\ Len(<<>>) = 0 /\ 1..0 = {} /\ 0 <= 0 /\ 0 \in Nat
      /\ <<>> \in Seq(Octet)
  OBVIOUS
<1>3. SentHeaders
  BY <1>1, <1>2 DEF SentHeaders
<1>4. InOrder(<<>>, <<>>)
  BY <1>2, Zenon DEF InOrder
<1>5. Contents(rxRB) = <<>>
  BY <1>1 DEF EmptyRing, Contents
<1> DEFINE at == [k \in 0..0 |-> 0]
<1>6. at \in [0..0 -> Nat] /\ at[0] = 0
  OBVIOUS
<1> HIDE DEF at
<1>7. Carries(<<>>, at, <<>>)
  BY <1>2, <1>6, Zenon DEF Carries
<1>8. OnTheWay(<<>>, 0, <<>>, <<>>, <<>>, <<>>)
  <2>1. Holds(<<>>, 0, <<>>) /\ 0 + 0 = 0
    BY <1>2, HoldsNone
  <2>2. Between(<<>>, 0, <<>>, 0)
    BY BetweenNone
  <2> QED BY <1>2, <2>1, <2>2, Zenon DEF OnTheWay
<1>9. InTransit(<<>>, <<>>, <<>>, <<>>, <<>>, <<>>)
  BY <1>2, <1>6, <1>7, <1>8, Zenon DEF InTransit
<1>10. Undisturbed
  BY <1>1, <1>4, <1>5, <1>9 DEF Undisturbed
<1> QED BY <1>3, <1>10 DEF ServiceInv

(* Until the first fault, what is in the ring, in the receive buffer, in   *)
(* the datagrams and still unsent are the frames of the requests that were *)
(* not served yet, in their order and nothing else, whatever the requests  *)
(* ask for, however long the pieces are and wherever the ring stands.      *)
(* basicProtocol.h:305-325, udpServer.h:127-149.                           *)
THEOREM ServiceInvariance == Spec => []ServiceInv
<1>1. PcInv /\ ServiceInv /\ [Next]_vars => ServiceInv'
  BY ServiceStep DEF PcInv
<1> QED BY <1>1, ServiceInvInit, PcInvariance, PTL DEF Spec

(* Until the first fault the operations carried out are the requests sent,   *)
(* as the framing lets them arrive, in the order sent, none twice and none   *)
(* left out, whatever they ask for. basicProtocol.h:250-291,305-325.         *)
THEOREM ServedAsAsked ==
  Spec => [](faults = 0 => /\ Len(executed) <= Len(sent)
                           /\ \A k \in 1..Len(executed) : executed[k] = Arrived(sent[k]))
<1>1. ServiceInv => (faults = 0 => /\ Len(executed) <= Len(sent)
                                   /\ \A k \in 1..Len(executed) : executed[k] = Arrived(sent[k]))
  BY DEF ServiceInv, Undisturbed, InOrder
<1> QED BY <1>1, ServiceInvariance, PTL

-----------------------------------------------------------------------------
(* The answers. *)

(* A reply holds what the memory holds. readWriteProtocol.h:109-138. *)
LEMMA ReplyIs ==
  ASSUME NEW o \in Header, InBounds(o), memory \in [Address -> Octet]
  PROVE  LET p == PayloadBytes(Reply(o))
         IN  /\ p \in Seq(Octet) /\ Len(p) = OperationLength
             /\ p[2] = o.size /\ p[3] = o.majic
             /\ \A i \in 1..o.size : p[4 + i] = Value(o.address + i - 1)
             /\ o.size \in Nat /\ 4 + o.size <= OperationLength /\ o.size < ESC_PACKET
<1>1. /\ o.op \in Octet /\ o.size \in Octet /\ o.majic \in Octet /\ o.address \in Octet
  BY DEF Header
<1>2. /\ o.size \in Nat /\ o.address \in Nat /\ o.size <= MAX_READWRITE_SIZE
      /\ MAX_READWRITE_SIZE \in Nat /\ MAX_READWRITE_SIZE < ESC_PACKET /\ 0 \in Octet
  <2>1. o.size \in Nat /\ o.address \in Nat /\ 0 \in Octet
    BY <1>1 DEF Octet
  <2>2. o.size <= MAX_READWRITE_SIZE
    BY DEF InBounds
  <2>3. MAX_READWRITE_SIZE \in Nat /\ MAX_READWRITE_SIZE < ESC_PACKET
    BY ReadWriteAssumption, ClientAssumption
  <2> QED BY <2>1, <2>2, <2>3
<1> DEFINE values == [i \in 1..MAX_READWRITE_SIZE |->
                        IF i <= o.size THEN Value(o.address + i - 1) ELSE 0]
<1>3. ASSUME NEW i \in 1..MAX_READWRITE_SIZE, i <= o.size
      PROVE  Value(o.address + i - 1) \in Octet
  <2>1. o.address + i - 1 \in o.address..o.address + o.size - 1
    BY <1>2, <1>3
  <2>2. o.address + i - 1 \in Address
    BY <2>1 DEF InBounds
  <2> DEFINE a == o.address + i - 1
  <2>3. a \in Address /\ Address \subseteq Octet
    BY <2>2, ClientAssumption
  <2> HIDE DEF a, InBounds
  <2>4. Value(a) \in Octet
    BY <2>3 DEF Value
  <2> QED BY <2>4 DEF a
<1>4. values \in [1..MAX_READWRITE_SIZE -> Octet]
  BY <1>2, <1>3
<1>5. ASSUME NEW i \in 1..o.size PROVE values[i] = Value(o.address + i - 1)
  <2>1. i \in 1..MAX_READWRITE_SIZE /\ i <= o.size
    BY <1>2
  <2> QED BY <2>1
<1> HIDE DEF values, InBounds
<1>6. /\ Reply(o).op = o.op /\ Reply(o).size = o.size /\ Reply(o).majic = o.majic
      /\ Reply(o).address = o.address /\ Reply(o).values = values
      /\ Reply(o) = [o EXCEPT !.values = values]
  BY DEF Reply, Header, values
<1>7. Reply(o) \in Header
  BY <1>4, <1>6 DEF Header
<1> DEFINE p == PayloadBytes(Reply(o))
<1>8. /\ p \in Seq(Octet) /\ Len(p) = OperationLength
      /\ p[2] = Reply(o).size /\ p[3] = Reply(o).majic
      /\ \A i \in 1..MAX_READWRITE_SIZE : p[4 + i] = Reply(o).values[i]
  BY <1>7, HeaderPayload
<1> HIDE DEF p
<1>9. \A i \in 1..o.size : i \in 1..MAX_READWRITE_SIZE
  BY <1>2
<1>10. \A i \in 1..o.size : p[4 + i] = Value(o.address + i - 1)
  BY <1>5, <1>6, <1>8, <1>9
<1>11. 4 + o.size <= OperationLength /\ o.size < ESC_PACKET
  BY <1>2 DEF OperationLength, ESC_PACKET
<1> QED BY <1>2, <1>6, <1>8, <1>10, <1>11 DEF p

(* A read is answered, with a frame that holds what was read. *)
(* readWriteProtocol.h:139-148, basicProtocol.h:186-216.      *)
LEMMA AnswerIs ==
  ASSUME NEW o \in Header, InBounds(o), memory \in [Address -> Octet],
         NEW port \in Octet, isValidPort(port)
  PROVE  /\ Replies(o) => Sends(o, port)
         /\ AbstractAnswer(ReplyFrame(o, port))
              = [to |-> Blurred(o.majic),
                 words |-> [k \in 1..o.size |-> Blurred(Value(o.address + k - 1))]]
<1> DEFINE p == PayloadBytes(Reply(o))
           w == ReplyFrame(o, port)
           bytes == PayloadOf(w)
<1>1. /\ p \in Seq(Octet) /\ Len(p) = OperationLength
      /\ p[2] = o.size /\ p[3] = o.majic
      /\ \A i \in 1..o.size : p[4 + i] = Value(o.address + i - 1)
      /\ o.size \in Nat /\ 4 + o.size <= OperationLength /\ o.size < ESC_PACKET
  BY ReplyIs
<1>2. READ_WRITE_PROTOCOL_PORT \in Octet
  BY DEF READ_WRITE_PROTOCOL_PORT, Octet
<1>3. w = Packet(port, READ_WRITE_PROTOCOL_PORT, p)
  BY DEF ReplyFrame
<1> HIDE DEF p
<1>4. /\ Len(p) <= PayloadMax /\ Len(Escaped(p)) <= PayloadMax
      /\ OperationLength \in Nat /\ OperationLength <= PayloadMax /\ PayloadMax \in Nat
  BY <1>1, OperationFits
<1> DEFINE x == Packet(port, READ_WRITE_PROTOCOL_PORT, p)
<1>5. /\ Len(x) = MAX_PACKET_LEN
      /\ PayloadOf(x) \in Seq(Octet) /\ Len(PayloadOf(x)) = PayloadMax
      /\ \A i \in 1..Len(p) : PayloadOf(x)[i] = Blurred(p[i])
  <2>1. p \in Seq(Octet) /\ Len(Escaped(p)) <= PayloadMax
    BY <1>1, <1>4
  <2> QED BY <1>2, <2>1, FrameCarries
<1> HIDE DEF x, w
<1>6. w = x
  BY <1>3 DEF x
<1>7. /\ Len(w) = MAX_PACKET_LEN /\ bytes \in Seq(Octet) /\ Len(bytes) = PayloadMax
      /\ \A i \in 1..OperationLength : bytes[i] = Blurred(p[i])
  BY <1>1, <1>5, <1>6
<1>8. Sendable(port, READ_WRITE_PROTOCOL_PORT, p)
  <2>1. isValidPort(READ_WRITE_PROTOCOL_PORT)
    BY DEF isValidPort, READ_WRITE_PROTOCOL_PORT, PORT_MAX, ESC_PACKET
  <2> QED BY <1>4, <2>1 DEF Sendable
<1>9. Len(w) <= buffer_size
  BY <1>7, ClientAssumption
<1>10. Replies(o) => Sends(o, port)
  BY <1>8, <1>9 DEF Sends, p, w
<1> HIDE DEF bytes
<1>11. bytes[2] = o.size /\ bytes[3] = Blurred(o.majic)
  <2>1. 2 \in 1..OperationLength /\ 3 \in 1..OperationLength
    BY <1>1, <1>4
  <2>2. bytes[2] = Blurred(o.size) /\ bytes[3] = Blurred(o.majic)
    BY <1>1, <1>7, <2>1
  <2>3. Blurred(o.size) = o.size
    BY <1>1, BlurredIs
  <2> QED BY <2>2, <2>3
<1> DEFINE words == SubSeq(bytes, 5, 4 + o.size)
<1>12. words \in [1..o.size -> Octet]
  <2>1. SubSeq(bytes, 4 + 1, 4 + o.size) \in [1..o.size -> Octet]
    <3>1. 4 + o.size <= Len(bytes) /\ 4 \in Nat /\ o.size \in Nat /\ bytes \in Seq(Octet)
      BY <1>1, <1>4, <1>7
    <3> QED BY <3>1, PartOf
  <2>2. 4 + 1 = 5
    OBVIOUS
  <2> QED BY <2>1, <2>2
<1>13. ASSUME NEW k \in 1..o.size PROVE words[k] = Blurred(Value(o.address + k - 1))
  <2>1. 4 + k \in 1..OperationLength
    BY <1>1, <1>4
  <2>2. words[k] = bytes[4 + k]
    BY <1>1, <1>4, <1>7
  <2>3. bytes[4 + k] = Blurred(p[4 + k])
    BY <1>7, <2>1
  <2>4. p[4 + k] = Value(o.address + k - 1)
    BY <1>1
  <2> QED BY <2>2, <2>3, <2>4
<1> HIDE DEF words
<1>14. words = [k \in 1..o.size |-> Blurred(Value(o.address + k - 1))]
  BY <1>12, <1>13, Zenon
<1>15. AbstractAnswer(w) = [to |-> Blurred(o.majic), words |-> words]
  BY <1>11 DEF AbstractAnswer, bytes, words
<1> QED BY <1>10, <1>14, <1>15 DEF w

(* The answers, with one more reply. *)
LEMMA AnswerAppended ==
  ASSUME TxSeqs, NEW frame, Replied' = Append(Replied, frame)
  PROVE  Answered' = Append(Answered, AbstractAnswer(frame))
<1>1. PICK S : outbox \in Seq(S) /\ txQueue \in Seq(S) /\ txBuffer \in S
  BY DEF TxSeqs
<1>2. Waiting \in Seq(S)
  BY <1>1 DEF Waiting
<1>3. Replied = (outbox \o Waiting) \o txQueue
  BY DEF Replied, Waiting
<1>4. Replied \in Seq(S)
  BY <1>1, <1>2, <1>3
<1> DEFINE n == Len(Replied)
           r == Replied
           s == Append(r, frame)
           f == [k \in 1..n |-> AbstractAnswer(r[k])]
           g == [k \in 1..n + 1 |-> AbstractAnswer(s[k])]
<1> HIDE DEF r
<1>5. r \in Seq(S) /\ n = Len(r)
  BY <1>4 DEF r
<1> HIDE DEF n
<1>6. /\ n \in Nat /\ DOMAIN r = 1..n /\ DOMAIN s = 1..n + 1
      /\ \A k \in 1..n : k \in 1..n + 1 /\ s[k] = r[k]
      /\ n + 1 \in 1..n + 1 /\ s[n + 1] = frame
  BY <1>5, Appended
<1>7. Answered' = [k \in DOMAIN s |-> AbstractAnswer(s[k])]
  <2>1. Answered' = [k \in DOMAIN Replied' |-> AbstractAnswer((Replied')[k])]
    BY DEF Answered, AbstractAnswer
  <2>2. Replied' = s
    BY DEF r
  <2> QED BY <2>1, <2>2
<1> HIDE DEF s
<1>8. /\ f = [k \in 1..n |-> f[k]] /\ g = [k \in 1..n + 1 |-> g[k]]
      /\ \A k \in 1..n : g[k] = f[k]
      /\ g[n + 1] = AbstractAnswer(frame)
  BY <1>6, Zenon
<1>9. Answered = f
  BY <1>6 DEF Answered, r
<1>10. Answered' = g
  BY <1>6, <1>7
<1> HIDE DEF f, g
<1>11. g = Append(f, g[n + 1]) /\ Len(f) = n
  <2>1. /\ n \in Nat /\ f = [k \in 1..n |-> f[k]] /\ g = [k \in 1..n + 1 |-> g[k]]
        /\ \A k \in 1..n : g[k] = f[k]
    BY <1>6, <1>8
  <2> QED BY <2>1, ArrayGrows, Zenon
<1> QED BY <1>8, <1>9, <1>10, <1>11, Zenon

(* The operations carried out, with one more. *)
LEMMA OperationAppended ==
  ASSUME ExecutedSeq, NEW o, executed' = Append(executed, o)
  PROVE  /\ CarriedOut' = Append(CarriedOut, AbstractOperation(o))
         /\ Len(CarriedOut) = Len(executed)
         /\ CarriedOut' # <<>> /\ CarriedOut'[Len(CarriedOut')] = AbstractOperation(o)
<1>1. PICK T : executed \in Seq(T)
  BY DEF ExecutedSeq
<1> DEFINE n == Len(executed)
           s == Append(executed, o)
           f == [k \in 1..n |-> AbstractOperation(executed[k])]
           g == [k \in 1..n + 1 |-> AbstractOperation(s[k])]
<1>2. /\ n \in Nat /\ DOMAIN executed = 1..n /\ DOMAIN s = 1..n + 1
      /\ \A k \in 1..n : k \in 1..n + 1 /\ s[k] = executed[k]
      /\ n + 1 \in 1..n + 1 /\ s[n + 1] = o
  BY <1>1, Appended
<1>3. executed' = s
  OBVIOUS
<1> HIDE DEF n, s
<1>4. /\ f = [k \in 1..n |-> f[k]] /\ g = [k \in 1..n + 1 |-> g[k]]
      /\ \A k \in 1..n : g[k] = f[k]
      /\ g[n + 1] = AbstractOperation(o)
  BY <1>2, Zenon
<1>5. CarriedOut = f
  BY <1>2 DEF CarriedOut
<1>6. CarriedOut' = g
  BY <1>2, <1>3 DEF CarriedOut
<1> DEFINE A == {g[k] : k \in 1..n + 1}
<1>7. g \in [1..n + 1 -> A]
  BY <1>4, Zenon
<1> HIDE DEF f, g, A
<1>8. g = Append(f, g[n + 1]) /\ Len(f) = n
  <2>1. /\ n \in Nat /\ f = [k \in 1..n |-> f[k]] /\ g = [k \in 1..n + 1 |-> g[k]]
        /\ \A k \in 1..n : g[k] = f[k]
    BY <1>2, <1>4
  <2> QED BY <2>1, ArrayGrows, Zenon
<1>9. g \in Seq(A) /\ Len(g) = n + 1 /\ n + 1 \in Nat
  <2>1. n + 1 \in Nat
    BY <1>2
  <2> QED BY <1>7, <2>1, LengthOfWindow
<1>10. g # <<>>
  BY <1>2, <1>9
<1>11. g[Len(g)] = AbstractOperation(o)
  BY <1>4, <1>9, Zenon
<1>12. g = Append(f, AbstractOperation(o))
  BY <1>4, <1>8, Zenon
<1> QED BY <1>5, <1>6, <1>8, <1>10, <1>11, <1>12, Zenon DEF n

(* What RemoteMemory sees of the memory. *)
Cells == [a \in Address |-> Blurred(Value(a))]

(* A step that does what CarryOut says of an operation. *)
LEMMA CarriesOut ==
  ASSUME NEW o,
         CarriedOut' = Append(CarriedOut, o),
         \/ /\ o.request.op = "read"
            /\ Answered' = Append(Answered,
                 [to |-> o.no, words |-> [k \in 1..o.request.size |->
                                            Cells[o.request.address + k - 1]]])
            /\ UNCHANGED Cells
         \/ /\ o.request.op = "write"
            /\ Cells' = [c \in Address |->
                 IF c - o.request.address \in 0..o.request.size - 1
                 THEN o.request.values[c - o.request.address + 1] ELSE Cells[c]]
            /\ UNCHANGED Answered
         \/ o.request.op = "none" /\ UNCHANGED <<Cells, Answered>>,
         UNCHANGED <<Asked, Len(outbox), faults>>
  PROVE  Service!CarryOut(o)
<1>1. CASE /\ o.request.op = "read"
           /\ Answered' = Append(Answered,
                [to |-> o.no, words |-> [k \in 1..o.request.size |->
                                           Cells[o.request.address + k - 1]]])
           /\ UNCHANGED Cells
  BY <1>1, Zenon DEF Service!CarryOut, Answered, CarriedOut, Cells, Asked
<1>2. CASE /\ o.request.op = "write"
           /\ Cells' = [c \in Address |->
                IF c - o.request.address \in 0..o.request.size - 1
                THEN o.request.values[c - o.request.address + 1] ELSE Cells[c]]
           /\ UNCHANGED Answered
  BY <1>2, Zenon DEF Service!CarryOut, Answered, CarriedOut, Cells, Asked
<1>3. CASE o.request.op = "none" /\ UNCHANGED <<Cells, Answered>>
  BY <1>3, Zenon DEF Service!CarryOut, Answered, CarriedOut, Cells, Asked
<1> QED BY <1>1, <1>2, <1>3

(* A write puts the values, as they arrived, where the request says. *)
(* readWriteProtocol.h:111-127.                                      *)
LEMMA WriteIs ==
  ASSUME ~PcDebug, NEW o \in Header, InBounds(o), memory' = Written(o)
  PROVE  Cells' = [c \in Address |->
           IF c - o.address \in 0..o.size - 1
           THEN [i \in DOMAIN o.values |-> Blurred(o.values[i])][c - o.address + 1]
           ELSE Cells[c]]
<1> DEFINE v == [i \in DOMAIN o.values |-> Blurred(o.values[i])]
<1>1. /\ o.size \in Nat /\ o.address \in Nat /\ o.size <= MAX_READWRITE_SIZE
      /\ MAX_READWRITE_SIZE \in Nat /\ Address \subseteq Nat
      /\ DOMAIN o.values = 1..MAX_READWRITE_SIZE
  <2>1. o.size \in Octet /\ o.address \in Octet /\ DOMAIN o.values = 1..MAX_READWRITE_SIZE
    BY DEF Header
  <2>2. o.size \in Nat /\ o.address \in Nat
    BY <2>1, OctetsAre, Zenon
  <2>3. o.size <= MAX_READWRITE_SIZE
    BY DEF InBounds
  <2>4. MAX_READWRITE_SIZE \in Nat /\ Address \subseteq Nat
    BY ReadWriteAssumption
  <2> QED BY <2>1, <2>2, <2>3, <2>4
<1> HIDE DEF InBounds
<1>2. ASSUME NEW c \in Address
      PROVE  Blurred(memory'[c]) = IF c - o.address \in 0..o.size - 1
                                   THEN v[c - o.address + 1] ELSE Blurred(memory[c])
  <2>1. memory'[c] = IF c - o.address \in 0..o.size - 1
                     THEN o.values[c - o.address + 1] ELSE memory[c]
    BY DEF Written
  <2>2. ASSUME c - o.address \in 0..o.size - 1
        PROVE  v[c - o.address + 1] = Blurred(o.values[c - o.address + 1])
    <3>1. c - o.address + 1 \in 1..MAX_READWRITE_SIZE
      BY <1>1, <2>2
    <3> QED BY <1>1, <3>1, Zenon
  <2> HIDE DEF v
  <2> QED BY <2>1, <2>2
<1> HIDE DEF v
<1>3. Cells' = [c \in Address |-> Blurred(memory'[c])]
  BY DEF Cells, Value
<1>4. \A c \in Address : Cells[c] = Blurred(memory[c])
  BY DEF Cells, Value
<1>5. Cells' = [c \in Address |-> IF c - o.address \in 0..o.size - 1
                                  THEN v[c - o.address + 1] ELSE Cells[c]]
  BY <1>2, <1>3, <1>4, Zenon
<1> QED BY <1>5 DEF v

(* What the read/write server is given: bytes, from a port that can be *)
(* answered. basicProtocol.h:232-268.                                  *)
LEMMA ServedOperation ==
  ASSUME RingInv, BytesArrive, Served
  PROVE  /\ Operation(Payload(Head(rxBuffer))) \in Header
         /\ FromPort(Head(rxBuffer)) \in Octet /\ isValidPort(FromPort(Head(rxBuffer)))
<1> DEFINE byte == Head(rxBuffer)
           w == Contents(Pushed(byte))
<1>1. Handling /\ Filled(byte) /\ Complete(w)
  BY DEF Served, OnRecv, Calls, ReadWriteServer, NoCallback
<1>2. Operation(Payload(byte)) \in Header /\ FromPort(byte) \in Octet
  BY <1>1, WindowHoldsOperation
<1>3. MAX_PACKET_LEN \in Nat /\ MAX_PACKET_LEN > 7
  BY PayloadAssumption DEF MAX_PACKET_LEN
<1>4. isValidPort(w[2])
  <2>1. Consumed(w) = MAX_PACKET_LEN
    BY <1>1 DEF Complete
  <2> DEFINE m == MAX_PACKET_LEN
  <2>2. Consumed(w) = m /\ m # 1 /\ m # 3
    BY <1>3, <2>1
  <2>3. Consumed(w) = 1 \/ Consumed(w) = 3 \/ isValidPort(w[2])
    BY DEF Consumed
  <2> HIDE DEF m
  <2> QED BY <2>2, <2>3
<1> QED BY <1>2, <1>4 DEF FromPort

(* An operation that is served is what the abstract memory carries out, of *)
(* the memory and the answers. readWriteProtocol.h:97-156.                 *)
LEMMA ServedCarriesOut ==
  ASSUME RingInv, BytesArrive, TxSeqs, ExecutedSeq, ServerInv, Served, RequestsInBounds'
  PROVE  LET o == Operation(Payload(Head(rxBuffer)))
         IN  /\ executed' = Append(executed, o)
             /\ Service!CarryOut(AbstractOperation(o))
<1> DEFINE o == Operation(Payload(Head(rxBuffer)))
           port == FromPort(Head(rxBuffer))
           a == AbstractOperation(o)
           r == AbstractRequest(o)
<1>1. o \in Header /\ port \in Octet /\ isValidPort(port)
  BY ServedOperation
<1>2. /\ executed' = Append(executed, o)
      /\ memory' = (IF o.op = ContiguousWrite THEN Written(o) ELSE memory)
      /\ UNCHANGED <<sent, faults>>
  BY DEF Served, OnRecv, Serve, Execute, clientVars
<1>3. /\ outbox' = outbox
      /\ Replied' = IF Sends(o, port) THEN Append(Replied, ReplyFrame(o, port)) ELSE Replied
  BY OnRecvReplies DEF Served
<1> HIDE DEF o, port
<1>4. RequestsInBounds /\ InBounds(o)
  BY <1>2, AppendedInBounds
<1>5. memory \in [Address -> Octet]
  BY <1>4 DEF ServerInv
<1>6. CarriedOut' = Append(CarriedOut, a)
  BY <1>2, OperationAppended
<1>7. UNCHANGED <<Asked, Len(outbox), faults>>
  BY <1>2, <1>3 DEF Asked
<1>8. a.no = Blurred(o.majic) /\ a.request = r
  BY DEF AbstractOperation
<1>9. /\ r.size = o.size /\ r.address = o.address
      /\ r.values = [i \in DOMAIN o.values |-> Blurred(o.values[i])]
      /\ r.op = IF o.op = ContiguousRead THEN "read"
                ELSE IF o.op = ContiguousWrite /\ ~PcDebug THEN "write" ELSE "none"
  BY DEF AbstractRequest
<1>10. ContiguousRead # ContiguousWrite
  BY DEF ContiguousRead, ContiguousWrite
<1> HIDE DEF r, a
<1>11. CASE o.op = ContiguousRead
  <2>1. /\ Sends(o, port)
        /\ AbstractAnswer(ReplyFrame(o, port))
             = [to |-> Blurred(o.majic),
                words |-> [k \in 1..o.size |-> Blurred(Value(o.address + k - 1))]]
    BY <1>1, <1>4, <1>5, <1>11, AnswerIs DEF Replies
  <2>2. Answered' = Append(Answered, AbstractAnswer(ReplyFrame(o, port)))
    BY <1>3, <2>1, AnswerAppended
  <2>3. UNCHANGED Cells
    BY <1>2, <1>10, <1>11 DEF Cells, Value
  <2>4. \A k \in 1..o.size : Cells[o.address + k - 1] = Blurred(Value(o.address + k - 1))
    <3>1. o.size \in Nat /\ o.address \in Nat
      <4>1. o.size \in Octet /\ o.address \in Octet
        BY <1>1 DEF Header
      <4> QED BY <4>1, OctetsAre, Zenon
    <3>2. \A k \in 1..o.size : o.address + k - 1 \in Address
      BY <1>4, <3>1 DEF InBounds
    <3> QED BY <3>2, Zenon DEF Cells
  <2>5. [k \in 1..a.request.size |-> Cells[a.request.address + k - 1]]
          = [k \in 1..o.size |-> Blurred(Value(o.address + k - 1))]
    BY <1>8, <1>9, <2>4, Zenon
  <2>6. Answered' = Append(Answered,
          [to |-> a.no, words |-> [k \in 1..a.request.size |->
                                     Cells[a.request.address + k - 1]]])
    BY <1>8, <2>1, <2>2, <2>5, Zenon
  <2>7. a.request.op = "read"
    BY <1>8, <1>9, <1>11
  <2>8. Service!CarryOut(a)
    BY <1>6, <1>7, <2>3, <2>6, <2>7, CarriesOut, Zenon
  <2> QED BY <1>2, <2>8 DEF o, a
<1>12. ASSUME o.op # ContiguousRead PROVE UNCHANGED Answered
  <2>1. ~Sends(o, port)
    BY <1>12 DEF Sends, Replies
  <2> QED BY <1>3, <2>1 DEF Answered
<1>13. CASE o.op = ContiguousWrite /\ ~PcDebug
  <2>1. UNCHANGED Answered
    BY <1>10, <1>12, <1>13
  <2>2. Cells' = [c \in Address |->
           IF c - o.address \in 0..o.size - 1
           THEN [i \in DOMAIN o.values |-> Blurred(o.values[i])][c - o.address + 1]
           ELSE Cells[c]]
    BY <1>1, <1>2, <1>4, <1>13, WriteIs
  <2>3. a.request.op = "write"
    BY <1>8, <1>9, <1>10, <1>13
  <2>4. Cells' = [c \in Address |->
           IF c - a.request.address \in 0..a.request.size - 1
           THEN a.request.values[c - a.request.address + 1] ELSE Cells[c]]
    <3>1. /\ a.request.address = o.address /\ a.request.size = o.size
          /\ a.request.values = [i \in DOMAIN o.values |-> Blurred(o.values[i])]
      BY <1>8, <1>9
    <3> QED BY <2>2, <3>1
  <2>5. Service!CarryOut(a)
    BY <1>6, <1>7, <2>1, <2>3, <2>4, CarriesOut, Zenon
  <2> QED BY <1>2, <2>5 DEF o, a
<1>14. CASE o.op # ContiguousRead /\ ~(o.op = ContiguousWrite /\ ~PcDebug)
  <2>1. UNCHANGED Answered
    BY <1>12, <1>14
  <2>2. a.request.op = "none"
    BY <1>8, <1>9, <1>14
  <2>3. UNCHANGED Cells
    <3>1. CASE PcDebug
      BY <3>1 DEF Cells, Value
    <3>2. CASE ~PcDebug
      <4>1. UNCHANGED memory
        BY <1>2, <1>14, <3>2
      <4> QED BY <4>1 DEF Cells, Value
    <3> QED BY <3>1, <3>2
  <2>4. Service!CarryOut(a)
    BY <1>6, <1>7, <2>1, <2>2, <2>3, CarriesOut, Zenon
  <2> QED BY <1>2, <2>4 DEF o, a
<1> QED BY <1>11, <1>13, <1>14

(* Until the first fault it is the next of the requests that is served. *)
LEMMA NextIsServed ==
  ASSUME RingInv, BytesArrive, ExecutedSeq, SentHeaders, Undisturbed, Served,
         executed' = Append(executed, Operation(Payload(Head(rxBuffer))))
  PROVE  /\ Len(CarriedOut) < Len(Asked)
         /\ AbstractOperation(Operation(Payload(Head(rxBuffer)))) = Asked[Len(CarriedOut) + 1]
<1> DEFINE n == Len(executed)
           m == Len(sent)
           o == Operation(Payload(Head(rxBuffer)))
           A == {AbstractOperation(Arrived(sent[k])) : k \in 1..m}
<1>1. n + 1 \in 1..m /\ o = Arrived(sent[n + 1])
  BY ByteOfStream DEF Served
<1>2. m \in Nat /\ n \in Nat /\ DOMAIN sent = 1..m
  BY DEF SentHeaders, Undisturbed, InOrder
<1>3. Len(CarriedOut) = n
  BY OperationAppended
<1> HIDE DEF n, m, o
<1>4. Asked = [k \in 1..m |-> AbstractOperation(Arrived(sent[k]))]
  BY <1>2 DEF Asked
<1>5. Asked \in [1..m -> A] /\ Asked[n + 1] = AbstractOperation(Arrived(sent[n + 1]))
  BY <1>1, <1>4, Zenon
<1> HIDE DEF A
<1>6. Len(Asked) = m
  BY <1>2, <1>5, LengthOfWindow
<1>7. n < m
  BY <1>1, <1>2
<1>8. Len(CarriedOut) < Len(Asked)
  BY <1>3, <1>6, <1>7
<1> QED BY <1>1, <1>3, <1>5, <1>8, Zenon DEF o

(* A request that is served is a step of the abstract memory: the next of *)
(* those sent, or after a fault some operation.                           *)
LEMMA ServedImplements ==
  ASSUME PcInv, ServiceInv, TxSeqs, Served, RequestsInBounds'
  PROVE  Service!Next
<1> DEFINE o == Operation(Payload(Head(rxBuffer)))
           a == AbstractOperation(o)
<1>1. RingInv /\ BytesArrive /\ ExecutedSeq /\ ServerInv /\ faults \in 0..MaxFaults
  BY DEF PcInv, Bounded
<1>2. executed' = Append(executed, o) /\ Service!CarryOut(a)
  BY <1>1, ServedCarriesOut
<1>3. CASE faults = 0
  <2>1. Len(CarriedOut) < Len(Asked) /\ a = Asked[Len(CarriedOut) + 1]
    BY <1>1, <1>2, <1>3, NextIsServed DEF ServiceInv
  <2> HIDE DEF a
  <2>2. Service!CarryOut(Asked[Len(CarriedOut) + 1])
    BY <1>2, <2>1
  <2>3. Service!Serve
    BY <2>1, <2>2, Zenon DEF Service!Serve, Asked, CarriedOut
  <2> QED BY <2>3 DEF Service!Next
<1>4. CASE faults # 0
  <2>1. faults > 0
    BY <1>1, <1>4, ClientAssumption
  <2>2. CarriedOut' # <<>> /\ CarriedOut'[Len(CarriedOut')] = a
    BY <1>1, <1>2, OperationAppended
  <2> HIDE DEF a
  <2>3. Service!CarryOut(CarriedOut'[Len(CarriedOut')])
    BY <1>2, <2>2
  <2>4. Service!ServeAnything
    BY <2>1, <2>2, <2>3, Zenon DEF Service!ServeAnything, CarriedOut
  <2> QED BY <2>4 DEF Service!Next
<1> QED BY <1>3, <1>4

(* Every step of the stack is a step of the abstract memory, unless it        *)
(* executes an operation on words outside of it, which the server does not    *)
(* check: with or without PC_DEBUG, whatever the requests hold and whatever   *)
(* faults happen.  Up to the first fault the requests are carried out one by  *)
(* one in the order sent, as the framing lets them arrive; at all times a     *)
(* read is answered with the memory of that moment, and the answers leave in  *)
(* that order. pcTestApp.cpp, udpServer.h:64-152, basicProtocol.h:186-325,    *)
(* readWriteProtocol.h:97-156.                                                *)
THEOREM ServiceInBounds ==
  Spec => Service!Init /\ [][RequestsInBounds' => [Service!Next]_(Service!vars)]_vars
<1>1. ASSUME PcInv, ServiceInv, TxSeqs, RequestsInBounds', [Next]_vars
      PROVE  [Service!Next]_(Service!vars)
  <2>1. TxIInv /\ SentSeq
    BY <1>1 DEF PcInv
  <2>2. CASE Served
    BY <1>1, <2>2, ServedImplements
  <2>3. CASE ~Served
    BY <1>1, <2>1, <2>3, AsksImplement, NetworkImplements, SocketImplements, RestImplements
       DEF Next
  <2> QED BY <2>2, <2>3
<1>2. PcInv /\ TxSeqs /\ [Next]_vars => TxSeqs'
  BY TxSeqsStep DEF PcInv
<1>3. PcInv /\ ServiceInv /\ TxSeqs /\ [Next]_vars
        => (RequestsInBounds' => [Service!Next]_(Service!vars))
  BY <1>1
<1> QED BY <1>2, <1>3, TxSeqsInit, InitImplements, PcInvariance, ServiceInvariance, PTL DEF Spec

(* So the stack implements the abstract memory, as long as no operation *)
(* outside of it is executed.                                           *)
THEOREM ServiceImplements ==
  Spec /\ []RequestsInBounds => ImplementsRemoteMemory
<1>1. UNCHANGED vars => UNCHANGED Service!vars
  BY DEF Service!vars, vars, udpVars, txVars, clientVars, Replied, Value
<1> QED BY <1>1, ServiceInBounds, PTL DEF ImplementsRemoteMemory, Service!Spec

-----------------------------------------------------------------------------
(* Without faults it is enough that the client asks for words which are in *)
(* the memory when the request arrives: an address that the framing blurs  *)
(* becomes another one.                                                    *)
ArriveInBounds ==
  \A r \in Request :
    InBounds(Arrived([op |-> r.op, size |-> r.size, majic |-> 0,
                      address |-> r.address, values |-> r.values]))

(* What was sent arrives so. *)
SentArrives == \A k \in DOMAIN sent : InBounds(Arrived(sent[k]))

LEMMA SentArrivesStep ==
  ASSUME ArriveInBounds, SentSeq, SentArrives, [Next]_vars
  PROVE  SentArrives'
<1>1. ASSUME NEW r \in Request, ClientAsks(r) PROVE SentArrives'
  <2>1. PICK T : sent \in Seq(T)
    BY DEF SentSeq
  <2> DEFINE n == Len(sent)
             o == [op |-> r.op, size |-> r.size, majic |-> n + 1,
                   address |-> r.address, values |-> r.values]
             z == [op |-> r.op, size |-> r.size, majic |-> 0,
                   address |-> r.address, values |-> r.values]
             s == Append(sent, o)
  <2>2. sent' = s
    BY <1>1 DEF ClientAsks
  <2>3. InBounds(Arrived(o))
    <3>1. InBounds(Arrived(z))
      BY DEF ArriveInBounds
    <3>2. Arrived(o).size = Arrived(z).size /\ Arrived(o).address = Arrived(z).address
      BY DEF Arrived
    <3> HIDE DEF o, z
    <3> QED BY <3>1, <3>2 DEF InBounds
  <2> HIDE DEF o
  <2>4. /\ n \in Nat /\ DOMAIN sent = 1..n /\ DOMAIN s = 1..n + 1
        /\ \A k \in 1..n : s[k] = sent[k]
        /\ s[n + 1] = o
    BY <2>1, Appended
  <2> HIDE DEF n, s
  <2>5. \A k \in 1..n + 1 : k \in 1..n \/ k = n + 1
    BY <2>4
  <2>6. \A k \in DOMAIN s : InBounds(Arrived(s[k]))
    BY <2>3, <2>4, <2>5, Zenon DEF SentArrives
  <2> QED BY <2>2, <2>6, Zenon DEF SentArrives
<1>2. CASE UNCHANGED sent
  BY <1>2 DEF SentArrives
<1>3. UNCHANGED sent \/ \E r \in Request : ClientAsks(r)
  BY DEF Next, ClientSends, StrayByte, OnRecv, SocketHandler, SocketError, Stop, clientVars, vars
<1> QED BY <1>1, <1>2, <1>3

(* Where nothing is lost and nothing comes in between, and the client asks  *)
(* for words in the memory, the stack implements the abstract memory        *)
(* without any other condition: whatever bytes the requests hold, however   *)
(* their frames are cut, with and without PC_DEBUG.                         *)
(* basicProtocol.h:186-325, readWriteProtocol.h:97-156.                     *)
THEOREM FaultFree ==
  ASSUME MaxFaults = 0, ArriveInBounds
  PROVE  Spec => ImplementsRemoteMemory
<1>1. Init => SentArrives
  BY DEF Init, SentArrives
<1>2. PcInv /\ SentArrives /\ [Next]_vars => SentArrives'
  BY SentArrivesStep DEF PcInv
<1>3. PcInv /\ ServiceInv /\ SentArrives => RequestsInBounds
  <2> SUFFICES ASSUME PcInv, ServiceInv, SentArrives PROVE RequestsInBounds
    OBVIOUS
  <2>1. faults = 0
    BY DEF PcInv, Bounded
  <2>2. /\ sent \in Seq(Header) /\ executed \in Seq(Header) /\ Len(executed) <= Len(sent)
        /\ \A k \in 1..Len(executed) : executed[k] = Arrived(sent[k])
    BY <2>1 DEF ServiceInv, SentHeaders, Undisturbed, InOrder
  <2>3. /\ DOMAIN executed = 1..Len(executed) /\ DOMAIN sent = 1..Len(sent)
        /\ 1..Len(executed) \subseteq 1..Len(sent)
    BY <2>2
  <2> QED BY <2>2, <2>3, Zenon DEF RequestsInBounds, SentArrives
<1> QED BY <1>1, <1>2, <1>3, ServiceImplements, PcInvariance, ServiceInvariance, PTL DEF Spec
=============================================================================
