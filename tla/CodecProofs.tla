---------------------------- MODULE CodecProofs -----------------------------
(***************************************************************************)
(* What the operators on bytes and characters compute: the loops of module *)
(* Framing, its CRC, its frames and their decoder, and the scanners of     *)
(* module FormatScan.                                                      *)
(***************************************************************************)
EXTENDS Framing, FormatScan, SumLemmas

-----------------------------------------------------------------------------
(***************************************************************************)
(* Loops.  Read is a recursive function on positions and states, and says  *)
(* nothing before such a function is known to exist.  It is built from the *)
(* last position backwards; then it yields the last state of the run from  *)
(* the first position, one step after the other.  The step of a loop is    *)
(* given as a function here, of <<position, state>>.                       *)
(***************************************************************************)
Unfolds(f, step, first, last, States) ==
    /\ f \in [(first .. last + 1) \X States -> States]
    /\ \A n \in first .. last, s \in States : f[<<n, s>>] = f[<<n + 1, step[<<n, s>>]>>]
    /\ \A s \in States : f[<<last + 1, s>>] = s

\* From any position on, a function that steps to the end exists.
LEMMA UnfoldingExists ==
    ASSUME NEW last \in Nat, NEW States, NEW step \in [(1 .. last) \X States -> States]
    PROVE  \E f : Unfolds(f, step, 1, last, States)
<1> DEFINE T == {k \in Nat : k <= last => \E f : Unfolds(f, step, last + 1 - k, last, States)}
<1>1. 0 \in T
  <2>1. Unfolds([x \in {last + 1} \X States |-> x[2]], step, last + 1, last, States)
    BY DEF Unfolds
  <2> QED
    BY <2>1, last + 1 - 0 = last + 1
<1>2. ASSUME NEW k \in Nat, k \in T PROVE k + 1 \in T
  <2>1. SUFFICES ASSUME k + 1 <= last PROVE \E f : Unfolds(f, step, last + 1 - (k + 1), last, States)
    OBVIOUS
  <2>2. PICK f : Unfolds(f, step, last + 1 - k, last, States)
    BY <1>2, <2>1
  <2> DEFINE m == last - k
             g == [x \in (m .. last + 1) \X States |->
                     IF x[1] = m THEN f[<<m + 1, step[<<m, x[2]>>]>>] ELSE f[x]]
  <2>3. m \in 1 .. last /\ last + 1 - (k + 1) = m /\ last + 1 - k = m + 1
    BY <2>1
  <2>4. /\ f \in [(m + 1 .. last + 1) \X States -> States]
        /\ \A n \in m + 1 .. last, s \in States : f[<<n, s>>] = f[<<n + 1, step[<<n, s>>]>>]
        /\ \A s \in States : f[<<last + 1, s>>] = s
    BY <2>2, <2>3 DEF Unfolds
  <2> HIDE DEF m
  <2>5. ASSUME NEW s \in States PROVE step[<<m, s>>] \in States
    BY <2>3
  <2>6. g \in [(m .. last + 1) \X States -> States]
    BY <2>3, <2>4, <2>5
  <2>7. ASSUME NEW s \in States PROVE g[<<m, s>>] = f[<<m + 1, step[<<m, s>>]>>]
    BY <2>3
  <2>8. ASSUME NEW n \in m + 1 .. last + 1, NEW s \in States PROVE g[<<n, s>>] = f[<<n, s>>]
    BY <2>3
  <2> HIDE DEF g
  <2>9. \A n \in m .. last, s \in States : g[<<n, s>>] = g[<<n + 1, step[<<n, s>>]>>]
    <3>1. ASSUME NEW s \in States PROVE g[<<m, s>>] = g[<<m + 1, step[<<m, s>>]>>]
      BY <2>3, <2>5, <2>7, <2>8
    <3>2. ASSUME NEW n \in m + 1 .. last, NEW s \in States
          PROVE  g[<<n, s>>] = g[<<n + 1, step[<<n, s>>]>>]
      <4>1. n \in 1 .. last /\ n + 1 \in m + 1 .. last + 1 /\ n \in m + 1 .. last + 1
        BY <2>3
      <4>2. step[<<n, s>>] \in States
        BY <4>1
      <4> QED
        BY <2>4, <2>8, <4>1, <4>2
    <3>3. ASSUME NEW n \in m .. last, NEW s \in States
          PROVE  g[<<n, s>>] = g[<<n + 1, step[<<n, s>>]>>]
      <4>1. n = m \/ n \in m + 1 .. last
        BY <2>3
      <4> QED
        BY <3>1, <3>2, <4>1, Zenon
    <3> QED
      BY <3>3, Zenon
  <2>10. \A s \in States : g[<<last + 1, s>>] = s
    BY <2>3, <2>4, <2>8
  <2>11. Unfolds(g, step, m, last, States)
    BY <2>6, <2>9, <2>10 DEF Unfolds
  <2> QED
    BY <2>3, <2>11
<1>3. last \in T
  <2> HIDE DEF T
  <2> QED
    BY <1>1, <1>2, SetInduction
<1> QED
  BY <1>3, last + 1 - last = 1

\* One round of the recursion, as it stands in Read.
Unfolded(f, step, last, States) ==
    [at \in (1 .. last + 1) \X States |->
       IF at[1] > last THEN at[2] ELSE f[<<at[1] + 1, step[at]>>]]

\* The recursion has a solution.
LEMMA FixedPointExists ==
    ASSUME NEW last \in Nat, NEW States, NEW step \in [(1 .. last) \X States -> States]
    PROVE  \E f : f = Unfolded(f, step, last, States)
<1>1. PICK f : Unfolds(f, step, 1, last, States)
  BY UnfoldingExists
<1> DEFINE g == Unfolded(f, step, last, States)
           D == (1 .. last + 1) \X States
<1>2. ASSUME NEW at \in D PROVE g[at] = f[at]
  <2>1. PICK n \in 1 .. last + 1, s \in States : at = <<n, s>>
    OBVIOUS
  <2>2. g[at] = IF n > last THEN s ELSE f[<<n + 1, step[<<n, s>>]>>]
    BY <2>1 DEF Unfolded
  <2>3. CASE n = last + 1
    BY <1>1, <2>1, <2>2, <2>3 DEF Unfolds
  <2>4. CASE n \in 1 .. last
    <3>1. f[<<n, s>>] = f[<<n + 1, step[<<n, s>>]>>]
      BY <1>1, <2>4 DEF Unfolds
    <3>2. ~(n > last)
      BY <2>4
    <3> QED
      BY <2>1, <2>2, <3>1, <3>2
  <2> QED
    BY <2>3, <2>4
<1>3. DOMAIN f = D /\ DOMAIN g = D /\ f = [x \in DOMAIN f |-> f[x]] /\ g = [x \in DOMAIN g |-> g[x]]
  BY <1>1 DEF Unfolds, Unfolded
<1> HIDE DEF g, D
<1>4. f = g
  BY <1>2, <1>3
<1> QED
  BY <1>4 DEF g

\* What a solution is worth at each position.
LEMMA FixedPoint ==
    ASSUME NEW last \in Nat, NEW States, NEW step, NEW f, f = Unfolded(f, step, last, States)
    PROVE  /\ \A n \in 1 .. last, s \in States : f[<<n, s>>] = f[<<n + 1, step[<<n, s>>]>>]
           /\ \A s \in States : f[<<last + 1, s>>] = s
<1>1. ASSUME NEW n \in 1 .. last + 1, NEW s \in States
      PROVE  f[<<n, s>>] = IF n > last THEN s ELSE f[<<n + 1, step[<<n, s>>]>>]
  <2> DEFINE g == Unfolded(f, step, last, States)
  <2>1. g[<<n, s>>] = IF n > last THEN s ELSE f[<<n + 1, step[<<n, s>>]>>]
    BY DEF Unfolded
  <2> HIDE DEF g
  <2> QED
    BY <2>1 DEF g
<1>2. ASSUME NEW n \in 1 .. last, NEW s \in States
      PROVE  f[<<n, s>>] = f[<<n + 1, step[<<n, s>>]>>]
  <2>1. n \in 1 .. last + 1 /\ ~(n > last)
    OBVIOUS
  <2> QED
    BY <1>1, <2>1, Zenon
<1>3. ASSUME NEW s \in States PROVE f[<<last + 1, s>>] = s
  <2>1. last + 1 \in 1 .. last + 1 /\ last + 1 > last
    OBVIOUS
  <2> QED
    BY <1>1, <2>1, Zenon
<1> QED
  BY <1>2, <1>3, Zenon

\* The states a loop goes through.
RunOf(t, step, start, last, States) ==
    /\ t \in [1 .. last + 1 -> States]
    /\ t[1] = start
    /\ \A n \in 1 .. last : t[n + 1] = step[<<n, t[n]>>]

Yields(result, step, start, last, States) ==
    \E t : RunOf(t, step, start, last, States) /\ result = t[last + 1]

\* A solution yields the last state of the loop.
LEMMA FixedPointRuns ==
    ASSUME NEW last \in Nat, NEW States, NEW step \in [(1 .. last) \X States -> States],
           NEW start \in States, NEW f, f = Unfolded(f, step, last, States)
    PROVE  Yields(f[<<1, start>>], step, start, last, States)
<1> DEFINE Reached(t, k) == RunOf(t, step, start, k, States) /\ f[<<1, start>>] = f[<<k + 1, t[k + 1]>>]
           T == {k \in Nat : k <= last => \E t : Reached(t, k)}
<1> HIDE DEF Reached
<1>0. /\ \A n \in 1 .. last, s \in States : f[<<n, s>>] = f[<<n + 1, step[<<n, s>>]>>]
      /\ \A s \in States : f[<<last + 1, s>>] = s
  BY FixedPoint
<1>1. 0 \in T
  <2> DEFINE t == [n \in 1 .. 1 |-> start]
  <2>1. RunOf(t, step, start, 0, States) /\ t[1] = start
    BY DEF RunOf
  <2> HIDE DEF t
  <2>2. Reached(t, 0)
    BY <2>1, 0 + 1 = 1 DEF Reached
  <2> QED
    BY <2>2
<1>2. ASSUME NEW k \in Nat, k \in T PROVE k + 1 \in T
  <2>1. SUFFICES ASSUME k + 1 <= last PROVE \E t : Reached(t, k + 1)
    OBVIOUS
  <2>2. PICK t : Reached(t, k)
    BY <1>2, <2>1
  <2>3. /\ t \in [1 .. k + 1 -> States] /\ t[1] = start
        /\ \A n \in 1 .. k : t[n + 1] = step[<<n, t[n]>>]
        /\ f[<<1, start>>] = f[<<k + 1, t[k + 1]>>]
    BY <2>2 DEF RunOf, Reached
  <2> DEFINE next == step[<<k + 1, t[k + 1]>>]
             u == [n \in 1 .. (k + 1) + 1 |-> IF n = k + 2 THEN next ELSE t[n]]
  <2>4. k + 1 \in 1 .. last /\ t[k + 1] \in States
    BY <2>1, <2>3
  <2>5. next \in States
    BY <2>4
  <2>6. f[<<k + 1, t[k + 1]>>] = f[<<(k + 1) + 1, next>>]
    BY <1>0, <2>4, Zenon
  <2> HIDE DEF next
  <2>7. /\ u \in [1 .. (k + 1) + 1 -> States] /\ u[1] = start /\ u[(k + 1) + 1] = next
        /\ \A n \in 1 .. k + 1 : u[n] = t[n]
    BY <2>3, <2>5
  <2> HIDE DEF u
  <2>8. ASSUME NEW n \in 1 .. k + 1 PROVE u[n + 1] = step[<<n, u[n]>>]
    <3>1. CASE n = k + 1
      BY <2>7, <3>1 DEF next
    <3>2. CASE n \in 1 .. k
      <4>1. n + 1 \in 1 .. k + 1 /\ n \in 1 .. k + 1
        BY <3>2
      <4> QED
        BY <2>3, <2>7, <3>2, <4>1
    <3> QED
      BY <3>1, <3>2
  <2>9. Reached(u, k + 1)
    BY <2>3, <2>6, <2>7, <2>8 DEF RunOf, Reached
  <2> QED
    BY <2>9
<1>3. last \in T
  <2> HIDE DEF T
  <2> QED
    BY <1>1, <1>2, SetInduction
<1>4. PICK t : Reached(t, last)
  BY <1>3
<1>5. t[last + 1] \in States
  BY <1>4 DEF RunOf, Reached
<1>6. f[<<last + 1, t[last + 1]>>] = t[last + 1]
  BY <1>0, <1>5, Zenon
<1> QED
  BY <1>4, <1>6 DEF Reached, Yields

\* A loop ends in the last of the states it goes through.
LEMMA RunYields ==
    ASSUME NEW last \in Nat, NEW States, NEW step \in [(1 .. last) \X States -> States],
           NEW start \in States
    PROVE  Yields(Run(step, States, start, last), step, start, last, States)
<1> DEFINE from == CHOOSE f : f = Unfolded(f, step, last, States)
<1>1. from = Unfolded(from, step, last, States)
  BY FixedPointExists, Zenon
<1>2. Run(step, States, start, last) = from[<<1, start>>]
  BY DEF Run, Unfolded
<1> HIDE DEF from
<1> QED
  BY <1>1, <1>2, FixedPointRuns

\* It goes through them in one way only.
LEMMA RunsAgree ==
    ASSUME NEW last \in Nat, NEW States, NEW step, NEW start,
           NEW t, RunOf(t, step, start, last, States),
           NEW u, RunOf(u, step, start, last, States)
    PROVE  t[last + 1] = u[last + 1]
<1> DEFINE T == {k \in Nat : k <= last => t[k + 1] = u[k + 1]}
<1>1. 0 \in T
  BY 0 + 1 = 1 DEF RunOf
<1>2. ASSUME NEW k \in Nat, k \in T PROVE k + 1 \in T
  <2>1. SUFFICES ASSUME k + 1 <= last PROVE t[(k + 1) + 1] = u[(k + 1) + 1]
    OBVIOUS
  <2>2. k + 1 \in 1 .. last /\ t[k + 1] = u[k + 1]
    BY <1>2, <2>1
  <2> QED
    BY <2>2, Zenon DEF RunOf
<1>3. last \in T
  <2> HIDE DEF T
  <2> QED
    BY <1>1, <1>2, SetInduction
<1> QED
  BY <1>3

\* The result is one of the states.
LEMMA RunType ==
    ASSUME NEW last \in Nat, NEW States, NEW step \in [(1 .. last) \X States -> States],
           NEW start \in States
    PROVE  Run(step, States, start, last) \in States
<1>1. PICK t : RunOf(t, step, start, last, States) /\ Run(step, States, start, last) = t[last + 1]
  BY RunYields DEF Yields
<1>2. last + 1 \in 1 .. last + 1
  OBVIOUS
<1> QED
  BY <1>1, <1>2, Zenon DEF RunOf

-----------------------------------------------------------------------------
(***************************************************************************)
(* The CRC.  A word is the value of its sixteen bits; exclusive or and the *)
(* bit step of the division are what they are on the bits, so the step is  *)
(* linear, and the table needs to be compared with it for powers of two    *)
(* only.                                                                   *)
(***************************************************************************)
\* Ranges with a large bound are best kept folded.
LEMMA RangeIs ==
    ASSUME NEW n \in Int
    PROVE  \A w : w \in 0 .. n <=> w \in Int /\ 0 <= w /\ w <= n
  OBVIOUS

LEMMA WordIs == \A w : w \in Word16 <=> w \in Int /\ 0 <= w /\ w <= 65535
<1> DEFINE n == 65535
<1>1. n \in Int
  OBVIOUS
<1>0. n = 65535
  OBVIOUS
<1>2. Word16 = 0 .. n
  BY DEF Word16
<1> HIDE DEF n
<1>3. \A w : w \in Word16 <=> w \in Int /\ 0 <= w /\ w <= n
  BY <1>1, <1>2, RangeIs
<1> QED
  BY <1>0, <1>3

LEMMA ByteIs == \A w : w \in Byte <=> w \in Int /\ 0 <= w /\ w <= 255
<1> DEFINE n == 255
<1>1. n \in Int
  OBVIOUS
<1>0. n = 255
  OBVIOUS
<1>2. Byte = 0 .. n
  BY DEF Byte
<1> HIDE DEF n
<1>3. \A w : w \in Byte <=> w \in Int /\ 0 <= w /\ w <= n
  BY <1>1, <1>2, RangeIs
<1> QED
  BY <1>0, <1>3

Bit == {0, 1}

Pack(b7, b6, b5, b4, b3, b2, b1, b0) ==
    128 * b7 + 64 * b6 + 32 * b5 + 16 * b4 + 8 * b3 + 4 * b2 + 2 * b1 + b0

LEMMA UnpackNibble ==
    ASSUME NEW a \in 0 .. 15
    PROVE  \E b3, b2, b1, b0 \in Bit : a = 8 * b3 + 4 * b2 + 2 * b1 + b0
  BY DEF Bit

LEMMA Nibbles ==
    ASSUME NEW x \in Byte
    PROVE  \E h, l \in 0 .. 15 : x = 16 * h + l
<1>1. /\ x % 16 \in Int /\ 0 <= x % 16 /\ x % 16 <= 15 /\ x \div 16 \in Int
      /\ x = 16 * (x \div 16) + (x % 16)
  BY DEF Byte
<1>2. ASSUME NEW q \in Int, NEW r \in Int, 0 <= r, r <= 15, x = 16 * q + r
      PROVE  q \in 0 .. 15 /\ r \in 0 .. 15
  <2>1. x \in Int /\ 0 <= x /\ x <= 255
    BY DEF Byte
  <2>2. q >= 0
    BY <1>2, <2>1
  <2>3. q <= 15
    BY <1>2, <2>1
  <2> QED
    BY <1>2, <2>2, <2>3
<1> QED
  BY <1>1, <1>2, Zenon

LEMMA UnpackByte ==
    ASSUME NEW a \in Byte
    PROVE  \E b7, b6, b5, b4, b3, b2, b1, b0 \in Bit : a = Pack(b7, b6, b5, b4, b3, b2, b1, b0)
<1>1. PICK h \in 0 .. 15, l \in 0 .. 15 : a = 16 * h + l
  BY Nibbles
<1>2. PICK b7 \in Bit, b6 \in Bit, b5 \in Bit, b4 \in Bit : h = 8 * b7 + 4 * b6 + 2 * b5 + b4
  BY UnpackNibble
<1>3. PICK b3 \in Bit, b2 \in Bit, b1 \in Bit, b0 \in Bit : l = 8 * b3 + 4 * b2 + 2 * b1 + b0
  BY UnpackNibble
<1>4. a = Pack(b7, b6, b5, b4, b3, b2, b1, b0)
  BY <1>1, <1>2, <1>3 DEF Pack, Bit
<1> QED
  BY <1>4

\* Shifting bits out.
Quotients(a, b7, b6, b5, b4, b3, b2, b1, b0) ==
    /\ a \in Byte
    /\ a \div 1 = 2 * (64 * b7 + 32 * b6 + 16 * b5 + 8 * b4 + 4 * b3 + 2 * b2 + b1) + b0
    /\ a \div 2 = 2 * (32 * b7 + 16 * b6 + 8 * b5 + 4 * b4 + 2 * b3 + b2) + b1
    /\ a \div 4 = 2 * (16 * b7 + 8 * b6 + 4 * b5 + 2 * b4 + b3) + b2
    /\ a \div 8 = 2 * (8 * b7 + 4 * b6 + 2 * b5 + b4) + b3
    /\ a \div 16 = 2 * (4 * b7 + 2 * b6 + b5) + b4
    /\ a \div 32 = 2 * (2 * b7 + b6) + b5
    /\ a \div 64 = 2 * b7 + b6
    /\ a \div 128 = b7

LEMMA PackQuotients ==
    ASSUME NEW b7 \in Bit, NEW b6 \in Bit, NEW b5 \in Bit, NEW b4 \in Bit,
           NEW b3 \in Bit, NEW b2 \in Bit, NEW b1 \in Bit, NEW b0 \in Bit
    PROVE  Quotients(Pack(b7, b6, b5, b4, b3, b2, b1, b0), b7, b6, b5, b4, b3, b2, b1, b0)
  BY DEF Quotients, Pack, Bit, Byte

\* Exclusive or of two bits.
Plus(a, b) == (a + b) % 2

LEMMA Parity ==
    ASSUME NEW m \in Int, NEW n \in Int, NEW a \in Bit, NEW b \in Bit
    PROVE  ((2 * m + a) + (2 * n + b)) % 2 = Plus(a, b)
  BY DEF Bit, Plus

LEMMA PlusFacts ==
    ASSUME NEW a \in Bit, NEW b \in Bit
    PROVE  /\ Plus(a, b) \in Bit /\ Plus(a, b) = Plus(b, a) /\ Plus(a, 0) = a /\ Plus(0, b) = b
           /\ \A c \in Bit : Plus(Plus(a, b), c) = Plus(a, Plus(b, c))
  BY DEF Bit, Plus

AreBits(b7, b6, b5, b4, b3, b2, b1, b0) ==
    /\ b7 \in Bit /\ b6 \in Bit /\ b5 \in Bit /\ b4 \in Bit
    /\ b3 \in Bit /\ b2 \in Bit /\ b1 \in Bit /\ b0 \in Bit

\* Exclusive or of two bytes, bit by bit.
XorsTo(a, b, c) == XorByte[a][b] = c

LEMMA XorOfBits ==
    ASSUME NEW a7, NEW a6, NEW a5, NEW a4, NEW a3, NEW a2, NEW a1, NEW a0,
           AreBits(a7, a6, a5, a4, a3, a2, a1, a0),
           NEW b7, NEW b6, NEW b5, NEW b4, NEW b3, NEW b2, NEW b1, NEW b0,
           AreBits(b7, b6, b5, b4, b3, b2, b1, b0)
    PROVE  XorsTo(Pack(a7, a6, a5, a4, a3, a2, a1, a0), Pack(b7, b6, b5, b4, b3, b2, b1, b0),
                  Pack(Plus(a7, b7), Plus(a6, b6), Plus(a5, b5), Plus(a4, b4),
                       Plus(a3, b3), Plus(a2, b2), Plus(a1, b1), Plus(a0, b0)))
<1>t. /\ a7 \in Bit /\ a6 \in Bit /\ a5 \in Bit /\ a4 \in Bit
      /\ a3 \in Bit /\ a2 \in Bit /\ a1 \in Bit /\ a0 \in Bit
      /\ b7 \in Bit /\ b6 \in Bit /\ b5 \in Bit /\ b4 \in Bit
      /\ b3 \in Bit /\ b2 \in Bit /\ b1 \in Bit /\ b0 \in Bit
  BY DEF AreBits
<1> DEFINE a == Pack(a7, a6, a5, a4, a3, a2, a1, a0)
           b == Pack(b7, b6, b5, b4, b3, b2, b1, b0)
           Differ(bit) == bit * (((a \div bit) + (b \div bit)) % 2)
<1>0. Bit \subseteq Int
  BY DEF Bit
<1>1. Quotients(a, a7, a6, a5, a4, a3, a2, a1, a0)
  BY <1>t, PackQuotients, Zenon
<1>2. Quotients(b, b7, b6, b5, b4, b3, b2, b1, b0)
  BY <1>t, PackQuotients, Zenon
<1>3. XorByte[a][b] = Differ(1) + Differ(2) + Differ(4) + Differ(8)
                      + Differ(16) + Differ(32) + Differ(64) + Differ(128)
  BY <1>1, <1>2 DEF XorByte, Quotients
<1> HIDE DEF a, b
<1>4. /\ Differ(1) = Plus(a0, b0) /\ Differ(2) = 2 * Plus(a1, b1) /\ Differ(4) = 4 * Plus(a2, b2)
      /\ Differ(8) = 8 * Plus(a3, b3) /\ Differ(16) = 16 * Plus(a4, b4)
      /\ Differ(32) = 32 * Plus(a5, b5) /\ Differ(64) = 64 * Plus(a6, b6)
      /\ Differ(128) = 128 * Plus(a7, b7)
  <2>1. Differ(1) = Plus(a0, b0)
    BY <1>t, <1>0, <1>1, <1>2, Parity DEF Quotients
  <2>2. Differ(2) = 2 * Plus(a1, b1)
    BY <1>t, <1>0, <1>1, <1>2, Parity DEF Quotients
  <2>3. Differ(4) = 4 * Plus(a2, b2)
    BY <1>t, <1>0, <1>1, <1>2, Parity DEF Quotients
  <2>4. Differ(8) = 8 * Plus(a3, b3)
    BY <1>t, <1>0, <1>1, <1>2, Parity DEF Quotients
  <2>5. Differ(16) = 16 * Plus(a4, b4)
    BY <1>t, <1>0, <1>1, <1>2, Parity DEF Quotients
  <2>6. Differ(32) = 32 * Plus(a5, b5)
    BY <1>t, <1>0, <1>1, <1>2, Parity DEF Quotients
  <2>7. Differ(64) = 64 * Plus(a6, b6)
    BY <1>t, <1>0, <1>1, <1>2, Parity DEF Quotients
  <2>8. Differ(128) = 128 * Plus(a7, b7)
    BY <1>1, <1>2 DEF Plus, Quotients
  <2> QED
    BY <2>1, <2>2, <2>3, <2>4, <2>5, <2>6, <2>7, <2>8
<1>5. /\ Plus(a7, b7) \in Int /\ Plus(a6, b6) \in Int /\ Plus(a5, b5) \in Int
      /\ Plus(a4, b4) \in Int /\ Plus(a3, b3) \in Int /\ Plus(a2, b2) \in Int
      /\ Plus(a1, b1) \in Int /\ Plus(a0, b0) \in Int
  BY <1>t, <1>0, PlusFacts
<1>6. XorByte[a][b] = Pack(Plus(a7, b7), Plus(a6, b6), Plus(a5, b5), Plus(a4, b4),
                           Plus(a3, b3), Plus(a2, b2), Plus(a1, b1), Plus(a0, b0))
  BY <1>3, <1>4, <1>5 DEF Pack
<1> QED
  BY <1>6 DEF a, b, XorsTo

\* The word of two bytes.
Word2(h, l) == 256 * h + l

\* Doubling, and the bit that falls out.
DoublesTo(word, top, rest) == 2 * word = 65536 * top + rest

LEMMA DoublePack ==
    ASSUME NEW h7, NEW h6, NEW h5, NEW h4, NEW h3, NEW h2, NEW h1, NEW h0,
           AreBits(h7, h6, h5, h4, h3, h2, h1, h0),
           NEW l7, NEW l6, NEW l5, NEW l4, NEW l3, NEW l2, NEW l1, NEW l0,
           AreBits(l7, l6, l5, l4, l3, l2, l1, l0)
    PROVE  DoublesTo(Word2(Pack(h7, h6, h5, h4, h3, h2, h1, h0), Pack(l7, l6, l5, l4, l3, l2, l1, l0)),
                     h7,
                     Word2(Pack(h6, h5, h4, h3, h2, h1, h0, l7), Pack(l6, l5, l4, l3, l2, l1, l0, 0)))
<1>t. /\ h7 \in Bit /\ h6 \in Bit /\ h5 \in Bit /\ h4 \in Bit
      /\ h3 \in Bit /\ h2 \in Bit /\ h1 \in Bit /\ h0 \in Bit
      /\ l7 \in Bit /\ l6 \in Bit /\ l5 \in Bit /\ l4 \in Bit
      /\ l3 \in Bit /\ l2 \in Bit /\ l1 \in Bit /\ l0 \in Bit
  BY DEF AreBits
<1>1. /\ h7 \in Int /\ h6 \in Int /\ h5 \in Int /\ h4 \in Int
      /\ h3 \in Int /\ h2 \in Int /\ h1 \in Int /\ h0 \in Int
      /\ l7 \in Int /\ l6 \in Int /\ l5 \in Int /\ l4 \in Int
      /\ l3 \in Int /\ l2 \in Int /\ l1 \in Int /\ l0 \in Int
  BY <1>t DEF Bit
<1> QED
  BY <1>1 DEF Pack, DoublesTo, Word2

\* The top bit of a word.
IsHigh(word) == word >= 32768

LEMMA TopBit ==
    ASSUME NEW h7, NEW h6, NEW h5, NEW h4, NEW h3, NEW h2, NEW h1, NEW h0,
           AreBits(h7, h6, h5, h4, h3, h2, h1, h0), NEW l \in Byte
    PROVE  IsHigh(Word2(Pack(h7, h6, h5, h4, h3, h2, h1, h0), l)) <=> h7 = 1
<1>t. /\ h7 \in Bit /\ h6 \in Bit /\ h5 \in Bit /\ h4 \in Bit
      /\ h3 \in Bit /\ h2 \in Bit /\ h1 \in Bit /\ h0 \in Bit
  BY DEF AreBits
<1> DEFINE h == Pack(h7, h6, h5, h4, h3, h2, h1, h0)
<1>1. h \in Int /\ h7 \in {0, 1} /\ (h7 = 1 => h >= 128) /\ (h7 = 0 => h <= 127)
  BY <1>t DEF Pack, Bit
<1>2. l \in Int /\ 0 <= l /\ l <= 255
  BY ByteIs
<1> HIDE DEF h
<1>3. 256 * h + l >= 32768 <=> h7 = 1
  <2>1. CASE h7 = 1
    BY <1>1, <1>2, <2>1
  <2>2. CASE h7 = 0
    BY <1>1, <1>2, <2>2
  <2> QED
    BY <1>1, <2>1, <2>2
<1> QED
  BY <1>3 DEF h, IsHigh, Word2

\* Words.
Bits == [0 .. 15 -> Bit]

Value(b) == Word2(Pack(b[15], b[14], b[13], b[12], b[11], b[10], b[9], b[8]),
                  Pack(b[7], b[6], b[5], b[4], b[3], b[2], b[1], b[0]))

LEMMA WordHalves ==
    ASSUME NEW x \in Word16
    PROVE  x \div 256 \in Byte /\ x % 256 \in Byte /\ x = 256 * (x \div 256) + (x % 256)
<1>1. /\ x % 256 \in Int /\ 0 <= x % 256 /\ x % 256 <= 255 /\ x \div 256 \in Int
      /\ x = 256 * (x \div 256) + (x % 256)
  BY WordIs
<1>2. ASSUME NEW q \in Int, NEW r \in Int, 0 <= r, r <= 255, x = 256 * q + r
      PROVE  q \in Byte /\ r \in Byte
  <2>1. x \in Int /\ 0 <= x /\ x <= 65535
    BY WordIs
  <2>2. q >= 0
    BY <1>2, <2>1
  <2>3. q <= 255
    BY <1>2, <2>1
  <2> QED
    BY <1>2, <2>2, <2>3, ByteIs
<1> QED
  BY <1>1, <1>2

LEMMA BytesMakeWord ==
    ASSUME NEW h \in Byte, NEW l \in Byte
    PROVE  /\ 256 * h + l \in Word16
           /\ (256 * h + l) \div 256 = h /\ (256 * h + l) % 256 = l
<1> DEFINE w == 256 * h + l
<1>1. h \in Nat /\ h <= 255 /\ l \in 0 .. 255 /\ l \in Nat /\ l <= 255
  BY DEF Byte
<1>2. w \div 256 = h /\ w % 256 = l
  BY <1>1
<1>3. w \in Nat /\ w <= 65535
  BY <1>1
<1> HIDE DEF w
<1>4. w \in Word16
  BY <1>3, WordIs
<1> QED
  BY <1>2, <1>4 DEF w

LEMMA UnpackWord ==
    ASSUME NEW x \in Word16
    PROVE  \E b \in Bits : x = Value(b)
<1> DEFINE h == x \div 256
           l == x % 256
<1>1. h \in Byte /\ l \in Byte /\ x = 256 * h + l
  BY WordHalves
<1> HIDE DEF h, l
<1>2. PICK h7 \in Bit, h6 \in Bit, h5 \in Bit, h4 \in Bit, h3 \in Bit, h2 \in Bit, h1 \in Bit, h0 \in Bit :
         h = Pack(h7, h6, h5, h4, h3, h2, h1, h0)
  BY <1>1, UnpackByte
<1>3. PICK l7 \in Bit, l6 \in Bit, l5 \in Bit, l4 \in Bit, l3 \in Bit, l2 \in Bit, l1 \in Bit, l0 \in Bit :
         l = Pack(l7, l6, l5, l4, l3, l2, l1, l0)
  BY <1>1, UnpackByte
<1> DEFINE all == <<l0, l1, l2, l3, l4, l5, l6, l7, h0, h1, h2, h3, h4, h5, h6, h7>>
           b == [k \in 0 .. 15 |-> all[k + 1]]
<1>4. \A k \in 1 .. 16 : all[k] \in Bit
  OBVIOUS
<1>5. /\ b[0] = l0 /\ b[1] = l1 /\ b[2] = l2 /\ b[3] = l3 /\ b[4] = l4 /\ b[5] = l5 /\ b[6] = l6
      /\ b[7] = l7 /\ b[8] = h0 /\ b[9] = h1 /\ b[10] = h2 /\ b[11] = h3 /\ b[12] = h4
      /\ b[13] = h5 /\ b[14] = h6 /\ b[15] = h7
  OBVIOUS
<1>6. b \in Bits
  <2>1. \A k \in 0 .. 15 : k + 1 \in 1 .. 16
    OBVIOUS
  <2> HIDE DEF all
  <2> QED
    BY <1>4, <2>1 DEF Bits
<1> HIDE DEF b
<1>7. x = Value(b)
  BY <1>1, <1>2, <1>3, <1>5 DEF Value, Word2
<1> QED
  BY <1>6, <1>7

LEMMA ValueHalves ==
    ASSUME NEW b \in Bits
    PROVE  /\ Value(b) \in Word16
           /\ Value(b) \div 256 = Pack(b[15], b[14], b[13], b[12], b[11], b[10], b[9], b[8])
           /\ Value(b) % 256 = Pack(b[7], b[6], b[5], b[4], b[3], b[2], b[1], b[0])
<1>1. /\ b[15] \in Bit /\ b[14] \in Bit /\ b[13] \in Bit /\ b[12] \in Bit
      /\ b[11] \in Bit /\ b[10] \in Bit /\ b[9] \in Bit /\ b[8] \in Bit
      /\ b[7] \in Bit /\ b[6] \in Bit /\ b[5] \in Bit /\ b[4] \in Bit
      /\ b[3] \in Bit /\ b[2] \in Bit /\ b[1] \in Bit /\ b[0] \in Bit
  BY DEF Bits
<1> DEFINE h == Pack(b[15], b[14], b[13], b[12], b[11], b[10], b[9], b[8])
           l == Pack(b[7], b[6], b[5], b[4], b[3], b[2], b[1], b[0])
<1>2. h \in Byte
  <2>1. Quotients(h, b[15], b[14], b[13], b[12], b[11], b[10], b[9], b[8])
    BY <1>1, PackQuotients, Zenon
  <2> QED
    BY <2>1 DEF Quotients
<1>3. l \in Byte
  <2>1. Quotients(l, b[7], b[6], b[5], b[4], b[3], b[2], b[1], b[0])
    BY <1>1, PackQuotients, Zenon
  <2> QED
    BY <2>1 DEF Quotients
<1>4. Value(b) = 256 * h + l
  BY DEF Value, Word2
<1> HIDE DEF h, l
<1>5. /\ Value(b) \in Word16 /\ Value(b) \div 256 = h /\ Value(b) % 256 = l
  BY <1>2, <1>3, <1>4, BytesMakeWord
<1> QED
  BY <1>5 DEF h, l

Sum16(b, c) == [k \in 0 .. 15 |-> Plus(b[k], c[k])]

LEMMA XorOfWords ==
    ASSUME NEW b \in Bits, NEW c \in Bits
    PROVE  Sum16(b, c) \in Bits /\ Xor16(Value(b), Value(c)) = Value(Sum16(b, c))
<1>0. /\ AreBits(b[15], b[14], b[13], b[12], b[11], b[10], b[9], b[8])
      /\ AreBits(b[7], b[6], b[5], b[4], b[3], b[2], b[1], b[0])
      /\ AreBits(c[15], c[14], c[13], c[12], c[11], c[10], c[9], c[8])
      /\ AreBits(c[7], c[6], c[5], c[4], c[3], c[2], c[1], c[0])
  BY DEF Bits, AreBits
<1>1. \A k \in 0 .. 15 : b[k] \in Bit /\ c[k] \in Bit
  BY DEF Bits
<1>2. Sum16(b, c) \in Bits
  BY <1>1, PlusFacts DEF Bits, Sum16
<1>3. \A k \in 0 .. 15 : Sum16(b, c)[k] = Plus(b[k], c[k])
  BY DEF Sum16
<1>4. XorsTo(Pack(b[15], b[14], b[13], b[12], b[11], b[10], b[9], b[8]),
             Pack(c[15], c[14], c[13], c[12], c[11], c[10], c[9], c[8]),
             Pack(Plus(b[15], c[15]), Plus(b[14], c[14]), Plus(b[13], c[13]), Plus(b[12], c[12]),
                  Plus(b[11], c[11]), Plus(b[10], c[10]), Plus(b[9], c[9]), Plus(b[8], c[8])))
  BY <1>0, XorOfBits, Zenon
<1>5. XorsTo(Pack(b[7], b[6], b[5], b[4], b[3], b[2], b[1], b[0]),
             Pack(c[7], c[6], c[5], c[4], c[3], c[2], c[1], c[0]),
             Pack(Plus(b[7], c[7]), Plus(b[6], c[6]), Plus(b[5], c[5]), Plus(b[4], c[4]),
                  Plus(b[3], c[3]), Plus(b[2], c[2]), Plus(b[1], c[1]), Plus(b[0], c[0])))
  BY <1>0, XorOfBits, Zenon
<1>6. Value(Sum16(b, c)) =
        256 * Pack(Plus(b[15], c[15]), Plus(b[14], c[14]), Plus(b[13], c[13]), Plus(b[12], c[12]),
                   Plus(b[11], c[11]), Plus(b[10], c[10]), Plus(b[9], c[9]), Plus(b[8], c[8]))
        + Pack(Plus(b[7], c[7]), Plus(b[6], c[6]), Plus(b[5], c[5]), Plus(b[4], c[4]),
               Plus(b[3], c[3]), Plus(b[2], c[2]), Plus(b[1], c[1]), Plus(b[0], c[0]))
  BY <1>3 DEF Value, Word2
<1> QED
  BY <1>2, <1>4, <1>5, <1>6, ValueHalves DEF Xor16, XorsTo

LEMMA XorFacts ==
    ASSUME NEW x \in Word16, NEW y \in Word16
    PROVE  /\ Xor16(x, y) \in Word16
           /\ Xor16(x, y) = Xor16(y, x)
<1>1. PICK b \in Bits : x = Value(b)
  BY UnpackWord
<1>2. PICK c \in Bits : y = Value(c)
  BY UnpackWord
<1>3. Sum16(b, c) = Sum16(c, b)
  BY PlusFacts DEF Sum16, Bits
<1> QED
  BY <1>1, <1>2, <1>3, XorOfWords, ValueHalves

\* The bit step: shift left, and let the bit that falls out flip bits 0, 5 and 12.
Shifted(b) ==
    [k \in 0 .. 15 |-> IF k = 0 THEN b[15]
                       ELSE IF k \in {5, 12} THEN Plus(b[k - 1], b[15]) ELSE b[k - 1]]

LEMMA ShiftedEntries ==
    ASSUME NEW b \in Bits
    PROVE  /\ Shifted(b) \in Bits
           /\ Shifted(b)[0] = b[15] /\ Shifted(b)[1] = b[0] /\ Shifted(b)[2] = b[1]
           /\ Shifted(b)[3] = b[2] /\ Shifted(b)[4] = b[3] /\ Shifted(b)[5] = Plus(b[4], b[15])
           /\ Shifted(b)[6] = b[5] /\ Shifted(b)[7] = b[6] /\ Shifted(b)[8] = b[7]
           /\ Shifted(b)[9] = b[8] /\ Shifted(b)[10] = b[9] /\ Shifted(b)[11] = b[10]
           /\ Shifted(b)[12] = Plus(b[11], b[15]) /\ Shifted(b)[13] = b[12]
           /\ Shifted(b)[14] = b[13] /\ Shifted(b)[15] = b[14]
<1>1. \A k \in 0 .. 15 : b[k] \in Bit
  BY DEF Bits
<1>2. ASSUME NEW k \in 0 .. 15
      PROVE  (IF k = 0 THEN b[15] ELSE IF k \in {5, 12} THEN Plus(b[k - 1], b[15]) ELSE b[k - 1])
             \in Bit
  <2>1. CASE k = 0
    BY <1>1, <2>1
  <2>2. CASE k # 0
    <3> DEFINE low == b[k - 1]
    <3>1. low \in Bit /\ b[15] \in Bit
      <4>1. k - 1 \in 0 .. 15 /\ 15 \in 0 .. 15
        BY <2>2
      <4> QED
        BY <1>1, <4>1
    <3> HIDE DEF low
    <3>2. Plus(low, b[15]) \in Bit
      BY <3>1, PlusFacts
    <3>3. Plus(b[k - 1], b[15]) \in Bit /\ b[k - 1] \in Bit
      BY <3>1, <3>2 DEF low
    <3> QED
      BY <2>2, <3>3
  <2> QED
    BY <2>1, <2>2
<1>3. Shifted(b) \in Bits
  BY <1>2 DEF Bits, Shifted
<1> QED
  BY <1>3 DEF Shifted

\* The word 4129 has the bits 0, 5 and 12.
Polynomial == [k \in 0 .. 15 |-> IF k \in {0, 5, 12} THEN 1 ELSE 0]

LEMMA PolynomialValue ==
    Polynomial \in Bits /\ Value(Polynomial) = 4129
  BY DEF Polynomial, Bits, Bit, Value, Pack, Word2

\* The same without the bits that are flipped.
Doubled(b) == [k \in 0 .. 15 |-> IF k = 0 THEN 0 ELSE b[k - 1]]

LEMMA DoubledValue ==
    ASSUME NEW b \in Bits
    PROVE  /\ Doubled(b) \in Bits
           /\ DoublesTo(Value(b), b[15], Value(Doubled(b)))
           /\ IsHigh(Value(b)) <=> b[15] = 1
<1>1. /\ b[15] \in Bit /\ b[14] \in Bit /\ b[13] \in Bit /\ b[12] \in Bit
      /\ b[11] \in Bit /\ b[10] \in Bit /\ b[9] \in Bit /\ b[8] \in Bit
      /\ b[7] \in Bit /\ b[6] \in Bit /\ b[5] \in Bit /\ b[4] \in Bit
      /\ b[3] \in Bit /\ b[2] \in Bit /\ b[1] \in Bit /\ b[0] \in Bit
  BY DEF Bits
<1>a. /\ AreBits(b[15], b[14], b[13], b[12], b[11], b[10], b[9], b[8])
      /\ AreBits(b[7], b[6], b[5], b[4], b[3], b[2], b[1], b[0])
  BY <1>1 DEF AreBits
<1>2. Doubled(b) \in Bits
  BY DEF Doubled, Bits, Bit
<1>3. /\ Doubled(b)[0] = 0 /\ Doubled(b)[1] = b[0] /\ Doubled(b)[2] = b[1]
      /\ Doubled(b)[3] = b[2] /\ Doubled(b)[4] = b[3] /\ Doubled(b)[5] = b[4]
      /\ Doubled(b)[6] = b[5] /\ Doubled(b)[7] = b[6] /\ Doubled(b)[8] = b[7]
      /\ Doubled(b)[9] = b[8] /\ Doubled(b)[10] = b[9] /\ Doubled(b)[11] = b[10]
      /\ Doubled(b)[12] = b[11] /\ Doubled(b)[13] = b[12] /\ Doubled(b)[14] = b[13]
      /\ Doubled(b)[15] = b[14]
  BY DEF Doubled
<1>4. Value(Doubled(b)) = Word2(Pack(b[14], b[13], b[12], b[11], b[10], b[9], b[8], b[7]),
                                Pack(b[6], b[5], b[4], b[3], b[2], b[1], b[0], 0))
  BY <1>3, Zenon DEF Value
<1>5. DoublesTo(Value(b), b[15], Value(Doubled(b)))
  BY <1>a, <1>4, DoublePack, ZenonT(40) DEF Value
<1>6. Pack(b[7], b[6], b[5], b[4], b[3], b[2], b[1], b[0]) \in Byte
  <2>1. Quotients(Pack(b[7], b[6], b[5], b[4], b[3], b[2], b[1], b[0]),
                  b[7], b[6], b[5], b[4], b[3], b[2], b[1], b[0])
    BY <1>1, PackQuotients, Zenon
  <2> QED
    BY <2>1 DEF Quotients
<1>7. IsHigh(Value(b)) <=> b[15] = 1
  BY <1>a, <1>6, TopBit DEF Value
<1> QED
  BY <1>2, <1>5, <1>7

LEMMA CrcBitShifts ==
    ASSUME NEW b \in Bits
    PROVE  CrcBit(Value(b)) = Value(Shifted(b))
<1>1. \A k \in 0 .. 15 : b[k] \in Bit
  BY DEF Bits
<1> DEFINE v == Value(b)
           d == Value(Doubled(b))
<1>2. /\ b[15] \in {0, 1} /\ v \in Int /\ d \in Int /\ 0 <= d /\ d <= 65535
      /\ 2 * v = 65536 * b[15] + d /\ (v >= 32768 <=> b[15] = 1)
  BY <1>1, DoubledValue, ValueHalves, WordIs DEF Bit, DoublesTo, IsHigh
<1>3. CrcBit(v) = IF v >= 32768 THEN Xor16((v * 2) % 65536, 4129) ELSE v * 2
  BY DEF CrcBit
<1> HIDE DEF v, d
<1>4. CASE b[15] = 0
  <2>1. Shifted(b) = Doubled(b)
    <3>1. ASSUME NEW k \in 0 .. 15, k # 0 PROVE b[k - 1] \in Bit /\ Plus(b[k - 1], 0) = b[k - 1]
      BY <1>1, <3>1, PlusFacts DEF Bit
    <3> QED
      BY <1>4, <3>1 DEF Shifted, Doubled
  <2>2. CrcBit(v) = d
    BY <1>2, <1>3, <1>4
  <2> QED
    BY <2>1, <2>2 DEF v, d
<1>5. CASE b[15] = 1
  <2>1. v * 2 = 65536 + d /\ v >= 32768
    BY <1>2, <1>5
  <2>2. (65536 + d) % 65536 = d
    BY <1>2
  <2>3. CrcBit(v) = Xor16(d, 4129)
    BY <1>3, <2>1, <2>2
  <2>4. Sum16(Doubled(b), Polynomial) = Shifted(b)
    <3>1. ASSUME NEW k \in 0 .. 15 PROVE Plus(Doubled(b)[k], Polynomial[k]) = Shifted(b)[k]
      <4>1. CASE k = 0
        BY <1>5, <4>1 DEF Polynomial, Shifted, Plus, Doubled
      <4>2. CASE k # 0
        <5>1. k - 1 \in 0 .. 15 /\ b[k - 1] \in Bit /\ Doubled(b)[k] = b[k - 1]
          BY <1>1, <4>2 DEF Bit, Doubled
        <5> QED
          BY <1>5, <4>2, <5>1, PlusFacts DEF Polynomial, Shifted
      <4> QED
        BY <4>1, <4>2
    <3> QED
      BY <3>1 DEF Sum16, Shifted
  <2> QED
    BY <2>3, <2>4, DoubledValue, PolynomialValue, XorOfWords DEF v, d
<1> QED
  BY <1>2, <1>4, <1>5

\* The bit step is linear.
LEMMA CrcBitLinear ==
    ASSUME NEW x \in Word16, NEW y \in Word16
    PROVE  /\ CrcBit(x) \in Word16
           /\ CrcBit(Xor16(x, y)) = Xor16(CrcBit(x), CrcBit(y))
<1>1. PICK b \in Bits : x = Value(b)
  BY UnpackWord
<1>2. PICK c \in Bits : y = Value(c)
  BY UnpackWord
<1>3. \A k \in 0 .. 15 : b[k] \in Bit /\ c[k] \in Bit
  BY DEF Bits
<1>4. Shifted(Sum16(b, c)) = Sum16(Shifted(b), Shifted(c))
  <2>1. ASSUME NEW i \in Bit, NEW j \in Bit, NEW m \in Bit, NEW n \in Bit
        PROVE  Plus(Plus(i, j), Plus(m, n)) = Plus(Plus(i, m), Plus(j, n))
    BY DEF Bit, Plus
  <2>2. ASSUME NEW k \in 0 .. 15 PROVE Shifted(Sum16(b, c))[k] = Plus(Shifted(b)[k], Shifted(c)[k])
    <3>1. CASE k = 0
      BY <3>1 DEF Shifted, Sum16
    <3>2. CASE k # 0
      <4> DEFINE sum == Sum16(b, c)
      <4>1. k - 1 \in 0 .. 15 /\ 15 \in 0 .. 15
        BY <3>2
      <4>2. sum[k - 1] = Plus(b[k - 1], c[k - 1]) /\ sum[15] = Plus(b[15], c[15])
        BY <4>1 DEF Sum16
      <4> HIDE DEF sum
      <4>3. /\ Shifted(sum)[k] = IF k \in {5, 12} THEN Plus(sum[k - 1], sum[15]) ELSE sum[k - 1]
            /\ Shifted(b)[k] = IF k \in {5, 12} THEN Plus(b[k - 1], b[15]) ELSE b[k - 1]
            /\ Shifted(c)[k] = IF k \in {5, 12} THEN Plus(c[k - 1], c[15]) ELSE c[k - 1]
        BY <3>2 DEF Shifted
      <4>4. /\ b[k - 1] \in Bit /\ c[k - 1] \in Bit /\ b[15] \in Bit /\ c[15] \in Bit
        BY <1>3, <4>1
      <4>5. Shifted(sum)[k] = Plus(Shifted(b)[k], Shifted(c)[k])
        BY <2>1, <4>2, <4>3, <4>4
      <4> QED
        BY <4>5 DEF sum
    <3> QED
      BY <3>1, <3>2
  <2> QED
    BY <2>2 DEF Shifted, Sum16
<1>5. /\ CrcBit(x) = Value(Shifted(b)) /\ CrcBit(y) = Value(Shifted(c))
      /\ Shifted(b) \in Bits /\ Shifted(c) \in Bits
  BY <1>1, <1>2, CrcBitShifts, ShiftedEntries
<1>6. Sum16(b, c) \in Bits /\ Xor16(x, y) = Value(Sum16(b, c))
  BY <1>1, <1>2, XorOfWords
<1>7. CrcBit(Xor16(x, y)) = Value(Shifted(Sum16(b, c)))
  BY <1>6, CrcBitShifts
<1>8. Xor16(CrcBit(x), CrcBit(y)) = Value(Sum16(Shifted(b), Shifted(c)))
  BY <1>5, XorOfWords
<1> QED
  BY <1>4, <1>5, <1>7, <1>8, ValueHalves

LEMMA WordsLinear ==
    ASSUME NEW x \in Word16, NEW y \in Word16
    PROVE  CrcBit(x) \in Word16 /\ CrcBit(y) \in Word16
           /\ CrcBit(Xor16(x, y)) = Xor16(CrcBit(x), CrcBit(y))
  BY CrcBitLinear

\* Without a top bit it doubles.
LEMMA CrcBitDoubles ==
    ASSUME NEW x \in Int, 0 <= x, x < 32768
    PROVE  CrcBit(x) = 2 * x
<1>1. CrcBit(x) = IF x >= 32768 THEN Xor16((x * 2) % 65536, 4129) ELSE x * 2
  BY DEF CrcBit
<1>2. ~(x >= 32768) /\ x * 2 = 2 * x
  OBVIOUS
<1> QED
  BY <1>1, <1>2

\* The eight bits of a byte.
Crc8(x) == CrcBit(CrcBit(CrcBit(CrcBit(CrcBit(CrcBit(CrcBit(CrcBit(x))))))))

LEMMA Crc8Linear ==
    ASSUME NEW x \in Word16, NEW y \in Word16
    PROVE  /\ Crc8(x) \in Word16
           /\ Crc8(Xor16(x, y)) = Xor16(Crc8(x), Crc8(y))
<1> DEFINE x1 == CrcBit(x)
           y1 == CrcBit(y)
           x2 == CrcBit(x1)
           y2 == CrcBit(y1)
           x3 == CrcBit(x2)
           y3 == CrcBit(y2)
           x4 == CrcBit(x3)
           y4 == CrcBit(y3)
           x5 == CrcBit(x4)
           y5 == CrcBit(y4)
           x6 == CrcBit(x5)
           y6 == CrcBit(y5)
           x7 == CrcBit(x6)
           y7 == CrcBit(y6)
<1>0. /\ Crc8(x) = CrcBit(x7) /\ Crc8(y) = CrcBit(y7)
      /\ Crc8(Xor16(x, y)) =
           CrcBit(CrcBit(CrcBit(CrcBit(CrcBit(CrcBit(CrcBit(CrcBit(Xor16(x, y)))))))))
  BY DEF Crc8
<1>1. x1 \in Word16 /\ y1 \in Word16 /\ CrcBit(Xor16(x, y)) = Xor16(x1, y1)
  BY WordsLinear
<1> HIDE DEF x1, y1
<1>2. x2 \in Word16 /\ y2 \in Word16 /\ CrcBit(Xor16(x1, y1)) = Xor16(x2, y2)
  BY <1>1, WordsLinear
<1> HIDE DEF x2, y2
<1>3. x3 \in Word16 /\ y3 \in Word16 /\ CrcBit(Xor16(x2, y2)) = Xor16(x3, y3)
  BY <1>2, WordsLinear
<1> HIDE DEF x3, y3
<1>4. x4 \in Word16 /\ y4 \in Word16 /\ CrcBit(Xor16(x3, y3)) = Xor16(x4, y4)
  BY <1>3, WordsLinear
<1> HIDE DEF x4, y4
<1>5. x5 \in Word16 /\ y5 \in Word16 /\ CrcBit(Xor16(x4, y4)) = Xor16(x5, y5)
  BY <1>4, WordsLinear
<1> HIDE DEF x5, y5
<1>6. x6 \in Word16 /\ y6 \in Word16 /\ CrcBit(Xor16(x5, y5)) = Xor16(x6, y6)
  BY <1>5, WordsLinear
<1> HIDE DEF x6, y6
<1>7. x7 \in Word16 /\ y7 \in Word16 /\ CrcBit(Xor16(x6, y6)) = Xor16(x7, y7)
  BY <1>6, WordsLinear
<1> HIDE DEF x7, y7
<1>8. /\ CrcBit(x7) \in Word16
      /\ CrcBit(Xor16(x7, y7)) = Xor16(CrcBit(x7), CrcBit(y7))
  BY <1>7, WordsLinear
<1> QED
  BY <1>0, <1>1, <1>2, <1>3, <1>4, <1>5, <1>6, <1>7, <1>8

\* A byte in the lower half moves to the upper half.
LEMMA Crc8Low ==
    ASSUME NEW l \in Byte
    PROVE  Crc8(l) = 256 * l
<1>1. l \in Int /\ 0 <= l /\ l <= 255
  BY ByteIs
<1>2. CrcBit(l) = 2 * l
  BY <1>1, CrcBitDoubles
<1>3. CrcBit(2 * l) = 4 * l
  BY <1>1, CrcBitDoubles
<1>4. CrcBit(4 * l) = 8 * l
  BY <1>1, CrcBitDoubles
<1>5. CrcBit(8 * l) = 16 * l
  BY <1>1, CrcBitDoubles
<1>6. CrcBit(16 * l) = 32 * l
  BY <1>1, CrcBitDoubles
<1>7. CrcBit(32 * l) = 64 * l
  BY <1>1, CrcBitDoubles
<1>8. CrcBit(64 * l) = 128 * l
  BY <1>1, CrcBitDoubles
<1>9. CrcBit(128 * l) = 256 * l
  BY <1>1, CrcBitDoubles
<1> QED
  BY <1>2, <1>3, <1>4, <1>5, <1>6, <1>7, <1>8, <1>9 DEF Crc8

\* Exclusive or with the polynomial, by arithmetic.
Flip(x) ==
    LET h == x \div 256
        l == x % 256
    IN  x + (1 - 2 * (l % 2)) + 32 * (1 - 2 * ((l \div 32) % 2)) + 4096 * (1 - 2 * ((h \div 16) % 2))

\* And with the constants that this takes apart, and with 0 and 1.
LEMMA XorConstants ==
    ASSUME NEW a \in Byte
    PROVE  /\ XorByte[a][33] = a + (1 - 2 * (a % 2)) + 32 * (1 - 2 * ((a \div 32) % 2))
           /\ XorByte[a][16] = a + 16 * (1 - 2 * ((a \div 16) % 2))
           /\ XorByte[a][1] = a + (1 - 2 * (a % 2))
           /\ XorByte[a][0] = a
<1>1. PICK b7 \in Bit, b6 \in Bit, b5 \in Bit, b4 \in Bit, b3 \in Bit, b2 \in Bit, b1 \in Bit, b0 \in Bit :
         a = Pack(b7, b6, b5, b4, b3, b2, b1, b0)
  BY UnpackByte
<1>2. /\ Pack(0, 0, 1, 0, 0, 0, 0, 1) = 33 /\ Pack(0, 0, 0, 1, 0, 0, 0, 0) = 16
      /\ Pack(0, 0, 0, 0, 0, 0, 0, 1) = 1 /\ Pack(0, 0, 0, 0, 0, 0, 0, 0) = 0
  BY DEF Pack
<1>3. /\ AreBits(0, 0, 1, 0, 0, 0, 0, 1) /\ AreBits(0, 0, 0, 1, 0, 0, 0, 0)
      /\ AreBits(0, 0, 0, 0, 0, 0, 0, 1) /\ AreBits(0, 0, 0, 0, 0, 0, 0, 0)
      /\ AreBits(b7, b6, b5, b4, b3, b2, b1, b0)
  BY DEF AreBits, Bit
<1>4. \A b \in Bit : Plus(b, 0) = b /\ Plus(b, 1) = 1 - b
  BY DEF Plus, Bit
<1>5. /\ XorsTo(a, 33, Pack(b7, b6, 1 - b5, b4, b3, b2, b1, 1 - b0))
      /\ XorsTo(a, 16, Pack(b7, b6, b5, 1 - b4, b3, b2, b1, b0))
      /\ XorsTo(a, 1, Pack(b7, b6, b5, b4, b3, b2, b1, 1 - b0))
      /\ XorsTo(a, 0, Pack(b7, b6, b5, b4, b3, b2, b1, b0))
  <2>1. XorsTo(a, 33, Pack(Plus(b7, 0), Plus(b6, 0), Plus(b5, 1), Plus(b4, 0),
                           Plus(b3, 0), Plus(b2, 0), Plus(b1, 0), Plus(b0, 1)))
    BY <1>1, <1>2, <1>3, XorOfBits
  <2>2. XorsTo(a, 16, Pack(Plus(b7, 0), Plus(b6, 0), Plus(b5, 0), Plus(b4, 1),
                           Plus(b3, 0), Plus(b2, 0), Plus(b1, 0), Plus(b0, 0)))
    BY <1>1, <1>2, <1>3, XorOfBits
  <2>3. XorsTo(a, 1, Pack(Plus(b7, 0), Plus(b6, 0), Plus(b5, 0), Plus(b4, 0),
                          Plus(b3, 0), Plus(b2, 0), Plus(b1, 0), Plus(b0, 1)))
    BY <1>1, <1>2, <1>3, XorOfBits
  <2>4. XorsTo(a, 0, Pack(Plus(b7, 0), Plus(b6, 0), Plus(b5, 0), Plus(b4, 0),
                          Plus(b3, 0), Plus(b2, 0), Plus(b1, 0), Plus(b0, 0)))
    BY <1>1, <1>2, <1>3, XorOfBits
  <2> QED
    BY <1>4, <2>1, <2>2, <2>3, <2>4
<1>6. Quotients(a, b7, b6, b5, b4, b3, b2, b1, b0)
  BY <1>1, PackQuotients
<1>7. /\ b7 \in Int /\ b6 \in Int /\ b5 \in Int /\ b4 \in Int
      /\ b3 \in Int /\ b2 \in Int /\ b1 \in Int /\ b0 \in Int
  BY DEF Bit
<1>8. (a \div 32) % 2 = b5 /\ (a \div 16) % 2 = b4 /\ a % 2 = b0
  <2>1. ASSUME NEW m \in Int, NEW b \in Bit PROVE (2 * m + b) % 2 = b
    BY DEF Bit
  <2>2. (a \div 32) % 2 = b5
    BY <1>6, <1>7, <2>1 DEF Quotients
  <2>3. (a \div 16) % 2 = b4
    BY <1>6, <1>7, <2>1 DEF Quotients
  <2>4. a \div 1 = a
    BY ByteIs
  <2>5. a % 2 = b0
    BY <1>6, <1>7, <2>1, <2>4 DEF Quotients
  <2> QED
    BY <2>2, <2>3, <2>5
<1>9. XorByte[a][33] = a + (1 - 2 * b0) + 32 * (1 - 2 * b5)
  BY <1>1, <1>5, <1>7 DEF Pack, XorsTo
<1>10. XorByte[a][16] = a + 16 * (1 - 2 * b4)
  BY <1>1, <1>5, <1>7 DEF Pack, XorsTo
<1>11. XorByte[a][1] = a + (1 - 2 * b0)
  BY <1>1, <1>5, <1>7 DEF Pack, XorsTo
<1>12. XorByte[a][0] = a
  BY <1>1, <1>5 DEF XorsTo
<1> QED
  BY <1>8, <1>9, <1>10, <1>11, <1>12

LEMMA XorPolynomial ==
    ASSUME NEW x \in Word16
    PROVE  Xor16(x, 4129) = Flip(x)
<1> DEFINE h == x \div 256
           l == x % 256
<1>1. h \in Byte /\ l \in Byte /\ x = 256 * h + l
  BY WordHalves
<1>2. 4129 \div 256 = 16 /\ 4129 % 256 = 33
  OBVIOUS
<1>3. Xor16(x, 4129) = 256 * XorByte[h][16] + XorByte[l][33]
  BY <1>2 DEF Xor16
<1>4. Flip(x) = x + (1 - 2 * (l % 2)) + 32 * (1 - 2 * ((l \div 32) % 2))
                + 4096 * (1 - 2 * ((h \div 16) % 2))
  BY DEF Flip
<1> HIDE DEF h, l
<1>5. /\ XorByte[l][33] = l + (1 - 2 * (l % 2)) + 32 * (1 - 2 * ((l \div 32) % 2))
      /\ XorByte[h][16] = h + 16 * (1 - 2 * ((h \div 16) % 2))
  BY <1>1, XorConstants
<1> DEFINE i == (h \div 16) % 2
           j == (l \div 32) % 2
           k == l % 2
<1>6. i \in Int /\ j \in Int /\ k \in Int /\ h \in Int /\ l \in Int
  BY <1>1, ByteIs
<1> HIDE DEF i, j, k
<1>7. Xor16(x, 4129) = 256 * (h + 16 * (1 - 2 * i)) + (l + (1 - 2 * k) + 32 * (1 - 2 * j))
  BY <1>3, <1>5 DEF i, j, k
<1>8. Flip(x) = x + (1 - 2 * k) + 32 * (1 - 2 * j) + 4096 * (1 - 2 * i)
  BY <1>4 DEF i, j, k
<1> QED
  BY <1>1, <1>6, <1>7, <1>8

\* The bit step, by arithmetic.
Twice(x) == IF x >= 32768 THEN Flip(2 * x - 65536) ELSE 2 * x

LEMMA CrcBitIsTwice ==
    ASSUME NEW x \in Word16
    PROVE  CrcBit(x) = Twice(x)
<1>1. x \in Int /\ 0 <= x /\ x <= 65535
  BY WordIs
<1>2. CASE x >= 32768
  <2>1. 2 * x - 65536 \in Word16
    <3>1. 2 * x - 65536 \in Int /\ 0 <= 2 * x - 65536 /\ 2 * x - 65536 <= 65535
      BY <1>1, <1>2
    <3> QED
      BY <3>1, WordIs
  <2>2. (x * 2) % 65536 = 2 * x - 65536
    BY <1>1, <1>2
  <2>3. CrcBit(x) = Xor16(2 * x - 65536, 4129)
    BY <1>2, <2>2 DEF CrcBit
  <2> QED
    BY <1>2, <2>1, <2>3, XorPolynomial DEF Twice
<1>3. CASE ~(x >= 32768)
  <2>1. CrcBit(x) = 2 * x
    BY <1>1, <1>3, CrcBitDoubles
  <2> QED
    BY <1>3, <2>1 DEF Twice
<1> QED
  BY <1>2, <1>3

(***************************************************************************)
(* How the entries of s_crc16_ccitt_table follow from one another: this is *)
(* where its 256 numbers are compared with the division.                   *)
(***************************************************************************)
LEMMA TableGrows ==
    /\ CrcTable[1] = 0
    /\ \A i \in 0 .. 127 : /\ CrcTable[2 * i + 1] = Twice(CrcTable[i + 1])
                           /\ CrcTable[2 * i + 2] = Flip(CrcTable[2 * i + 1])
<1>1. CrcTable[1] = 0
  BY DEF CrcTable
<1>2. \A i \in 0 .. 127 : /\ CrcTable[2 * i + 1] = Twice(CrcTable[i + 1])
                          /\ CrcTable[2 * i + 2] = Flip(CrcTable[2 * i + 1])
  BY DEF CrcTable, Twice, Flip
<1> QED
  BY <1>1, <1>2

\* An odd entry is its even neighbour with one bit more.
LEMMA XorWithOne ==
    ASSUME NEW j \in 0 .. 127
    PROVE  Xor16(512 * j, 256) = 256 * (2 * j + 1)
<1>1. 2 * j \in Byte /\ 0 \in Byte
  BY ByteIs
<1>2. (512 * j) \div 256 = 2 * j /\ (512 * j) % 256 = 0 /\ 256 \div 256 = 1 /\ 256 % 256 = 0
  OBVIOUS
<1>3. Xor16(512 * j, 256) = 256 * XorByte[2 * j][1] + XorByte[0][0]
  BY <1>2 DEF Xor16
<1>4. XorByte[2 * j][1] = 2 * j + (1 - 2 * ((2 * j) % 2)) /\ XorByte[0][0] = 0
  BY <1>1, XorConstants
<1>5. (2 * j) % 2 = 0
  OBVIOUS
<1> QED
  BY <1>3, <1>4, <1>5

\* Dividing by eight steps and then one is dividing by one and then eight.
LEMMA Crc8Commutes ==
    ASSUME NEW x
    PROVE  Crc8(CrcBit(x)) = CrcBit(Crc8(x))
  BY DEF Crc8

LEMMA Crc8One == Crc8(256) = 4129
<1>1. /\ CrcBit(256) = 512 /\ CrcBit(512) = 1024 /\ CrcBit(1024) = 2048 /\ CrcBit(2048) = 4096
      /\ CrcBit(4096) = 8192 /\ CrcBit(8192) = 16384 /\ CrcBit(16384) = 32768
  BY CrcBitDoubles
<1>2. 32768 \in Word16
  BY WordIs
<1>3. CrcBit(32768) = Flip(0)
  BY <1>2, CrcBitIsTwice DEF Twice
<1>4. Flip(0) = 4129
  BY DEF Flip
<1> QED
  BY <1>1, <1>3, <1>4 DEF Crc8

(***************************************************************************)
(* Every entry of the table is the remainder of its index.                 *)
(***************************************************************************)
LEMMA TableIsRight ==
    ASSUME NEW i \in Byte
    PROVE  CrcTable[i + 1] = Crc8(256 * i)
<1> DEFINE Right(n) == CrcTable[n + 1] = Crc8(256 * n)
           T == {k \in Nat : \A n \in Nat : n <= k /\ n <= 255 => Right(n)}
<1>1. 0 \in T
  <2>1. Right(0)
    <3>1. 0 \in Byte
      BY ByteIs
    <3>2. Crc8(0) = 256 * 0
      BY <3>1, Crc8Low
    <3> QED
      BY <3>2, TableGrows
  <2> QED
    BY <2>1
<1>2. ASSUME NEW k \in Nat, k \in T PROVE k + 1 \in T
  <2>1. SUFFICES ASSUME k + 1 <= 255 PROVE Right(k + 1)
    BY <1>2
  <2>2. PICK j \in 0 .. 127 : k + 1 = 2 * j \/ k + 1 = 2 * j + 1
    <3> DEFINE q == (k + 1) \div 2
    <3>1. q \in Int /\ (k + 1 = 2 * q \/ k + 1 = 2 * q + 1)
      OBVIOUS
    <3> HIDE DEF q
    <3>2. q >= 0 /\ q <= 127
      BY <2>1, <3>1
    <3> QED
      BY <3>1, <3>2
  <2>3. Right(j)
    BY <1>2, <2>2
  <2> HIDE DEF T
  <2>4. 256 * j \in Word16 /\ 512 * j \in Word16 /\ 256 \in Word16
    BY WordIs
  <2>5. CrcBit(256 * j) = 512 * j
    <3>1. 256 * j \in Int /\ 0 <= 256 * j /\ 256 * j < 32768 /\ 2 * (256 * j) = 512 * j
      OBVIOUS
    <3> QED
      BY <3>1, CrcBitDoubles
  <2>6. Crc8(512 * j) = CrcTable[2 * j + 1]
    <3>1. Crc8(512 * j) = CrcBit(CrcTable[j + 1])
      BY <2>3, <2>5, Crc8Commutes
    <3>2. CrcTable[j + 1] \in Word16
      BY <2>3, <2>4, Crc8Linear
    <3> QED
      BY <3>1, <3>2, CrcBitIsTwice, TableGrows
  <2>7. Crc8(256 * (2 * j + 1)) = CrcTable[2 * j + 2]
    <3>1. Crc8(256 * (2 * j + 1)) = Xor16(Crc8(512 * j), Crc8(256))
      BY <2>4, XorWithOne, Crc8Linear
    <3>2. Crc8(512 * j) \in Word16
      BY <2>4, Crc8Linear
    <3>3. Crc8(256 * (2 * j + 1)) = Flip(CrcTable[2 * j + 1])
      BY <2>6, <3>1, <3>2, Crc8One, XorPolynomial
    <3> QED
      BY <3>3, TableGrows
  <2>8. CASE k + 1 = 2 * j
    <3>1. 256 * (2 * j) = 512 * j
      OBVIOUS
    <3> QED
      BY <2>6, <2>8, <3>1
  <2>9. CASE k + 1 = 2 * j + 1
    <3>1. (2 * j + 1) + 1 = 2 * j + 2
      OBVIOUS
    <3> QED
      BY <2>7, <2>9, <3>1
  <2> QED
    BY <2>2, <2>8, <2>9
<1>3. i \in Nat /\ i <= 255
  BY ByteIs
<1>4. i \in T
  <2> HIDE DEF T
  <2> QED
    BY <1>1, <1>2, <1>3, SetInduction
<1> QED
  BY <1>3, <1>4

(***************************************************************************)
(* The loop of on9log_unix_stdio_crc16_update is eight steps.              *)
(***************************************************************************)
LEMMA UnixIsEightSteps ==
    ASSUME NEW crc \in Word16, NEW byte \in Byte
    PROVE  CrcUnix(crc, byte) = Crc8(Xor16(crc, byte * 256))
<1> DEFINE bits == [bit \in 1 .. 8 |-> bit]
           start == Xor16(crc, byte * 256)
           step == [at \in (1 .. 8) \X Word16 |-> CrcBit(at[2])]
<1>1. Len(bits) = 8
  <2>1. bits \in [1 .. 8 -> Nat]
    OBVIOUS
  <2> HIDE DEF bits
  <2> QED
    BY <2>1
<1>2. CrcUnix(crc, byte) = Run(step, Word16, start, 8)
  <2>1. CrcUnix(crc, byte) =
          Run([at \in (1 .. Len(bits)) \X Word16 |-> CrcBit(at[2])], Word16, start, Len(bits))
    BY DEF CrcUnix, Read
  <2> HIDE DEF bits
  <2> QED
    BY <1>1, <2>1
<1>3. start \in Word16
  <2>1. byte \in Int /\ 0 <= byte /\ byte <= 255
    BY ByteIs
  <2>2. byte * 256 \in Int /\ 0 <= byte * 256 /\ byte * 256 <= 65535
    BY <2>1
  <2>3. byte * 256 \in Word16
    BY <2>2, WordIs
  <2> QED
    BY <2>3, XorFacts
<1>4. step \in [(1 .. 8) \X Word16 -> Word16]
  BY CrcBitLinear
<1>5. \A n \in 1 .. 8, w \in Word16 : step[<<n, w>>] = CrcBit(w)
  OBVIOUS
<1> HIDE DEF step, start
<1>6. PICK t : RunOf(t, step, start, 8, Word16) /\ Run(step, Word16, start, 8) = t[8 + 1]
  BY <1>3, <1>4, RunYields DEF Yields
<1>7. \A n \in 1 .. 8 : t[n + 1] = CrcBit(t[n])
  BY <1>5, <1>6 DEF RunOf
<1>8. t[1] = start
  BY <1>6 DEF RunOf
<1>9. /\ t[2] = CrcBit(t[1]) /\ t[3] = CrcBit(t[2]) /\ t[4] = CrcBit(t[3]) /\ t[5] = CrcBit(t[4])
      /\ t[6] = CrcBit(t[5]) /\ t[7] = CrcBit(t[6]) /\ t[8] = CrcBit(t[7]) /\ t[9] = CrcBit(t[8])
  BY <1>7
<1>10. t[9] = Crc8(start)
  BY <1>8, <1>9 DEF Crc8
<1> QED
  BY <1>2, <1>6, <1>10, 8 + 1 = 9 DEF start

LEMMA XorBytes ==
    ASSUME NEW a \in Byte, NEW b \in Byte
    PROVE  XorByte[a][b] \in Byte /\ XorByte[a][b] = XorByte[b][a]
<1>1. PICK a7 \in Bit, a6 \in Bit, a5 \in Bit, a4 \in Bit, a3 \in Bit, a2 \in Bit, a1 \in Bit, a0 \in Bit :
         a = Pack(a7, a6, a5, a4, a3, a2, a1, a0)
  BY UnpackByte
<1>2. PICK b7 \in Bit, b6 \in Bit, b5 \in Bit, b4 \in Bit, b3 \in Bit, b2 \in Bit, b1 \in Bit, b0 \in Bit :
         b = Pack(b7, b6, b5, b4, b3, b2, b1, b0)
  BY UnpackByte
<1>3. AreBits(a7, a6, a5, a4, a3, a2, a1, a0) /\ AreBits(b7, b6, b5, b4, b3, b2, b1, b0)
  BY DEF AreBits
<1> DEFINE c == Pack(Plus(a7, b7), Plus(a6, b6), Plus(a5, b5), Plus(a4, b4),
                     Plus(a3, b3), Plus(a2, b2), Plus(a1, b1), Plus(a0, b0))
           d == Pack(Plus(b7, a7), Plus(b6, a6), Plus(b5, a5), Plus(b4, a4),
                     Plus(b3, a3), Plus(b2, a2), Plus(b1, a1), Plus(b0, a0))
<1>4. XorsTo(a, b, c)
  BY <1>1, <1>2, <1>3, XorOfBits
<1>5. XorsTo(b, a, d)
  BY <1>1, <1>2, <1>3, XorOfBits
<1>6. c = d
  <2>1. /\ Plus(a7, b7) = Plus(b7, a7) /\ Plus(a6, b6) = Plus(b6, a6) /\ Plus(a5, b5) = Plus(b5, a5)
        /\ Plus(a4, b4) = Plus(b4, a4) /\ Plus(a3, b3) = Plus(b3, a3) /\ Plus(a2, b2) = Plus(b2, a2)
        /\ Plus(a1, b1) = Plus(b1, a1) /\ Plus(a0, b0) = Plus(b0, a0)
    BY PlusFacts
  <2> QED
    BY <2>1
<1>7. c \in Byte
  <2>1. /\ Plus(a7, b7) \in Bit /\ Plus(a6, b6) \in Bit /\ Plus(a5, b5) \in Bit
        /\ Plus(a4, b4) \in Bit /\ Plus(a3, b3) \in Bit /\ Plus(a2, b2) \in Bit
        /\ Plus(a1, b1) \in Bit /\ Plus(a0, b0) \in Bit
    BY PlusFacts
  <2>2. Quotients(c, Plus(a7, b7), Plus(a6, b6), Plus(a5, b5), Plus(a4, b4),
                  Plus(a3, b3), Plus(a2, b2), Plus(a1, b1), Plus(a0, b0))
    BY <2>1, PackQuotients, Zenon
  <2> QED
    BY <2>2 DEF Quotients
<1> HIDE DEF c, d
<1> QED
  BY <1>4, <1>5, <1>6, <1>7 DEF XorsTo

\* The byte meets the upper half of the register; the lower half is shifted out.
LEMMA MeetsUpperHalf ==
    ASSUME NEW crc \in Word16, NEW byte \in Byte
    PROVE  \E i \in Byte, l \in Byte :
              /\ Xor16(crc \div 256, byte) = i
              /\ Xor16(crc, byte * 256) = 256 * i + l
              /\ Xor16(256 * i, l) = 256 * i + l
              /\ (crc * 256) % 65536 = 256 * l
<1> DEFINE h == crc \div 256
           l == crc % 256
           i == XorByte[h][byte]
<1>1. h \in Byte /\ l \in Byte /\ crc = 256 * h + l
  BY WordHalves
<1>2. Xor16(crc, byte * 256) =
        256 * XorByte[h][(byte * 256) \div 256] + XorByte[l][(byte * 256) % 256]
  BY DEF Xor16
<1> HIDE DEF h, l
<1>3. i \in Byte /\ 0 \in Byte
  BY <1>1, XorBytes, ByteIs
<1> HIDE DEF i
<1>4. /\ h \in Int /\ 0 <= h /\ h <= 255 /\ l \in Int /\ 0 <= l /\ l <= 255
      /\ byte \in Int /\ 0 <= byte /\ byte <= 255 /\ i \in Int /\ 0 <= i /\ i <= 255
  BY <1>1, <1>3, ByteIs
<1>5. ASSUME NEW n \in Int, 0 <= n, n <= 255
      PROVE  /\ n \div 256 = 0 /\ n % 256 = n
             /\ (n * 256) \div 256 = n /\ (n * 256) % 256 = 0
             /\ (256 * n) \div 256 = n /\ (256 * n) % 256 = 0
  BY <1>5
<1>6. XorByte[0][0] = 0 /\ XorByte[l][0] = l /\ XorByte[i][0] = i /\ XorByte[0][l] = l
  BY <1>1, <1>3, XorConstants, XorBytes
<1>7. Xor16(h, byte) = i
  <2>1. Xor16(h, byte) = 256 * XorByte[0][0] + XorByte[h][byte]
    BY <1>4, <1>5 DEF Xor16
  <2> QED
    BY <1>4, <1>6, <2>1 DEF i
<1>8. Xor16(crc, byte * 256) = 256 * i + l
  BY <1>2, <1>4, <1>5, <1>6 DEF i
<1>9. Xor16(256 * i, l) = 256 * i + l
  <2>1. Xor16(256 * i, l) = 256 * XorByte[i][0] + XorByte[0][l]
    BY <1>4, <1>5 DEF Xor16
  <2> QED
    BY <1>6, <2>1
<1>10. (crc * 256) % 65536 = 256 * l
  <2>1. crc * 256 = 65536 * h + 256 * l /\ 0 <= 256 * l /\ 256 * l < 65536
    BY <1>1, <1>4
  <2>2. ASSUME NEW a \in Int, NEW b \in Int, 0 <= b, b < 65536 PROVE (65536 * a + b) % 65536 = b
    BY <2>2
  <2> QED
    BY <1>4, <2>1, <2>2
<1> QED
  BY <1>1, <1>3, <1>7, <1>8, <1>9, <1>10 DEF h

(***************************************************************************)
(* The table of esp_stdio_log_vfs.c and the bit loop of                    *)
(* on9log_unix_stdio.c take every register and every byte to the same CRC. *)
(***************************************************************************)
THEOREM CrcsAgree ==
    ASSUME NEW crc \in Word16, NEW byte \in Byte
    PROVE  CrcEsp(crc, byte) = CrcUnix(crc, byte) /\ CrcUnix(crc, byte) \in Word16
<1>1. PICK i \in Byte, l \in Byte :
         /\ Xor16(crc \div 256, byte) = i
         /\ Xor16(crc, byte * 256) = 256 * i + l
         /\ Xor16(256 * i, l) = 256 * i + l
         /\ (crc * 256) % 65536 = 256 * l
  BY MeetsUpperHalf
<1>2. 256 * i \in Word16 /\ l \in Word16 /\ 256 * l \in Word16
  <2>1. i \in Int /\ 0 <= i /\ i <= 255 /\ l \in Int /\ 0 <= l /\ l <= 255
    BY ByteIs
  <2>2. 256 * i \in Int /\ 0 <= 256 * i /\ 256 * i <= 65535
    BY <2>1
  <2>3. 256 * l \in Int /\ 0 <= 256 * l /\ 256 * l <= 65535
    BY <2>1
  <2> QED
    BY <2>1, <2>2, <2>3, WordIs
<1>3. CrcUnix(crc, byte) = Xor16(Crc8(256 * i), Crc8(l))
  BY <1>1, <1>2, UnixIsEightSteps, Crc8Linear
<1>4. CrcUnix(crc, byte) = Xor16(CrcTable[i + 1], 256 * l)
  BY <1>3, TableIsRight, Crc8Low
<1>5. CrcTable[i + 1] \in Word16
  BY <1>2, TableIsRight, Crc8Linear
<1>6. CrcEsp(crc, byte) = Xor16(256 * l, CrcTable[i + 1])
  BY <1>1 DEF CrcEsp
<1> QED
  BY <1>2, <1>4, <1>5, <1>6, XorFacts

-----------------------------------------------------------------------------
(***************************************************************************)
(* Loops over sequences that are put together.                             *)
(***************************************************************************)
\* A function on 1 .. n is a sequence of length n.
LEMMA FunctionIsSeq ==
    ASSUME NEW n \in Nat, NEW S, NEW f \in [1 .. n -> S]
    PROVE  f \in Seq(S) /\ Len(f) = n
  OBVIOUS

LEMMA ConcatLen ==
    ASSUME NEW S, NEW s \in Seq(S), NEW t \in Seq(S)
    PROVE  s \o t \in Seq(S) /\ Len(s \o t) = Len(s) + Len(t)
  OBVIOUS

\* A loop without rounds, and the last round of a loop.
LEMMA RunNone ==
    ASSUME NEW States, NEW start \in States, NEW next \in [(1 .. 0) \X States -> States]
    PROVE  Run(next, States, start, 0) = start
<1>1. PICK t : RunOf(t, next, start, 0, States) /\ Run(next, States, start, 0) = t[0 + 1]
  BY RunYields DEF Yields
<1> QED
  BY <1>1, 0 + 1 = 1 DEF RunOf

LEMMA RunLast ==
    ASSUME NEW m \in Nat, NEW States, NEW start \in States,
           NEW one \in [(1 .. m) \X States -> States],
           NEW next \in [(1 .. m + 1) \X States -> States],
           \A i \in 1 .. m, s \in States : next[<<i, s>>] = one[<<i, s>>]
    PROVE  Run(next, States, start, m + 1) = next[<<m + 1, Run(one, States, start, m)>>]
<1>1. PICK t : RunOf(t, one, start, m, States) /\ Run(one, States, start, m) = t[m + 1]
  BY RunYields DEF Yields
<1>2. PICK u : RunOf(u, next, start, m + 1, States) /\ Run(next, States, start, m + 1) = u[(m + 1) + 1]
  <2>1. m + 1 \in Nat
    OBVIOUS
  <2> QED
    BY <2>1, RunYields, Zenon DEF Yields
<1> DEFINE w == [i \in 1 .. m + 1 |-> u[i]]
<1>3. /\ u \in [1 .. (m + 1) + 1 -> States] /\ u[1] = start
      /\ \A i \in 1 .. m + 1 : u[i + 1] = next[<<i, u[i]>>]
  BY <1>2 DEF RunOf
<1>4. w \in [1 .. m + 1 -> States] /\ \A i \in 1 .. m + 1 : w[i] = u[i]
  BY <1>3
<1> HIDE DEF w
<1>5. ASSUME NEW i \in 1 .. m PROVE w[i + 1] = one[<<i, w[i]>>]
  <2>1. i \in 1 .. m + 1 /\ i + 1 \in 1 .. m + 1
    OBVIOUS
  <2>2. w[i] = u[i] /\ w[i + 1] = u[i + 1] /\ w[i] \in States
    BY <1>4, <2>1
  <2>3. next[<<i, w[i]>>] = one[<<i, w[i]>>]
    BY <2>2, Zenon
  <2> QED
    BY <1>3, <2>1, <2>2, <2>3
<1>6. 1 \in 1 .. m + 1 /\ m + 1 \in 1 .. m + 1
  OBVIOUS
<1>7. RunOf(w, one, start, m, States)
  BY <1>3, <1>4, <1>5, <1>6 DEF RunOf
<1>8. t[m + 1] = w[m + 1]
  BY <1>1, <1>7, RunsAgree
<1> QED
  BY <1>1, <1>2, <1>3, <1>4, <1>6, <1>8

\* Join, one sequence after the other.
JoinStep(seqs) == [at \in (1 .. Len(seqs)) \X Seq(Byte) |-> at[2] \o seqs[at[1]]]

LEMMA JoinIsRun ==
    ASSUME NEW seqs \in Seq(Seq(Byte))
    PROVE  /\ JoinStep(seqs) \in [(1 .. Len(seqs)) \X Seq(Byte) -> Seq(Byte)]
           /\ \A n \in 1 .. Len(seqs), s \in Seq(Byte) : JoinStep(seqs)[<<n, s>>] = s \o seqs[n]
           /\ Join(seqs) = Run(JoinStep(seqs), Seq(Byte), <<>>, Len(seqs))
<1>1. \A n \in 1 .. Len(seqs), s \in Seq(Byte) : s \o seqs[n] \in Seq(Byte)
  OBVIOUS
<1>2. JoinStep(seqs) \in [(1 .. Len(seqs)) \X Seq(Byte) -> Seq(Byte)]
  BY <1>1 DEF JoinStep
<1>3. \A n \in 1 .. Len(seqs), s \in Seq(Byte) : JoinStep(seqs)[<<n, s>>] = s \o seqs[n]
  BY DEF JoinStep
<1>4. Join(seqs) = Run(JoinStep(seqs), Seq(Byte), <<>>, Len(seqs))
  BY DEF Join, Read, JoinStep
<1> QED
  BY <1>2, <1>3, <1>4

LEMMA JoinRuns ==
    ASSUME NEW seqs \in Seq(Seq(Byte))
    PROVE  \E t \in [1 .. Len(seqs) + 1 -> Seq(Byte)] :
              /\ t[1] = <<>>
              /\ \A n \in 1 .. Len(seqs) : t[n + 1] = t[n] \o seqs[n]
              /\ Join(seqs) = t[Len(seqs) + 1]
<1> DEFINE last == Len(seqs)
           step == JoinStep(seqs)
           start == <<>>
           S == Seq(Byte)
<1>0. last \in Nat /\ start \in S
  OBVIOUS
<1>1. /\ step \in [(1 .. last) \X S -> S]
      /\ \A n \in 1 .. last, s \in S : step[<<n, s>>] = s \o seqs[n]
      /\ Join(seqs) = Run(step, S, start, last)
  BY JoinIsRun, Zenon
<1> HIDE DEF last, step, start, S
<1>2. PICK t : RunOf(t, step, start, last, S) /\ Join(seqs) = t[last + 1]
  BY <1>0, <1>1, RunYields DEF Yields
<1>3. ASSUME NEW n \in 1 .. last PROVE t[n + 1] = t[n] \o seqs[n]
  <2>1. n \in 1 .. last + 1
    BY <1>0
  <2>2. t[n] \in S
    BY <1>2, <2>1, Zenon DEF RunOf
  <2>3. step[<<n, t[n]>>] = t[n] \o seqs[n]
    BY <1>1, <2>2, Zenon
  <2> QED
    BY <1>2, <2>3, Zenon DEF RunOf
<1>4. t \in [1 .. last + 1 -> S] /\ t[1] = start
  BY <1>2, Zenon DEF RunOf
<1> QED
  BY <1>2, <1>3, <1>4 DEF last, start, S

LEMMA JoinType ==
    ASSUME NEW seqs \in Seq(Seq(Byte))
    PROVE  Join(seqs) \in Seq(Byte)
<1> DEFINE start == <<>>
           S == Seq(Byte)
           step == JoinStep(seqs)
           last == Len(seqs)
<1>1. last \in Nat /\ start \in S
  OBVIOUS
<1>2. /\ step \in [(1 .. last) \X S -> S]
      /\ Join(seqs) = Run(step, S, start, last)
  BY JoinIsRun, Zenon
<1> HIDE DEF start, step, S, last
<1>3. Join(seqs) \in S
  <2>1. step \in [(1 .. last) \X S -> S]
    BY <1>2
  <2>2. Run(step, S, start, last) \in S
    BY <1>1, <2>1, RunType
  <2> QED
    BY <1>2, <2>2
<1> QED
  BY <1>3 DEF S

LEMMA JoinEmpty == Join(<<>>) = <<>>
<1>1. <<>> \in Seq(Seq(Byte)) /\ Len(<<>>) = 0 /\ <<>> \in Seq(Byte)
  OBVIOUS
<1>2. /\ JoinStep(<<>>) \in [(1 .. Len(<<>>)) \X Seq(Byte) -> Seq(Byte)]
      /\ Join(<<>>) = Run(JoinStep(<<>>), Seq(Byte), <<>>, Len(<<>>))
  BY <1>1, JoinIsRun
<1> QED
  BY <1>1, <1>2, RunNone

LEMMA JoinAppend ==
    ASSUME NEW seqs \in Seq(Seq(Byte)), NEW s \in Seq(Byte)
    PROVE  Join(Append(seqs, s)) = Join(seqs) \o s
<1> DEFINE all == Append(seqs, s)
           m == Len(seqs)
           one == JoinStep(seqs)
           next == JoinStep(all)
           start == <<>>
           S == Seq(Byte)
<1>1. /\ all \in Seq(Seq(Byte)) /\ m \in Nat /\ Len(all) = m + 1 /\ all[m + 1] = s
      /\ \A i \in 1 .. m : all[i] = seqs[i]
  OBVIOUS
<1> HIDE DEF all
<1>2. /\ one \in [(1 .. m) \X S -> S]
      /\ \A n \in 1 .. m, r \in S : one[<<n, r>>] = r \o seqs[n]
      /\ Join(seqs) = Run(one, S, start, m)
  BY JoinIsRun
<1>3. /\ next \in [(1 .. m + 1) \X S -> S]
      /\ \A n \in 1 .. m + 1, r \in S : next[<<n, r>>] = r \o all[n]
      /\ Join(all) = Run(next, S, start, m + 1)
  BY <1>1, JoinIsRun
<1>5. start \in S
  OBVIOUS
<1> HIDE DEF one, next, m, start, S
<1>4. \A n \in 1 .. m, r \in S : next[<<n, r>>] = one[<<n, r>>]
  <2>1. ASSUME NEW n \in 1 .. m, NEW r \in S PROVE next[<<n, r>>] = one[<<n, r>>]
    <3>1. n \in 1 .. m + 1 /\ all[n] = seqs[n]
      BY <1>1
    <3>2. one[<<n, r>>] = r \o seqs[n]
      BY <1>2, Zenon
    <3>3. next[<<n, r>>] = r \o all[n]
      BY <1>3, <3>1, Zenon
    <3> QED
      BY <3>1, <3>2, <3>3, Zenon
  <2> QED
    BY <2>1, Zenon
<1>6. Join(all) = next[<<m + 1, Join(seqs)>>]
  <2>1. m \in Nat
    BY <1>1
  <2>2. one \in [(1 .. m) \X S -> S] /\ Join(seqs) = Run(one, S, start, m)
    BY <1>2
  <2>3. next \in [(1 .. m + 1) \X S -> S] /\ Join(all) = Run(next, S, start, m + 1)
    BY <1>3
  <2>4. Run(next, S, start, m + 1) = next[<<m + 1, Run(one, S, start, m)>>]
    BY <1>4, <1>5, <2>1, <2>2, <2>3, RunLast
  <2> QED
    BY <2>2, <2>3, <2>4
<1>7. Join(seqs) \in S /\ m + 1 \in 1 .. m + 1
  BY <1>1, JoinType DEF S
<1>8. next[<<m + 1, Join(seqs)>>] = Join(seqs) \o all[m + 1]
  BY <1>3, <1>7, Zenon
<1> QED
  BY <1>1, <1>6, <1>8 DEF all

-----------------------------------------------------------------------------
(***************************************************************************)
(* Frames.  The CRC of a body is the same from both transports, so is the  *)
(* frame: the batches of esp_stdio_log_vfs_write_frame, put together, are  *)
(* what on9log_unix_stdio_end writes.                                      *)
(***************************************************************************)
Crc(body) == Read(CrcUnix, Word16, CrcInit, body)

CrcStep(body) == [at \in (1 .. Len(body)) \X Word16 |-> CrcUnix(at[2], body[at[1]])]

LEMMA CrcReads ==
    ASSUME NEW body \in Seq(Byte)
    PROVE  /\ Read(CrcEsp, Word16, CrcInit, body) = Crc(body)
           /\ Crc(body) \in Word16
<1> DEFINE last == Len(body)
           step == CrcStep(body)
           start == CrcInit
<1>1. \A n \in 1 .. last : body[n] \in Byte
  OBVIOUS
<1>2. \A n \in 1 .. last, w \in Word16 :
         CrcEsp(w, body[n]) = CrcUnix(w, body[n]) /\ CrcUnix(w, body[n]) \in Word16
  BY <1>1, CrcsAgree
<1>3. last \in Nat /\ start \in Word16
  BY WordIs DEF CrcInit
<1>4. step \in [(1 .. last) \X Word16 -> Word16]
  BY <1>2 DEF CrcStep
<1>5. Crc(body) = Run(step, Word16, start, last)
  BY DEF Crc, Read, CrcStep
<1>6. [at \in (1 .. last) \X Word16 |-> CrcEsp(at[2], body[at[1]])] = step
  BY <1>2 DEF CrcStep
<1>7. Read(CrcEsp, Word16, CrcInit, body) = Run(step, Word16, start, last)
  <2>1. Read(CrcEsp, Word16, CrcInit, body) =
          Run([at \in (1 .. last) \X Word16 |-> CrcEsp(at[2], body[at[1]])], Word16, start, last)
    BY DEF Read
  <2> HIDE DEF step, start, last
  <2> QED
    BY <1>6, <2>1
<1> HIDE DEF step, start, last
<1>8. Run(step, Word16, start, last) \in Word16
  BY <1>3, <1>4, RunType
<1> QED
  BY <1>5, <1>7, <1>8

\* Escaping leaves bytes, and none of them is START, END, CR or LF.
LEMMA EscapeBytes ==
    ASSUME NEW byte \in Byte
    PROVE  /\ Escape(byte) \in Seq(Byte)
           /\ \A i \in 1 .. Len(Escape(byte)) : Escape(byte)[i] \notin Reserved \ {ESC}
<1>1. CASE byte \in Reserved
  <2>1. Code(byte) \in {222, 220, 221, 208, 209}
    BY <1>1 DEF Code, Reserved, START, END, ESC, CR, LF
  <2>2. Escape(byte) = <<ESC, Code(byte)>>
    BY <1>1 DEF Escape
  <2>3. ESC \in Byte /\ Code(byte) \in Byte
    BY <2>1, ByteIs DEF ESC
  <2>4. Code(byte) \notin Reserved
    BY <2>1 DEF Reserved, START, END, ESC, CR, LF
  <2> HIDE DEF Reserved
  <2> QED
    BY <2>2, <2>3, <2>4
<1>2. CASE byte \notin Reserved
  BY <1>2 DEF Escape
<1> QED
  BY <1>1, <1>2

LEMMA EscapeAllEmpty == EscapeAll(<<>>) = <<>>
<1>1. [i \in DOMAIN <<>> |-> Escape(<<>>[i])] = <<>>
  OBVIOUS
<1> QED
  BY <1>1, JoinEmpty DEF EscapeAll

Escapes(bytes) == [i \in DOMAIN bytes |-> Escape(bytes[i])]

LEMMA EscapesType ==
    ASSUME NEW bytes \in Seq(Byte)
    PROVE  /\ Escapes(bytes) \in Seq(Seq(Byte)) /\ Len(Escapes(bytes)) = Len(bytes)
           /\ \A i \in 1 .. Len(bytes) : Escapes(bytes)[i] = Escape(bytes[i])
<1>1. DOMAIN bytes = 1 .. Len(bytes) /\ Len(bytes) \in Nat /\ \A i \in 1 .. Len(bytes) : bytes[i] \in Byte
  OBVIOUS
<1>2. Escapes(bytes) \in [1 .. Len(bytes) -> Seq(Byte)]
  BY <1>1, EscapeBytes DEF Escapes
<1>3. \A i \in 1 .. Len(bytes) : Escapes(bytes)[i] = Escape(bytes[i])
  BY <1>1 DEF Escapes
<1> QED
  BY <1>1, <1>2, <1>3, FunctionIsSeq

LEMMA EscapeAllType ==
    ASSUME NEW bytes \in Seq(Byte)
    PROVE  EscapeAll(bytes) \in Seq(Byte)
  BY EscapesType, JoinType DEF EscapeAll, Escapes

LEMMA EscapeAllAppend ==
    ASSUME NEW bytes \in Seq(Byte), NEW byte \in Byte
    PROVE  EscapeAll(Append(bytes, byte)) = EscapeAll(bytes) \o Escape(byte)
<1> DEFINE all == Append(bytes, byte)
           m == Len(bytes)
<1>1. /\ all \in Seq(Byte) /\ Len(all) = m + 1 /\ m \in Nat /\ all[m + 1] = byte
      /\ \A i \in 1 .. m : all[i] = bytes[i]
  OBVIOUS
<1> HIDE DEF all
<1>2. /\ Escapes(all) \in Seq(Seq(Byte)) /\ Len(Escapes(all)) = m + 1
      /\ \A i \in 1 .. m + 1 : Escapes(all)[i] = Escape(all[i])
  BY <1>1, EscapesType
<1>3. /\ Escapes(bytes) \in Seq(Seq(Byte)) /\ Len(Escapes(bytes)) = m
      /\ \A i \in 1 .. m : Escapes(bytes)[i] = Escape(bytes[i])
  BY EscapesType
<1>4. Escape(byte) \in Seq(Byte)
  BY EscapeBytes
<1> HIDE DEF m
<1>5. Escapes(all) = Append(Escapes(bytes), Escape(byte))
  <2> DEFINE more == Append(Escapes(bytes), Escape(byte))
  <2>1. /\ more \in Seq(Seq(Byte)) /\ Len(more) = m + 1 /\ more[m + 1] = Escape(byte)
        /\ \A i \in 1 .. m : more[i] = Escapes(bytes)[i]
    BY <1>3, <1>4
  <2> HIDE DEF more
  <2>2. ASSUME NEW i \in 1 .. m + 1 PROVE Escapes(all)[i] = more[i]
    <3>1. CASE i = m + 1
      BY <1>1, <1>2, <2>1, <3>1
    <3>2. CASE i \in 1 .. m
      BY <1>1, <1>2, <1>3, <2>1, <3>2
    <3> QED
      BY <1>1, <3>1, <3>2
  <2>3. Escapes(all) = more
    <3>1. DOMAIN Escapes(all) = 1 .. m + 1 /\ DOMAIN more = 1 .. m + 1
      BY <1>2, <2>1
    <3> QED
      BY <1>2, <2>1, <2>2, <3>1
  <2> QED
    BY <2>3 DEF more
<1>6. Join(Append(Escapes(bytes), Escape(byte))) = Join(Escapes(bytes)) \o Escape(byte)
  BY <1>3, <1>4, JoinAppend
<1> QED
  BY <1>5, <1>6 DEF EscapeAll, Escapes, all

\* Induction over sequences; the property is given as a set.
LEMMA SeqInduction ==
    ASSUME NEW S, NEW T, <<>> \in T,
           \A s \in Seq(S), x \in S : s \in T => Append(s, x) \in T
    PROVE  \A s \in Seq(S) : s \in T
<1> DEFINE N == {n \in Nat : \A s \in Seq(S) : Len(s) = n => s \in T}
<1>1. 0 \in N
  <2>1. \A s \in Seq(S) : Len(s) = 0 => s = <<>>
    OBVIOUS
  <2> QED
    BY <2>1
<1>2. ASSUME NEW n \in Nat, n \in N PROVE n + 1 \in N
  <2>1. SUFFICES ASSUME NEW s \in Seq(S), Len(s) = n + 1 PROVE s \in T
    OBVIOUS
  <2> DEFINE front == SubSeq(s, 1, n)
  <2>2. front \in Seq(S) /\ Len(front) = n /\ s[n + 1] \in S /\ s = Append(front, s[n + 1])
    BY <2>1
  <2> HIDE DEF front
  <2>3. front \in T
    BY <1>2, <2>2
  <2> HIDE DEF N
  <2>4. Append(front, s[n + 1]) \in T
    BY <2>2, <2>3, Zenon
  <2> QED
    BY <2>2, <2>4, Zenon
<1>3. \A n \in Nat : n \in N
  <2> HIDE DEF N
  <2> QED
    BY <1>1, <1>2, SetInduction
<1>4. ASSUME NEW s \in Seq(S) PROVE s \in T
  <2>1. Len(s) \in Nat
    OBVIOUS
  <2> QED
    BY <1>3, <2>1
<1> QED
  BY <1>4

\* No START, END, CR or LF inside a frame.
LEMMA EscapeAllBytes ==
    ASSUME NEW bytes \in Seq(Byte)
    PROVE  \A i \in 1 .. Len(EscapeAll(bytes)) : EscapeAll(bytes)[i] \notin Reserved \ {ESC}
<1> DEFINE Hidden(seq) == \A i \in 1 .. Len(seq) : seq[i] \notin Reserved \ {ESC}
           T == {s \in Seq(Byte) : Hidden(EscapeAll(s))}
<1>1. <<>> \in T
  BY EscapeAllEmpty
<1>2. ASSUME NEW s \in Seq(Byte), NEW x \in Byte, s \in T PROVE Append(s, x) \in T
  <2>1. Hidden(EscapeAll(s)) /\ Hidden(Escape(x))
    BY <1>2, EscapeBytes
  <2>2. EscapeAll(s) \in Seq(Byte) /\ Escape(x) \in Seq(Byte)
    BY EscapeAllType, EscapeBytes
  <2>3. ASSUME NEW a \in Seq(Byte), NEW b \in Seq(Byte), Hidden(a), Hidden(b) PROVE Hidden(a \o b)
    <3>1. ASSUME NEW i \in 1 .. Len(a \o b) PROVE (a \o b)[i] \notin Reserved \ {ESC}
      <4>1. CASE i \in 1 .. Len(a)
        <5>1. (a \o b)[i] = a[i]
          BY <4>1
        <5> QED
          BY <2>3, <4>1, <5>1, Zenon
      <4>2. CASE i \notin 1 .. Len(a)
        <5> DEFINE j == i - Len(a)
        <5>1. j \in 1 .. Len(b) /\ (a \o b)[i] = b[j]
          BY <4>2
        <5> HIDE DEF j
        <5> QED
          BY <2>3, <5>1, Zenon
      <4> QED
        BY <4>1, <4>2
    <3> QED
      BY <3>1
  <2> HIDE DEF Hidden
  <2>4. Hidden(EscapeAll(s) \o Escape(x))
    BY <2>1, <2>2, <2>3
  <2>5. Append(s, x) \in Seq(Byte)
    OBVIOUS
  <2> QED
    BY <2>4, <2>5, EscapeAllAppend
<1> HIDE DEF T
<1>3. bytes \in T
  BY <1>1, <1>2, SeqInduction
<1> QED
  BY <1>3 DEF T

-----------------------------------------------------------------------------
(***************************************************************************)
(* The batches of esp_stdio_log_vfs_write_frame.                           *)
(***************************************************************************)
LEMMA PutRawFacts ==
    ASSUME NEW writer \in Writer, NEW byte \in Byte
    PROVE  /\ PutRaw(writer, byte) \in Writer
           /\ \/ /\ Len(writer.bytes) = Batch
                 /\ PutRaw(writer, byte).flushed = Append(writer.flushed, writer.bytes)
                 /\ PutRaw(writer, byte).bytes = <<byte>>
              \/ /\ Len(writer.bytes) # Batch
                 /\ PutRaw(writer, byte).flushed = writer.flushed
                 /\ PutRaw(writer, byte).bytes = Append(writer.bytes, byte)
<1>1. writer.flushed \in Seq(Seq(Byte)) /\ writer.bytes \in Seq(Byte)
  BY DEF Writer
<1>2. CASE Len(writer.bytes) = Batch
  <2>1. PutRaw(writer, byte) = [flushed |-> Append(writer.flushed, writer.bytes), bytes |-> <<byte>>]
    BY <1>2 DEF PutRaw
  <2>2. Append(writer.flushed, writer.bytes) \in Seq(Seq(Byte)) /\ <<byte>> \in Seq(Byte)
    BY <1>1
  <2> QED
    BY <1>2, <2>1, <2>2 DEF Writer
<1>3. CASE Len(writer.bytes) # Batch
  <2>1. PutRaw(writer, byte) = [flushed |-> writer.flushed, bytes |-> Append(writer.bytes, byte)]
    BY <1>3 DEF PutRaw, Writer
  <2>2. Append(writer.bytes, byte) \in Seq(Byte)
    BY <1>1
  <2> QED
    BY <1>1, <1>3, <2>1, <2>2 DEF Writer
<1> QED
  BY <1>2, <1>3

PutStep(bytes) == [at \in (1 .. Len(bytes)) \X Writer |-> PutRaw(at[2], bytes[at[1]])]

Empty == [flushed |-> <<>>, bytes |-> <<>>]

Put(bytes) == Read(PutRaw, Writer, Empty, bytes)

LEMMA PutIsRun ==
    ASSUME NEW bytes \in Seq(Byte)
    PROVE  /\ Empty \in Writer
           /\ PutStep(bytes) \in [(1 .. Len(bytes)) \X Writer -> Writer]
           /\ \A n \in 1 .. Len(bytes), w \in Writer : PutStep(bytes)[<<n, w>>] = PutRaw(w, bytes[n])
           /\ Put(bytes) = Run(PutStep(bytes), Writer, Empty, Len(bytes))
<1>1. \A n \in 1 .. Len(bytes) : bytes[n] \in Byte
  OBVIOUS
<1>2. \A n \in 1 .. Len(bytes), w \in Writer : PutRaw(w, bytes[n]) \in Writer
  BY <1>1, PutRawFacts
<1>3. Empty \in Writer
  BY DEF Empty, Writer
<1>4. PutStep(bytes) \in [(1 .. Len(bytes)) \X Writer -> Writer]
  BY <1>2 DEF PutStep
<1>5. \A n \in 1 .. Len(bytes), w \in Writer : PutStep(bytes)[<<n, w>>] = PutRaw(w, bytes[n])
  BY DEF PutStep
<1>6. Put(bytes) = Run(PutStep(bytes), Writer, Empty, Len(bytes))
  BY DEF Put, Read, PutStep
<1> QED
  BY <1>3, <1>4, <1>5, <1>6

LEMMA PutLast ==
    ASSUME NEW bytes \in Seq(Byte), NEW byte \in Byte
    PROVE  Put(bytes) \in Writer /\ Put(Append(bytes, byte)) = PutRaw(Put(bytes), byte)
<1> DEFINE all == Append(bytes, byte)
           m == Len(bytes)
           one == PutStep(bytes)
           next == PutStep(all)
<1>1. /\ all \in Seq(Byte) /\ m \in Nat /\ Len(all) = m + 1 /\ all[m + 1] = byte
      /\ \A i \in 1 .. m : all[i] = bytes[i]
  OBVIOUS
<1> HIDE DEF all
<1>2. /\ Empty \in Writer /\ one \in [(1 .. m) \X Writer -> Writer]
      /\ \A n \in 1 .. m, w \in Writer : one[<<n, w>>] = PutRaw(w, bytes[n])
      /\ Put(bytes) = Run(one, Writer, Empty, m)
  BY PutIsRun
<1>3. /\ next \in [(1 .. m + 1) \X Writer -> Writer]
      /\ \A n \in 1 .. m + 1, w \in Writer : next[<<n, w>>] = PutRaw(w, all[n])
      /\ Put(all) = Run(next, Writer, Empty, m + 1)
  BY <1>1, PutIsRun
<1>a. m \in Nat /\ m + 1 \in 1 .. m + 1
  OBVIOUS
<1> HIDE DEF one, next, m
<1>4. \A n \in 1 .. m, w \in Writer : next[<<n, w>>] = one[<<n, w>>]
  <2>1. ASSUME NEW n \in 1 .. m, NEW w \in Writer PROVE next[<<n, w>>] = one[<<n, w>>]
    <3>1. n \in 1 .. m + 1 /\ all[n] = bytes[n]
      BY <1>1
    <3> QED
      BY <1>2, <1>3, <3>1, Zenon
  <2> QED
    BY <2>1, Zenon
<1>b. /\ one \in [(1 .. m) \X Writer -> Writer] /\ next \in [(1 .. m + 1) \X Writer -> Writer]
      /\ m \in Nat /\ Empty \in Writer
  BY <1>2, <1>3, <1>a
<1>5. Put(bytes) \in Writer
  <2>1. Run(one, Writer, Empty, m) \in Writer
    BY <1>b, RunType
  <2> QED
    BY <1>2, <2>1
<1>6. Put(all) = next[<<m + 1, Put(bytes)>>]
  <2>1. Run(next, Writer, Empty, m + 1) = next[<<m + 1, Run(one, Writer, Empty, m)>>]
    BY <1>4, <1>b, RunLast
  <2> QED
    BY <1>2, <1>3, <2>1
<1>7. next[<<m + 1, Put(bytes)>>] = PutRaw(Put(bytes), all[m + 1])
  BY <1>3, <1>5, <1>a, Zenon
<1> QED
  BY <1>1, <1>5, <1>6, <1>7 DEF all

\* Nothing is lost or doubled between two batches, and none is larger than its buffer.
Batched(bytes, writer) ==
    /\ Join(writer.flushed) \o writer.bytes = bytes
    /\ \A i \in 1 .. Len(writer.flushed) : Len(writer.flushed[i]) = Batch
    /\ Len(writer.bytes) <= Batch

LEMMA PutBatches ==
    ASSUME NEW bytes \in Seq(Byte)
    PROVE  Batched(bytes, Put(bytes))
<1> DEFINE T == {s \in Seq(Byte) : Batched(s, Put(s))}
<1>0. Batch \in Nat /\ Batch > 0
  BY BatchAssumption
<1>1. <<>> \in T
  <2>1. <<>> \in Seq(Byte) /\ Len(<<>>) = 0
    OBVIOUS
  <2>2. /\ Empty \in Writer /\ PutStep(<<>>) \in [(1 .. 0) \X Writer -> Writer]
        /\ Put(<<>>) = Run(PutStep(<<>>), Writer, Empty, 0)
    BY <2>1, PutIsRun
  <2>3. Put(<<>>) = Empty
    BY <2>2, RunNone
  <2>4. Batched(<<>>, Empty)
    BY <1>0, JoinEmpty DEF Batched, Empty
  <2> QED
    BY <2>1, <2>3, <2>4
<1>2. ASSUME NEW s \in Seq(Byte), NEW x \in Byte, s \in T PROVE Append(s, x) \in T
  <2> DEFINE w == Put(s)
             v == PutRaw(w, x)
  <2>1. Append(s, x) \in Seq(Byte) /\ Put(Append(s, x)) = v /\ w \in Writer
    BY PutLast
  <2>2. Batched(s, w)
    BY <1>2
  <2> HIDE DEF w
  <2>3. w.flushed \in Seq(Seq(Byte)) /\ w.bytes \in Seq(Byte) /\ Join(w.flushed) \in Seq(Byte)
    BY <2>1, JoinType DEF Writer
  <2>4. Append(s, x) = s \o <<x>>
    OBVIOUS
  <2>5. s = Join(w.flushed) \o w.bytes
    BY <2>2 DEF Batched
  <2>6. CASE Len(w.bytes) = Batch
    <3>1. v.flushed = Append(w.flushed, w.bytes) /\ v.bytes = <<x>>
      BY <2>1, <2>6, PutRawFacts
    <3> HIDE DEF v
    <3>2. Join(v.flushed) = s
      BY <2>3, <2>5, <3>1, JoinAppend
    <3>3. \A i \in 1 .. Len(v.flushed) : Len(v.flushed[i]) = Batch
      BY <2>2, <2>3, <2>6, <3>1 DEF Batched
    <3>4. Len(v.bytes) <= Batch
      BY <1>0, <3>1
    <3>5. Batched(Append(s, x), v)
      BY <2>4, <3>1, <3>2, <3>3, <3>4 DEF Batched
    <3> QED
      BY <2>1, <3>5
  <2>7. CASE Len(w.bytes) # Batch
    <3>1. v.flushed = w.flushed /\ v.bytes = Append(w.bytes, x)
      BY <2>1, <2>7, PutRawFacts
    <3> HIDE DEF v
    <3>2. Join(v.flushed) \o v.bytes = Append(s, x)
      <4> DEFINE j == Join(w.flushed)
                 b == w.bytes
      <4>1. j \in Seq(Byte) /\ b \in Seq(Byte) /\ s = j \o b
        BY <2>3, <2>5
      <4>2. Join(v.flushed) \o v.bytes = j \o Append(b, x)
        BY <3>1
      <4> HIDE DEF j, b
      <4>3. j \o Append(b, x) = Append(j \o b, x)
        BY <4>1
      <4> QED
        BY <4>1, <4>2, <4>3
    <3>3. \A i \in 1 .. Len(v.flushed) : Len(v.flushed[i]) = Batch
      BY <2>2, <3>1 DEF Batched
    <3>4. Len(v.bytes) <= Batch
      <4>1. Len(w.bytes) \in Nat /\ Len(w.bytes) <= Batch /\ Len(v.bytes) = Len(w.bytes) + 1
        BY <2>2, <2>3, <3>1 DEF Batched
      <4> QED
        BY <1>0, <2>7, <4>1
    <3>5. Batched(Append(s, x), v)
      BY <3>2, <3>3, <3>4 DEF Batched
    <3> QED
      BY <2>1, <3>5
  <2> QED
    BY <2>6, <2>7
<1> HIDE DEF T
<1>3. bytes \in T
  BY <1>1, <1>2, SeqInduction
<1> QED
  BY <1>3 DEF T

LEMMA EnclosedType ==
    ASSUME NEW body \in Seq(Byte), NEW crc \in Word16
    PROVE  /\ <<START>> \in Seq(Byte) /\ <<END>> \in Seq(Byte)
           /\ body \o <<Low(crc), High(crc)>> \in Seq(Byte)
           /\ EscapeAll(body \o <<Low(crc), High(crc)>>) \in Seq(Byte)
           /\ Enclosed(body, crc) \in Seq(Byte)
<1>1. START \in Byte /\ END \in Byte /\ Low(crc) \in Byte /\ High(crc) \in Byte
  <2>1. START \in Byte /\ END \in Byte
    BY ByteIs DEF START, END
  <2>2. Low(crc) \in Byte /\ High(crc) \in Byte
    BY WordHalves DEF Low, High
  <2> QED
    BY <2>1, <2>2
<1>2. <<START>> \in Seq(Byte) /\ <<END>> \in Seq(Byte) /\ <<Low(crc), High(crc)>> \in Seq(Byte)
  BY <1>1
<1>3. body \o <<Low(crc), High(crc)>> \in Seq(Byte)
  BY <1>2, ConcatLen
<1> DEFINE e == EscapeAll(body \o <<Low(crc), High(crc)>>)
<1>4. e \in Seq(Byte)
  BY <1>3, EscapeAllType
<1> HIDE DEF e
<1>5. (<<START>> \o e) \o <<END>> \in Seq(Byte)
  BY <1>2, <1>4, ConcatLen
<1> QED
  BY <1>2, <1>3, <1>4, <1>5 DEF Enclosed, e

(***************************************************************************)
(* Both transports write the same bytes for a packet, whatever the size of *)
(* the batches; the ESP-IDF one never needs a batch larger than its buffer.*)
(***************************************************************************)
THEOREM FramesAreTheSame ==
    ASSUME NEW type \in Byte, NEW packet \in Seq(Byte)
    PROVE  /\ EspFrame(type, packet) \in Seq(Seq(Byte))
           /\ Join(EspFrame(type, packet)) = UnixFrame(type, packet)
           /\ \A i \in 1 .. Len(EspFrame(type, packet)) : Len(EspFrame(type, packet)[i]) <= Batch
<1> DEFINE body == <<type>> \o packet
           bytes == Enclosed(body, Crc(body))
           writer == Put(bytes)
<1>1. body \in Seq(Byte)
  OBVIOUS
<1>2. Read(CrcEsp, Word16, CrcInit, body) = Crc(body) /\ Crc(body) \in Word16
  BY <1>1, CrcReads
<1>3. bytes \in Seq(Byte)
  BY <1>1, <1>2, EnclosedType
<1>4. UnixFrame(type, packet) = bytes
  BY DEF UnixFrame, Crc
<1>5. EspFrame(type, packet) = Append(writer.flushed, writer.bytes)
  <2>1. EspFrame(type, packet) =
          Append(Put(Enclosed(body, Read(CrcEsp, Word16, CrcInit, body))).flushed,
                 Put(Enclosed(body, Read(CrcEsp, Word16, CrcInit, body))).bytes)
    BY DEF EspFrame, Put, Empty
  <2> HIDE DEF body
  <2> QED
    BY <1>2, <2>1
<1> HIDE DEF bytes, body
<1>6. writer \in Writer /\ Batched(bytes, writer)
  <2>1. 0 \in Byte
    BY ByteIs
  <2> QED
    BY <1>3, <2>1, PutLast, PutBatches
<1> HIDE DEF writer
<1>7. writer.flushed \in Seq(Seq(Byte)) /\ writer.bytes \in Seq(Byte)
  BY <1>6 DEF Writer
<1>8. Join(EspFrame(type, packet)) = bytes
  BY <1>5, <1>6, <1>7, JoinAppend DEF Batched
<1>9. Batch \in Nat
  BY BatchAssumption
<1>10. \A i \in 1 .. Len(EspFrame(type, packet)) : Len(EspFrame(type, packet)[i]) <= Batch
  BY <1>5, <1>6, <1>7, <1>9 DEF Batched
<1>11. EspFrame(type, packet) \in Seq(Seq(Byte))
  BY <1>5, <1>7
<1> QED
  BY <1>4, <1>8, <1>10, <1>11

-----------------------------------------------------------------------------
(***************************************************************************)
(* The decoder.                                                            *)
(***************************************************************************)
LEMMA DecoderFields ==
    ASSUME NEW s \in Decoder
    PROVE  /\ s.mode \in {"text", "frame", "escape"} /\ s.body \in Seq(Byte)
           /\ s.clean \in BOOLEAN /\ s.frames \in Seq(Seq(Byte))
  BY DEF Decoder

\* Which code stands for which byte.
LEMMA Unescaping ==
    /\ \A byte \in Reserved : Unescaped(Code(byte)) = {byte}
    /\ \A code : code \in Reserved => Unescaped(code) = {}
    /\ \A code : Unescaped(code) \subseteq Byte
<1>1. /\ Code(START) = 222 /\ Code(END) = 220 /\ Code(ESC) = 221 /\ Code(CR) = 208 /\ Code(LF) = 209
  BY DEF Code, START, END, ESC, CR, LF
<1>2. START = 165 /\ END = 192 /\ ESC = 219 /\ CR = 13 /\ LF = 10
  BY DEF START, END, ESC, CR, LF
<1>3. Reserved = {START, END, ESC, CR, LF}
  BY DEF Reserved
<1>4. \A byte \in Reserved : Unescaped(Code(byte)) = {byte}
  BY <1>1, <1>3 DEF Unescaped
<1>5. \A code \in Reserved : Unescaped(code) = {}
  BY <1>1, <1>2, <1>3 DEF Unescaped
<1>6. Reserved \subseteq Byte
  BY <1>2, <1>3, ByteIs
<1> QED
  BY <1>4, <1>5, <1>6 DEF Unescaped

\* What EXCEPT makes of a state.
LEMMA ModeModified ==
    ASSUME NEW s \in Decoder, NEW m
    PROVE  [s EXCEPT !.mode = m] =
             [mode |-> m, body |-> s.body, clean |-> s.clean, frames |-> s.frames]
  BY SMTT(40) DEF Decoder

LEMMA FramesModified ==
    ASSUME NEW s \in Decoder, NEW m, NEW f
    PROVE  [s EXCEPT !.mode = m, !.frames = f] =
             [mode |-> m, body |-> s.body, clean |-> s.clean, frames |-> f]
<1> DEFINE t == [s EXCEPT !.mode = m]
<1>1. [s EXCEPT !.mode = m, !.frames = f] = [t EXCEPT !.frames = f]
  OBVIOUS
<1>2. t = [mode |-> m, body |-> s.body, clean |-> s.clean, frames |-> s.frames]
  BY ModeModified
<1> HIDE DEF t
<1>3. [t EXCEPT !.frames = f] = [mode |-> m, body |-> s.body, clean |-> s.clean, frames |-> f]
  BY <1>2
<1> QED
  BY <1>1, <1>3

LEMMA BodyModified ==
    ASSUME NEW s \in Decoder, NEW b, NEW c
    PROVE  [s EXCEPT !.body = b, !.clean = c] =
             [mode |-> s.mode, body |-> b, clean |-> c, frames |-> s.frames]
<1> DEFINE t == [s EXCEPT !.body = b]
<1>1. [s EXCEPT !.body = b, !.clean = c] = [t EXCEPT !.clean = c]
  OBVIOUS
<1>2. t = [mode |-> s.mode, body |-> b, clean |-> s.clean, frames |-> s.frames]
  BY DEF Decoder
<1> HIDE DEF t
<1>3. [t EXCEPT !.clean = c] = [mode |-> s.mode, body |-> b, clean |-> c, frames |-> s.frames]
  BY <1>2
<1> QED
  BY <1>1, <1>3

LEMMA AllModified ==
    ASSUME NEW s \in Decoder, NEW m, NEW b, NEW c
    PROVE  [s EXCEPT !.mode = m, !.body = b, !.clean = c] =
             [mode |-> m, body |-> b, clean |-> c, frames |-> s.frames]
<1> DEFINE t == [s EXCEPT !.body = b, !.clean = c]
<1>1. [s EXCEPT !.mode = m, !.body = b, !.clean = c] = [t EXCEPT !.mode = m]
  BY DEF Decoder
<1>2. t = [mode |-> s.mode, body |-> b, clean |-> c, frames |-> s.frames]
  BY BodyModified
<1> HIDE DEF t
<1>3. [t EXCEPT !.mode = m] = [mode |-> m, body |-> b, clean |-> c, frames |-> s.frames]
  BY <1>2
<1> QED
  BY <1>1, <1>3

\* One byte in each mode.
LEMMA DecodeText ==
    ASSUME NEW s \in Decoder, NEW byte, s.mode = "text"
    PROVE  DecodeByte(s, byte) =
             IF byte = START THEN [mode |-> "frame", body |-> <<>>, clean |-> TRUE, frames |-> s.frames]
             ELSE s
<1>1. DecodeByte(s, byte) = IF byte = START
                            THEN [s EXCEPT !.mode = "frame", !.body = <<>>, !.clean = TRUE] ELSE s
  BY DEF DecodeByte
<1>2. [s EXCEPT !.mode = "frame", !.body = <<>>, !.clean = TRUE] =
        [mode |-> "frame", body |-> <<>>, clean |-> TRUE, frames |-> s.frames]
  BY AllModified
<1> QED
  BY <1>1, <1>2, Zenon

LEMMA DecodeEnd ==
    ASSUME NEW s \in Decoder, s.mode = "frame"
    PROVE  DecodeByte(s, END) =
             [mode |-> "text", body |-> s.body, clean |-> s.clean,
              frames |-> IF ValidFrame(s.body, s.clean)
                         THEN Append(s.frames, SubSeq(s.body, 1, Len(s.body) - 2)) ELSE s.frames]
<1> DEFINE more == IF ValidFrame(s.body, s.clean)
                   THEN Append(s.frames, SubSeq(s.body, 1, Len(s.body) - 2)) ELSE s.frames
<1>1. END # ESC
  BY DEF END, ESC
<1>2. DecodeByte(s, END) = [s EXCEPT !.mode = "text", !.frames = more]
  BY <1>1 DEF DecodeByte
<1> HIDE DEF more
<1> QED
  BY <1>2, FramesModified DEF more

LEMMA DecodeEscape ==
    ASSUME NEW s \in Decoder, s.mode = "frame"
    PROVE  DecodeByte(s, ESC) =
             [mode |-> "escape", body |-> s.body, clean |-> s.clean, frames |-> s.frames]
<1>1. ESC # END
  BY DEF ESC, END
<1>2. DecodeByte(s, ESC) = [s EXCEPT !.mode = "escape"]
  BY <1>1 DEF DecodeByte
<1> QED
  BY <1>2, ModeModified

LEMMA DecodeInside ==
    ASSUME NEW s \in Decoder, NEW byte, s.mode = "frame", byte # END, byte # ESC
    PROVE  DecodeByte(s, byte) =
             [mode |-> "frame", body |-> Append(s.body, byte),
              clean |-> s.clean /\ byte \notin Reserved, frames |-> s.frames]
<1> DEFINE more == Append(s.body, byte)
           clean == s.clean /\ byte \notin Reserved
<1>1. DecodeByte(s, byte) = [s EXCEPT !.body = more, !.clean = clean]
  BY DEF DecodeByte
<1> HIDE DEF more, clean
<1>2. [s EXCEPT !.body = more, !.clean = clean] =
        [mode |-> s.mode, body |-> more, clean |-> clean, frames |-> s.frames]
  BY BodyModified
<1> QED
  BY <1>1, <1>2 DEF more, clean

LEMMA DecodeCode ==
    ASSUME NEW s \in Decoder, NEW code, s.mode = "escape"
    PROVE  DecodeByte(s, code) =
             [mode |-> "frame",
              body |-> IF Unescaped(code) = {} THEN s.body
                       ELSE Append(s.body, CHOOSE b \in Unescaped(code) : TRUE),
              clean |-> s.clean /\ Unescaped(code) # {}, frames |-> s.frames]
<1> DEFINE more == IF Unescaped(code) = {} THEN s.body
                   ELSE Append(s.body, CHOOSE b \in Unescaped(code) : TRUE)
           clean == s.clean /\ Unescaped(code) # {}
<1>1. DecodeByte(s, code) = [s EXCEPT !.mode = "frame", !.body = more, !.clean = clean]
  BY DEF DecodeByte
<1> HIDE DEF more, clean
<1>2. [s EXCEPT !.mode = "frame", !.body = more, !.clean = clean] =
        [mode |-> "frame", body |-> more, clean |-> clean, frames |-> s.frames]
  BY AllModified, ZenonT(40)
<1> QED
  BY <1>1, <1>2 DEF more, clean

LEMMA DecodeByteType ==
    ASSUME NEW s \in Decoder, NEW byte \in Byte
    PROVE  DecodeByte(s, byte) \in Decoder
<1>1. /\ s.mode \in {"text", "frame", "escape"} /\ s.body \in Seq(Byte)
      /\ s.clean \in BOOLEAN /\ s.frames \in Seq(Seq(Byte))
  BY DecoderFields
<1>2. CASE s.mode = "text"
  <2>1. <<>> \in Seq(Byte)
    OBVIOUS
  <2>2. [mode |-> "frame", body |-> <<>>, clean |-> TRUE, frames |-> s.frames] \in Decoder
    BY <1>1, <2>1 DEF Decoder
  <2> QED
    BY <1>2, <2>2, DecodeText
<1>3. CASE s.mode = "frame" /\ byte = END
  <2> DEFINE more == IF ValidFrame(s.body, s.clean)
                     THEN Append(s.frames, SubSeq(s.body, 1, Len(s.body) - 2)) ELSE s.frames
  <2>1. more \in Seq(Seq(Byte))
    <3>1. CASE ValidFrame(s.body, s.clean)
      <4>1. SubSeq(s.body, 1, Len(s.body) - 2) \in Seq(Byte)
        BY <1>1, <3>1 DEF ValidFrame
      <4> QED
        BY <1>1, <3>1, <4>1
    <3>2. CASE ~ValidFrame(s.body, s.clean)
      BY <1>1, <3>2
    <3> QED
      BY <3>1, <3>2
  <2>2. DecodeByte(s, byte) = [mode |-> "text", body |-> s.body, clean |-> s.clean, frames |-> more]
    BY <1>3, DecodeEnd
  <2> HIDE DEF more
  <2> QED
    BY <1>1, <2>1, <2>2 DEF Decoder
<1>4. CASE s.mode = "frame" /\ byte = ESC
  BY <1>1, <1>4, DecodeEscape DEF Decoder
<1>5. CASE s.mode = "frame" /\ byte # END /\ byte # ESC
  <2> DEFINE more == Append(s.body, byte)
             clean == s.clean /\ byte \notin Reserved
  <2>1. more \in Seq(Byte) /\ clean \in BOOLEAN
    BY <1>1
  <2>2. DecodeByte(s, byte) = [mode |-> "frame", body |-> more, clean |-> clean, frames |-> s.frames]
    BY <1>5, DecodeInside
  <2> HIDE DEF more, clean
  <2> QED
    BY <1>1, <2>1, <2>2 DEF Decoder
<1>6. CASE s.mode = "escape"
  <2> DEFINE more == IF Unescaped(byte) = {} THEN s.body
                     ELSE Append(s.body, CHOOSE b \in Unescaped(byte) : TRUE)
             clean == s.clean /\ Unescaped(byte) # {}
  <2>1. more \in Seq(Byte)
    <3>1. CASE Unescaped(byte) = {}
      BY <1>1, <3>1
    <3>2. CASE Unescaped(byte) # {}
      <4>1. (CHOOSE b \in Unescaped(byte) : TRUE) \in Byte
        BY <3>2, Unescaping
      <4> QED
        BY <1>1, <3>2, <4>1
    <3> QED
      BY <3>1, <3>2
  <2>2. clean \in BOOLEAN
    BY <1>1
  <2>3. DecodeByte(s, byte) = [mode |-> "frame", body |-> more, clean |-> clean, frames |-> s.frames]
    BY <1>6, DecodeCode
  <2> HIDE DEF more, clean
  <2> QED
    BY <1>1, <2>1, <2>2, <2>3 DEF Decoder
<1> QED
  BY <1>1, <1>2, <1>3, <1>4, <1>5, <1>6

\* The decoder reads one byte after the other.
DecodeStep(bytes) == [at \in (1 .. Len(bytes)) \X Decoder |-> DecodeByte(at[2], bytes[at[1]])]

LEMMA DecodeIsRun ==
    ASSUME NEW s, NEW bytes \in Seq(Byte)
    PROVE  /\ DecodeStep(bytes) \in [(1 .. Len(bytes)) \X Decoder -> Decoder]
           /\ \A n \in 1 .. Len(bytes), d \in Decoder : DecodeStep(bytes)[<<n, d>>] = DecodeByte(d, bytes[n])
           /\ Decode(s, bytes) = Run(DecodeStep(bytes), Decoder, s, Len(bytes))
<1>1. \A n \in 1 .. Len(bytes) : bytes[n] \in Byte
  OBVIOUS
<1>2. \A n \in 1 .. Len(bytes), d \in Decoder : DecodeByte(d, bytes[n]) \in Decoder
  BY <1>1, DecodeByteType
<1>3. DecodeStep(bytes) \in [(1 .. Len(bytes)) \X Decoder -> Decoder]
  BY <1>2 DEF DecodeStep
<1>4. \A n \in 1 .. Len(bytes), d \in Decoder : DecodeStep(bytes)[<<n, d>>] = DecodeByte(d, bytes[n])
  BY DEF DecodeStep
<1>5. Decode(s, bytes) = Run(DecodeStep(bytes), Decoder, s, Len(bytes))
  BY DEF Decode, Read, DecodeStep
<1> QED
  BY <1>3, <1>4, <1>5

LEMMA DecodeNone ==
    ASSUME NEW s \in Decoder
    PROVE  Decode(s, <<>>) = s
<1>1. <<>> \in Seq(Byte) /\ Len(<<>>) = 0
  OBVIOUS
<1> DEFINE next == DecodeStep(<<>>)
<1>2. next \in [(1 .. 0) \X Decoder -> Decoder] /\ Decode(s, <<>>) = Run(next, Decoder, s, 0)
  BY <1>1, DecodeIsRun
<1> HIDE DEF next
<1>3. Run(next, Decoder, s, 0) = s
  BY <1>2, RunNone
<1> QED
  BY <1>2, <1>3

LEMMA DecodeLast ==
    ASSUME NEW s \in Decoder, NEW bytes \in Seq(Byte), NEW byte \in Byte
    PROVE  Decode(s, bytes) \in Decoder /\ Decode(s, Append(bytes, byte)) = DecodeByte(Decode(s, bytes), byte)
<1> DEFINE all == Append(bytes, byte)
           m == Len(bytes)
           one == DecodeStep(bytes)
           next == DecodeStep(all)
<1>1. /\ all \in Seq(Byte) /\ m \in Nat /\ Len(all) = m + 1 /\ all[m + 1] = byte
      /\ \A i \in 1 .. m : all[i] = bytes[i]
  OBVIOUS
<1> HIDE DEF all
<1>2. /\ one \in [(1 .. m) \X Decoder -> Decoder]
      /\ \A n \in 1 .. m, d \in Decoder : one[<<n, d>>] = DecodeByte(d, bytes[n])
      /\ Decode(s, bytes) = Run(one, Decoder, s, m)
  BY DecodeIsRun
<1>3. /\ next \in [(1 .. m + 1) \X Decoder -> Decoder]
      /\ \A n \in 1 .. m + 1, d \in Decoder : next[<<n, d>>] = DecodeByte(d, all[n])
      /\ Decode(s, all) = Run(next, Decoder, s, m + 1)
  BY <1>1, DecodeIsRun
<1>4. m \in Nat /\ m + 1 \in 1 .. m + 1
  OBVIOUS
<1> HIDE DEF one, next, m
<1>5. \A n \in 1 .. m, d \in Decoder : next[<<n, d>>] = one[<<n, d>>]
  <2>1. ASSUME NEW n \in 1 .. m, NEW d \in Decoder PROVE next[<<n, d>>] = one[<<n, d>>]
    <3>1. n \in 1 .. m + 1 /\ all[n] = bytes[n]
      BY <1>1, <1>4
    <3> QED
      BY <1>2, <1>3, <3>1, Zenon
  <2> QED
    BY <2>1, Zenon
<1>6. /\ one \in [(1 .. m) \X Decoder -> Decoder] /\ next \in [(1 .. m + 1) \X Decoder -> Decoder]
      /\ m \in Nat
  BY <1>2, <1>3, <1>4
<1>7. Decode(s, bytes) \in Decoder
  <2>1. Run(one, Decoder, s, m) \in Decoder
    BY <1>6, RunType
  <2> QED
    BY <1>2, <2>1
<1>8. Decode(s, all) = next[<<m + 1, Decode(s, bytes)>>]
  <2>1. Run(next, Decoder, s, m + 1) = next[<<m + 1, Run(one, Decoder, s, m)>>]
    BY <1>5, <1>6, RunLast
  <2> QED
    BY <1>2, <1>3, <2>1
<1>9. next[<<m + 1, Decode(s, bytes)>>] = DecodeByte(Decode(s, bytes), all[m + 1])
  BY <1>3, <1>4, <1>7, Zenon
<1> QED
  BY <1>1, <1>7, <1>8, <1>9 DEF all

LEMMA DecodeType ==
    ASSUME NEW s \in Decoder, NEW bytes \in Seq(Byte)
    PROVE  Decode(s, bytes) \in Decoder
<1>1. 0 \in Byte
  BY ByteIs
<1> QED
  BY <1>1, DecodeLast

LEMMA DecodeOne ==
    ASSUME NEW s \in Decoder, NEW byte \in Byte
    PROVE  Decode(s, <<byte>>) = DecodeByte(s, byte)
<1>1. <<byte>> = Append(<<>>, byte) /\ <<>> \in Seq(Byte)
  OBVIOUS
<1>2. Decode(s, Append(<<>>, byte)) = DecodeByte(Decode(s, <<>>), byte)
  BY <1>1, DecodeLast
<1> QED
  BY <1>1, <1>2, DecodeNone

\* What is read in two pieces is read as a whole.
LEMMA DecodeConcat ==
    ASSUME NEW s \in Decoder, NEW one \in Seq(Byte), NEW two \in Seq(Byte)
    PROVE  Decode(s, one \o two) = Decode(Decode(s, one), two)
<1> DEFINE T == {b \in Seq(Byte) : Decode(s, one \o b) = Decode(Decode(s, one), b)}
<1>1. Decode(s, one) \in Decoder
  BY DecodeType
<1>2. <<>> \in T
  <2>1. one \o <<>> = one /\ <<>> \in Seq(Byte)
    OBVIOUS
  <2>2. Decode(Decode(s, one), <<>>) = Decode(s, one)
    BY <1>1, DecodeNone
  <2> QED
    BY <2>1, <2>2
<1>3. ASSUME NEW b \in Seq(Byte), NEW x \in Byte, b \in T PROVE Append(b, x) \in T
  <2>1. one \o Append(b, x) = Append(one \o b, x) /\ one \o b \in Seq(Byte) /\ Append(b, x) \in Seq(Byte)
    OBVIOUS
  <2>2. Decode(s, Append(one \o b, x)) = DecodeByte(Decode(s, one \o b), x)
    BY <2>1, DecodeLast
  <2>3. Decode(Decode(s, one), Append(b, x)) = DecodeByte(Decode(Decode(s, one), b), x)
    BY <1>1, DecodeLast
  <2>4. Decode(s, one \o b) = Decode(Decode(s, one), b)
    BY <1>3
  <2> QED
    BY <2>1, <2>2, <2>3, <2>4
<1> HIDE DEF T
<1>4. two \in T
  BY <1>2, <1>3, SeqInduction
<1> QED
  BY <1>4 DEF T

\* A state of the decoder inside a frame.
InFrame(body, clean, frames) == [mode |-> "frame", body |-> body, clean |-> clean, frames |-> frames]

LEMMA InFrameType ==
    ASSUME NEW body \in Seq(Byte), NEW clean \in BOOLEAN, NEW frames \in Seq(Seq(Byte))
    PROVE  /\ InFrame(body, clean, frames) \in Decoder
           /\ InFrame(body, clean, frames).mode = "frame" /\ InFrame(body, clean, frames).body = body
           /\ InFrame(body, clean, frames).clean = clean /\ InFrame(body, clean, frames).frames = frames
  BY DEF InFrame, Decoder

LEMMA CodesAreBytes == ESC \in Byte /\ \A byte \in Reserved : Code(byte) \in Byte
<1>1. ESC \in Byte
  BY ByteIs DEF ESC
<1>2. ASSUME NEW byte \in Reserved PROVE Code(byte) \in Byte
  <2> DEFINE code == Code(byte)
  <2>1. code \in {222, 220, 221, 208, 209}
    BY <1>2 DEF Code, Reserved, START, END, ESC, CR, LF
  <2> HIDE DEF code
  <2>2. code \in Byte
    BY <2>1, ByteIs
  <2> QED
    BY <2>2 DEF code
<1> QED
  BY <1>1, <1>2

\* Inside a frame what Escape wrote is read back.
LEMMA DecodeEscaped ==
    ASSUME NEW body \in Seq(Byte), NEW clean \in BOOLEAN, NEW frames \in Seq(Seq(Byte)), NEW byte \in Byte
    PROVE  Decode(InFrame(body, clean, frames), Escape(byte)) = InFrame(Append(body, byte), clean, frames)
<1> DEFINE s == InFrame(body, clean, frames)
<1>1. s \in Decoder /\ s.mode = "frame" /\ s.body = body /\ s.clean = clean /\ s.frames = frames
  BY InFrameType
<1> HIDE DEF s
<1>2. CASE byte \in Reserved
  <2> DEFINE t == [mode |-> "escape", body |-> body, clean |-> clean, frames |-> frames]
             code == Code(byte)
  <2>1. code \in Byte /\ ESC \in Byte
    BY <1>2, CodesAreBytes, Zenon
  <2>2. Unescaped(code) = {byte}
    BY <1>2, Unescaping
  <2>3. t \in Decoder /\ t.mode = "escape" /\ t.body = body /\ t.clean = clean /\ t.frames = frames
    BY DEF Decoder
  <2>4. DecodeByte(s, ESC) = t
    BY <1>1, DecodeEscape
  <2> HIDE DEF t, code
  <2>5. (CHOOSE b \in Unescaped(code) : TRUE) = byte /\ Unescaped(code) # {}
    BY <2>2
  <2>6. DecodeByte(t, code) =
          [mode |-> "frame",
           body |-> IF Unescaped(code) = {} THEN t.body
                    ELSE Append(t.body, CHOOSE b \in Unescaped(code) : TRUE),
           clean |-> t.clean /\ Unescaped(code) # {}, frames |-> t.frames]
    BY <2>3, DecodeCode, Zenon
  <2>7. /\ (IF Unescaped(code) = {} THEN t.body ELSE Append(t.body, CHOOSE b \in Unescaped(code) : TRUE))
             = Append(body, byte)
        /\ (t.clean /\ Unescaped(code) # {}) = clean
    BY <2>3, <2>5
  <2>8. DecodeByte(t, code) = InFrame(Append(body, byte), clean, frames)
    BY <2>3, <2>6, <2>7, Zenon DEF InFrame
  <2>9. Escape(byte) = <<ESC>> \o <<code>> /\ <<ESC>> \in Seq(Byte) /\ <<code>> \in Seq(Byte)
    BY <1>2, <2>1 DEF Escape, code
  <2>10. Decode(s, Escape(byte)) = Decode(Decode(s, <<ESC>>), <<code>>)
    <3> DEFINE one == <<ESC>>
               two == <<code>>
    <3>1. one \in Seq(Byte) /\ two \in Seq(Byte) /\ Escape(byte) = one \o two
      BY <2>9
    <3> HIDE DEF one, two
    <3>2. Decode(s, one \o two) = Decode(Decode(s, one), two)
      BY <1>1, <3>1, DecodeConcat
    <3> QED
      BY <3>1, <3>2 DEF one, two
  <2>11. Decode(s, <<ESC>>) = t /\ Decode(t, <<code>>) = DecodeByte(t, code)
    BY <1>1, <2>1, <2>3, <2>4, DecodeOne
  <2> QED
    BY <2>8, <2>10, <2>11 DEF s
<1>3. CASE byte \notin Reserved
  <2>1. byte # END /\ byte # ESC
    BY <1>3 DEF Reserved
  <2>2. DecodeByte(s, byte) =
          [mode |-> "frame", body |-> Append(s.body, byte), clean |-> s.clean /\ byte \notin Reserved,
           frames |-> s.frames]
    BY <1>1, <2>1, DecodeInside
  <2>3. (s.clean /\ byte \notin Reserved) = clean
    BY <1>1, <1>3
  <2>4. DecodeByte(s, byte) = InFrame(Append(body, byte), clean, frames)
    BY <1>1, <2>2, <2>3, Zenon DEF InFrame
  <2>5. Escape(byte) = <<byte>>
    BY <1>3 DEF Escape
  <2> QED
    BY <1>1, <2>4, <2>5, DecodeOne DEF s
<1> QED
  BY <1>2, <1>3

LEMMA DecodeEscapedAll ==
    ASSUME NEW body \in Seq(Byte), NEW clean \in BOOLEAN, NEW frames \in Seq(Seq(Byte)),
           NEW bytes \in Seq(Byte)
    PROVE  Decode(InFrame(body, clean, frames), EscapeAll(bytes)) = InFrame(body \o bytes, clean, frames)
<1> DEFINE s == InFrame(body, clean, frames)
           T == {b \in Seq(Byte) : Decode(s, EscapeAll(b)) = InFrame(body \o b, clean, frames)}
<1>1. s \in Decoder
  BY InFrameType
<1>2. <<>> \in T
  <2>1. body \o <<>> = body /\ <<>> \in Seq(Byte)
    OBVIOUS
  <2> QED
    BY <1>1, <2>1, DecodeNone, EscapeAllEmpty
<1>3. ASSUME NEW b \in Seq(Byte), NEW x \in Byte, b \in T PROVE Append(b, x) \in T
  <2>1. EscapeAll(b) \in Seq(Byte) /\ Escape(x) \in Seq(Byte)
    BY EscapeAllType, EscapeBytes
  <2>2. Decode(s, EscapeAll(b)) = InFrame(body \o b, clean, frames)
    BY <1>3
  <2>3. EscapeAll(Append(b, x)) = EscapeAll(b) \o Escape(x)
    BY EscapeAllAppend
  <2> HIDE DEF s
  <2>4. Decode(s, EscapeAll(b) \o Escape(x)) = Decode(Decode(s, EscapeAll(b)), Escape(x))
    BY <1>1, <2>1, DecodeConcat
  <2>5. body \o b \in Seq(Byte) /\ Append(b, x) \in Seq(Byte) /\ body \o Append(b, x) = Append(body \o b, x)
    OBVIOUS
  <2>6. Decode(InFrame(body \o b, clean, frames), Escape(x)) = InFrame(Append(body \o b, x), clean, frames)
    BY <2>5, DecodeEscaped
  <2> QED
    BY <2>2, <2>3, <2>4, <2>5, <2>6
<1> HIDE DEF T
<1>4. bytes \in T
  BY <1>2, <1>3, SeqInduction
<1> QED
  BY <1>4 DEF T

\* START begins a frame, or spoils the one that is still open.
LEMMA DecodeStart ==
    ASSUME NEW s \in Decoder
    PROVE  \E body \in Seq(Byte) :
              Decode(s, <<START>>) = InFrame(IF s.mode = "text" THEN <<>> ELSE body, s.mode = "text", s.frames)
<1>1. /\ s.mode \in {"text", "frame", "escape"} /\ s.body \in Seq(Byte)
      /\ s.clean \in BOOLEAN /\ s.frames \in Seq(Seq(Byte))
  BY DecoderFields
<1>2. START \in Byte /\ START # END /\ START # ESC /\ START \in Reserved
  BY ByteIs DEF START, END, ESC, Reserved
<1>3. Decode(s, <<START>>) = DecodeByte(s, START)
  BY <1>2, DecodeOne
<1>4. CASE s.mode = "text"
  <2>1. DecodeByte(s, START) = InFrame(<<>>, TRUE, s.frames)
    BY <1>4, DecodeText DEF InFrame
  <2> QED
    BY <1>1, <1>3, <1>4, <2>1
<1>5. CASE s.mode = "frame"
  <2>1. DecodeByte(s, START) =
          [mode |-> "frame", body |-> Append(s.body, START), clean |-> s.clean /\ START \notin Reserved,
           frames |-> s.frames]
    BY <1>2, <1>5, DecodeInside
  <2>2. (s.clean /\ START \notin Reserved) = FALSE /\ Append(s.body, START) \in Seq(Byte)
    BY <1>1, <1>2
  <2>3. DecodeByte(s, START) = InFrame(Append(s.body, START), FALSE, s.frames)
    BY <2>1, <2>2, Zenon DEF InFrame
  <2> QED
    BY <1>3, <1>5, <2>2, <2>3
<1>6. CASE s.mode = "escape"
  <2>1. Unescaped(START) = {}
    BY <1>2, Unescaping
  <2>2. DecodeByte(s, START) =
          [mode |-> "frame",
           body |-> IF Unescaped(START) = {} THEN s.body
                    ELSE Append(s.body, CHOOSE b \in Unescaped(START) : TRUE),
           clean |-> s.clean /\ Unescaped(START) # {}, frames |-> s.frames]
    BY <1>6, DecodeCode, Zenon
  <2>3. /\ (IF Unescaped(START) = {} THEN s.body
            ELSE Append(s.body, CHOOSE b \in Unescaped(START) : TRUE)) = s.body
        /\ (s.clean /\ Unescaped(START) # {}) = FALSE
    BY <2>1
  <2>4. DecodeByte(s, START) = InFrame(s.body, FALSE, s.frames)
    BY <2>2, <2>3, Zenon DEF InFrame
  <2> QED
    BY <1>1, <1>3, <1>6, <2>4
<1> QED
  BY <1>1, <1>4, <1>5, <1>6

\* Two sequences with the same elements are equal.
LEMMA SequenceEquality ==
    ASSUME NEW S, NEW s \in Seq(S), NEW t \in Seq(S), Len(s) = Len(t),
           \A i \in 1 .. Len(t) : s[i] = t[i]
    PROVE  s = t
  OBVIOUS

\* The body that Enclosed was given passes the decoder's test.
LEMMA BodyIsValid ==
    ASSUME NEW body \in Seq(Byte), Len(body) >= 1,
           NEW all, all = body \o <<Low(Crc(body)), High(Crc(body))>>
    PROVE  /\ ValidFrame(all, TRUE)
           /\ SubSeq(all, 1, Len(all) - 2) = body
<1> DEFINE low == Low(Crc(body))
           high == High(Crc(body))
<1>1. low \in Byte /\ high \in Byte
  <2>1. Crc(body) \in Word16
    BY CrcReads
  <2> QED
    BY <2>1, WordHalves DEF Low, High
<1>2. all = body \o <<low, high>>
  OBVIOUS
<1> HIDE DEF low, high
<1>3. /\ all \in Seq(Byte) /\ Len(all) = Len(body) + 2 /\ Len(all) - 2 = Len(body)
      /\ Len(all) - 1 = Len(body) + 1
  BY <1>1, <1>2
<1>4. SubSeq(all, 1, Len(all) - 2) = body
  <2> DEFINE data == SubSeq(all, 1, Len(body))
  <2>1. data \in Seq(Byte) /\ Len(data) = Len(body) /\ \A i \in 1 .. Len(body) : data[i] = all[i]
    BY <1>3
  <2>2. \A i \in 1 .. Len(body) : all[i] = body[i]
    BY <1>1, <1>2
  <2> HIDE DEF data
  <2>3. data = body
    <3>1. \A i \in 1 .. Len(body) : data[i] = body[i]
      BY <2>1, <2>2, Zenon
    <3>2. data \in Seq(Byte) /\ Len(data) = Len(body)
      BY <2>1, Zenon
    <3> HIDE <2>1, <2>2
    <3> QED
      BY <3>1, <3>2, SequenceEquality
  <2> QED
    BY <1>3, <2>3 DEF data
<1>5. SubSeq(all, Len(all) - 1, Len(all)) = <<low, high>>
  <2> DEFINE rest == SubSeq(all, Len(body) + 1, Len(body) + 2)
  <2>1. /\ rest \in Seq(Byte) /\ Len(rest) = 2
        /\ rest[1] = all[Len(body) + 1] /\ rest[2] = all[Len(body) + 2]
    BY <1>3
  <2>2. all[Len(body) + 1] = low /\ all[Len(body) + 2] = high
    BY <1>1, <1>2
  <2> HIDE DEF rest
  <2>3. rest = <<low, high>>
    BY <2>1, <2>2
  <2> QED
    BY <1>3, <2>3 DEF rest
<1>6. Len(all) >= 3
  BY <1>3
<1>7. Read(CrcUnix, Word16, CrcInit, SubSeq(all, 1, Len(all) - 2)) = Crc(body)
  BY <1>4 DEF Crc
<1>8. ValidFrame(all, TRUE)
  BY <1>5, <1>6, <1>7 DEF ValidFrame, low, high
<1> QED
  BY <1>4, <1>8

(***************************************************************************)
(* A whole frame arrives when the line was idle before it, and is refused  *)
(* when it follows the beginning of another; the line is idle after it.    *)
(***************************************************************************)
LEMMA DecodeFrame ==
    ASSUME NEW s \in Decoder, NEW body \in Seq(Byte), Len(body) >= 1
    PROVE  /\ Decode(s, Enclosed(body, Crc(body))).mode = "text"
           /\ Decode(s, Enclosed(body, Crc(body))).frames =
                IF s.mode = "text" THEN Append(s.frames, body) ELSE s.frames
<1> DEFINE all == body \o <<Low(Crc(body)), High(Crc(body))>>
           escaped == EscapeAll(all)
           begin == <<START>>
           end == <<END>>
<1>1. Crc(body) \in Word16
  BY CrcReads
<1>2. /\ begin \in Seq(Byte) /\ end \in Seq(Byte) /\ all \in Seq(Byte) /\ escaped \in Seq(Byte)
      /\ Enclosed(body, Crc(body)) = (begin \o escaped) \o end
  BY <1>1, EnclosedType DEF Enclosed
<1>3. s.mode \in {"text", "frame", "escape"} /\ s.frames \in Seq(Seq(Byte)) /\ (s.mode = "text") \in BOOLEAN
  BY DecoderFields
<1>4. PICK b \in Seq(Byte) :
         Decode(s, begin) = InFrame(IF s.mode = "text" THEN <<>> ELSE b, s.mode = "text", s.frames)
  BY DecodeStart
<1> DEFINE open == IF s.mode = "text" THEN <<>> ELSE b
           clean == s.mode = "text"
           t == InFrame(open \o all, clean, s.frames)
<1>5. ValidFrame(all, TRUE) /\ SubSeq(all, 1, Len(all) - 2) = body
  BY BodyIsValid
<1>6. END \in Byte
  BY ByteIs, SMTT(40) DEF END
<1> HIDE DEF all, begin
<1>8. open \in Seq(Byte) /\ open \o all \in Seq(Byte) /\ (clean => open \o all = all)
  BY <1>2
<1>9. Decode(s, Enclosed(body, Crc(body))) = Decode(Decode(Decode(s, begin), escaped), end)
  <2> HIDE DEF escaped, end
  <2>1. begin \o escaped \in Seq(Byte)
    BY <1>2, ConcatLen
  <2>2. Decode(s, (begin \o escaped) \o end) = Decode(Decode(s, begin \o escaped), end)
    BY <1>2, <2>1, DecodeConcat, ZenonT(40)
  <2>3. Decode(s, begin \o escaped) = Decode(Decode(s, begin), escaped)
    BY <1>2, DecodeConcat
  <2> QED
    BY <1>2, <2>2, <2>3
<1> HIDE DEF open, clean
<1>10. clean \in BOOLEAN /\ Decode(s, begin) = InFrame(open, clean, s.frames)
  BY <1>3, <1>4 DEF open, clean
<1>11. Decode(InFrame(open, clean, s.frames), escaped) = t
  BY <1>2, <1>3, <1>8, <1>10, DecodeEscapedAll
<1>12. t \in Decoder /\ t.mode = "frame" /\ t.body = open \o all /\ t.clean = clean /\ t.frames = s.frames
  <2> DEFINE whole == open \o all
             frames == s.frames
  <2>1. whole \in Seq(Byte) /\ frames \in Seq(Seq(Byte)) /\ clean \in BOOLEAN
    BY <1>3, <1>8, <1>10
  <2> HIDE DEF whole, frames
  <2>2. /\ InFrame(whole, clean, frames) \in Decoder
        /\ InFrame(whole, clean, frames).mode = "frame" /\ InFrame(whole, clean, frames).body = whole
        /\ InFrame(whole, clean, frames).clean = clean /\ InFrame(whole, clean, frames).frames = frames
    BY <2>1, InFrameType, ZenonT(40)
  <2> QED
    BY <2>2 DEF whole, frames
<1> HIDE DEF t, escaped
<1>13. Decode(t, end) = DecodeByte(t, END)
  BY <1>6, <1>12, DecodeOne
<1> DEFINE more == IF ValidFrame(t.body, t.clean)
                   THEN Append(t.frames, SubSeq(t.body, 1, Len(t.body) - 2)) ELSE t.frames
<1>14. DecodeByte(t, END) = [mode |-> "text", body |-> t.body, clean |-> t.clean, frames |-> more]
  BY <1>12, DecodeEnd
<1>15. more = IF s.mode = "text" THEN Append(s.frames, body) ELSE s.frames
  <2>1. CASE clean
    <3>1. t.body = all /\ t.clean = TRUE
      BY <1>8, <1>10, <1>12, <2>1
    <3>2. ValidFrame(t.body, t.clean) /\ SubSeq(t.body, 1, Len(t.body) - 2) = body
      BY <1>5, <3>1
    <3> QED
      BY <1>12, <2>1, <3>2 DEF clean
  <2>2. CASE ~clean
    <3>1. ~ValidFrame(t.body, t.clean)
      BY <1>12, <2>2 DEF ValidFrame
    <3> QED
      BY <1>12, <2>2, <3>1 DEF clean
  <2> QED
    BY <2>1, <2>2
<1> HIDE DEF more
<1>16. Decode(s, Enclosed(body, Crc(body))) =
         [mode |-> "text", body |-> t.body, clean |-> t.clean, frames |-> more]
  BY <1>9, <1>10, <1>11, <1>13, <1>14
<1> QED
  BY <1>15, <1>16

\* Without an END no frame arrives.
LEMMA DecodeWithoutEnd ==
    ASSUME NEW s \in Decoder, NEW bytes \in Seq(Byte), \A i \in 1 .. Len(bytes) : bytes[i] # END
    PROVE  Decode(s, bytes).frames = s.frames
<1> DEFINE Endless(b) == \A i \in 1 .. Len(b) : b[i] # END
           T == {b \in Seq(Byte) : Endless(b) => Decode(s, b).frames = s.frames}
<1>1. <<>> \in T
  BY DecodeNone
<1>2. ASSUME NEW b \in Seq(Byte), NEW x \in Byte, b \in T PROVE Append(b, x) \in T
  <2>1. Append(b, x) \in Seq(Byte)
    OBVIOUS
  <2>2. SUFFICES ASSUME Endless(Append(b, x)) PROVE Decode(s, Append(b, x)).frames = s.frames
    BY <2>1
  <2>3. Endless(b) /\ x # END
    <3>1. ASSUME NEW i \in 1 .. Len(b) PROVE b[i] # END
      <4>1. i \in 1 .. Len(Append(b, x)) /\ Append(b, x)[i] = b[i]
        OBVIOUS
      <4> QED
        BY <2>2, <4>1, Zenon
    <3>2. Len(b) + 1 \in 1 .. Len(Append(b, x)) /\ Append(b, x)[Len(b) + 1] = x
      OBVIOUS
    <3> QED
      BY <2>2, <3>1, <3>2, Zenon
  <2> DEFINE t == Decode(s, b)
  <2>4. t \in Decoder /\ Decode(s, Append(b, x)) = DecodeByte(t, x)
    BY DecodeLast
  <2>5. t.frames = s.frames
    BY <1>2, <2>3
  <2> HIDE DEF t
  <2>6. t.mode \in {"text", "frame", "escape"}
    BY <2>4, DecoderFields
  <2>7. DecodeByte(t, x).frames = t.frames
    <3>1. CASE t.mode = "text"
      BY <2>4, <3>1, DecodeText
    <3>2. CASE t.mode = "frame" /\ x = ESC
      BY <2>4, <3>2, DecodeEscape
    <3>3. CASE t.mode = "frame" /\ x # ESC
      BY <2>3, <2>4, <3>3, DecodeInside
    <3>4. CASE t.mode = "escape"
      BY <2>4, <3>4, DecodeCode
    <3> QED
      BY <2>6, <3>1, <3>2, <3>3, <3>4
  <2> QED
    BY <2>4, <2>5, <2>7
<1> HIDE DEF T
<1>3. bytes \in T
  BY <1>1, <1>2, SeqInduction
<1> QED
  BY <1>3 DEF T

\* END is the last byte of a frame and no other.
LEMMA OneEnd ==
    ASSUME NEW body \in Seq(Byte), NEW crc \in Word16
    PROVE  \A i \in 1 .. Len(Enclosed(body, crc)) - 1 : Enclosed(body, crc)[i] # END
<1> DEFINE escaped == EscapeAll(body \o <<Low(crc), High(crc)>>)
           frame == Enclosed(body, crc)
<1>1. body \o <<Low(crc), High(crc)>> \in Seq(Byte) /\ escaped \in Seq(Byte)
  BY EnclosedType
<1>2. \A i \in 1 .. Len(escaped) : escaped[i] \notin Reserved \ {ESC}
  BY <1>1, EscapeAllBytes
<1>3. START # END /\ END \in Reserved \ {ESC}
  BY DEF START, END, ESC, Reserved
<1>4. frame = (<<START>> \o escaped) \o <<END>>
  BY DEF Enclosed
<1> HIDE DEF escaped, frame
<1>5. Len(frame) = Len(escaped) + 2 /\ frame[1] = START /\ Len(escaped) \in Nat
  BY <1>1, <1>4
<1>6. \A i \in 1 .. Len(escaped) : frame[i + 1] = escaped[i]
  BY <1>1, <1>4
<1>7. ASSUME NEW i \in 1 .. Len(frame) - 1 PROVE frame[i] # END
  <2>1. CASE i = 1
    BY <1>3, <1>5, <2>1
  <2>2. CASE i # 1
    <3> DEFINE j == i - 1
    <3>1. j \in 1 .. Len(escaped) /\ i = j + 1
      BY <1>5, <2>2
    <3> HIDE DEF j
    <3>2. frame[i] = escaped[j] /\ escaped[j] \notin Reserved \ {ESC}
      BY <1>2, <1>6, <3>1
    <3> QED
      BY <1>3, <3>2
  <2> QED
    BY <2>1, <2>2
<1> QED
  BY <1>7 DEF frame

-----------------------------------------------------------------------------
(***************************************************************************)
(* The scanners.  A loop with equal rounds leaves a trace of its states;   *)
(* at the beginning of each piece of the format the state is known, and a  *)
(* piece takes no more rounds than it has characters.                      *)
(***************************************************************************)
Trace(t, round, start, n) ==
    /\ t \in [1 .. n + 1 -> DOMAIN round]
    /\ t[1] = start
    /\ \A k \in 1 .. n : t[k + 1] = round[t[k]]

\* A loop with equal rounds ends in the last state of its trace.
LEMMA RepeatTraces ==
    ASSUME NEW n \in Nat, NEW States, NEW round \in [States -> States], NEW start \in States
    PROVE  \E t : Trace(t, round, start, n) /\ Repeat(round, start, n) = t[n + 1]
<1> DEFINE step == [at \in (1 .. n) \X States |-> round[at[2]]]
<1>1. DOMAIN round = States
  OBVIOUS
<1>2. step \in [(1 .. n) \X States -> States]
  OBVIOUS
<1>3. ASSUME NEW k \in 1 .. n, NEW s \in States PROVE step[<<k, s>>] = round[s]
  OBVIOUS
<1>4. Repeat(round, start, n) = Run(step, States, start, n)
  BY <1>1 DEF Repeat
<1> HIDE DEF step
<1>5. PICK t : RunOf(t, step, start, n, States) /\ Run(step, States, start, n) = t[n + 1]
  BY <1>2, RunYields DEF Yields
<1>6. t \in [1 .. n + 1 -> States] /\ t[1] = start /\ \A k \in 1 .. n : t[k + 1] = step[<<k, t[k]>>]
  BY <1>5 DEF RunOf
<1>7. ASSUME NEW k \in 1 .. n PROVE t[k + 1] = round[t[k]]
  <2>1. k \in 1 .. n + 1
    OBVIOUS
  <2>2. t[k] \in States
    BY <1>6, <2>1
  <2> QED
    BY <1>3, <1>6, <2>2
<1>8. Trace(t, round, start, n)
  BY <1>1, <1>6, <1>7 DEF Trace
<1> QED
  BY <1>4, <1>5, <1>8

\* The loop comes to state s, in which it stands at position s.at, not after more rounds than that.
Reaches(t, s, n) == \E k \in 1 .. n + 1 : k <= s.at /\ t[k] = s

LEMMA ReachesStart ==
    ASSUME NEW n \in Nat, NEW t, NEW round, NEW start, Trace(t, round, start, n), start.at = 1
    PROVE  Reaches(t, start, n)
<1>1. 1 \in 1 .. n + 1 /\ 1 <= start.at /\ t[1] = start
  BY DEF Trace
<1> QED
  BY <1>1, Zenon DEF Reaches

LEMMA ReachesNext ==
    ASSUME NEW n \in Nat, NEW t, NEW round, NEW start, Trace(t, round, start, n),
           NEW s, Reaches(t, s, n), s.at \in Nat, s.at <= n,
           NEW u, round[s] = u, u.at \in Nat, u.at > s.at
    PROVE  Reaches(t, u, n)
<1>1. PICK k \in 1 .. n + 1 : k <= s.at /\ t[k] = s
  BY DEF Reaches
<1>2. k \in 1 .. n /\ k + 1 \in 1 .. n + 1 /\ k + 1 <= u.at
  BY <1>1
<1>3. t[k + 1] = u
  BY <1>1, <1>2 DEF Trace
<1> QED
  BY <1>2, <1>3, Zenon DEF Reaches

LEMMA ReachesEnd ==
    ASSUME NEW n \in Nat, NEW t, NEW round, NEW start, Trace(t, round, start, n),
           NEW s, Reaches(t, s, n), round[s] = s
    PROVE  t[n + 1] = s
<1>1. PICK k \in 1 .. n + 1 : t[k] = s
  BY DEF Reaches
<1> DEFINE T == {i \in Nat : k + i <= n + 1 => t[k + i] = s}
<1>2. 0 \in T
  BY <1>1
<1>3. ASSUME NEW i \in Nat, i \in T PROVE i + 1 \in T
  <2>1. SUFFICES ASSUME k + (i + 1) <= n + 1 PROVE t[k + (i + 1)] = s
    OBVIOUS
  <2>2. k + i \in 1 .. n /\ t[k + i] = s
    BY <1>3, <2>1
  <2>3. t[(k + i) + 1] = s
    BY <2>2, Zenon DEF Trace
  <2> QED
    BY <2>3
<1>4. n + 1 - k \in T
  <2>1. n + 1 - k \in Nat
    OBVIOUS
  <2> HIDE DEF T
  <2> QED
    BY <1>2, <1>3, <2>1, SetInduction
<1> QED
  BY <1>4

-----------------------------------------------------------------------------
\* The text w stands in format from position p on.
StandsAt(format, p, w) ==
    /\ p + Len(w) <= Len(format) + 1
    /\ \A i \in 1 .. Len(w) : format[p + i - 1] = w[i]

\* The characters the scanners tell apart.
Char == {"-", "0", "5", "*", ".", "h", "l", "z", "s", "d", "%", "{", "}"}

LEMMA StandsParts ==
    ASSUME NEW format, NEW p \in Nat \ {0}, NEW u \in Seq(Char), NEW v \in Seq(Char),
           Len(format) \in Nat, StandsAt(format, p, u \o v)
    PROVE  /\ StandsAt(format, p, u) /\ StandsAt(format, p + Len(u), v)
           /\ Len(u \o v) = Len(u) + Len(v)
<1> DEFINE m == Len(u)
           n == Len(v)
<1>1. m \in Nat /\ n \in Nat /\ Len(u \o v) = m + n
  OBVIOUS
<1>2. ASSUME NEW i \in 1 .. m PROVE (u \o v)[i] = u[i]
  OBVIOUS
<1>3. ASSUME NEW i \in 1 .. n PROVE (u \o v)[m + i] = v[i]
  OBVIOUS
<1>4. p + (m + n) <= Len(format) + 1 /\ \A i \in 1 .. m + n : format[p + i - 1] = (u \o v)[i]
  BY <1>1 DEF StandsAt
<1> HIDE DEF m, n
<1>5. ASSUME NEW i \in 1 .. m PROVE format[p + i - 1] = u[i]
  <2>1. i \in 1 .. m + n
    BY <1>1
  <2> QED
    BY <1>2, <1>4, <2>1
<1>6. ASSUME NEW i \in 1 .. n PROVE format[(p + m) + i - 1] = v[i]
  <2>1. m + i \in 1 .. m + n /\ (p + m) + i - 1 = p + (m + i) - 1
    BY <1>1
  <2> QED
    BY <1>3, <1>4, <2>1
<1>7. p + m <= Len(format) + 1 /\ (p + m) + n <= Len(format) + 1
  BY <1>1, <1>4
<1> QED
  BY <1>1, <1>5, <1>6, <1>7 DEF StandsAt, m, n

\* A C loop over characters of a set stops at the first one that is not in it.
LEMMA SkipsTo ==
    ASSUME NEW format \in Seq(Char), NEW p \in 1 .. Len(format) + 1, NEW set, NUL \notin set
    PROVE  /\ SkipWhile(format, p, set) \in p .. Len(format) + 1
           /\ At(format, SkipWhile(format, p, set)) \notin set
           /\ \A q \in p .. SkipWhile(format, p, set) - 1 : At(format, q) \in set
<1> DEFINE S == {q \in p .. Len(format) + 1 : At(format, q) \notin set}
<1>1. Len(format) \in Nat
  OBVIOUS
<1>2. Len(format) + 1 \in S
  <2>1. At(format, Len(format) + 1) = NUL
    BY DEF At
  <2> QED
    BY <1>1, <2>1
<1>3. \E x \in S : \A y \in S : x <= y
  <2> DEFINE T == {k \in Nat : p + k \in S}
  <2>1. Len(format) + 1 - p \in T
    BY <1>1, <1>2
  <2>2. PICK k \in T : \A j \in T : k <= j
    BY <2>1, Smallest
  <2>3. p + k \in S
    BY <2>2
  <2>4. ASSUME NEW y \in S PROVE p + k <= y
    <3>1. y - p \in Nat /\ p + (y - p) = y
      BY <1>1
    <3>2. y - p \in T
      BY <3>1
    <3> QED
      BY <2>2, <3>1, <3>2
  <2> QED
    BY <2>3, <2>4
<1>4. SkipWhile(format, p, set) = CHOOSE x \in S : \A y \in S : x <= y
  BY DEF SkipWhile, Min
<1>5. SkipWhile(format, p, set) \in S /\ \A y \in S : SkipWhile(format, p, set) <= y
  BY <1>3, <1>4, Zenon
<1> QED
  BY <1>1, <1>5

LEMMA SkipsExactly ==
    ASSUME NEW format \in Seq(Char), NEW p \in 1 .. Len(format) + 1, NEW set, NUL \notin set,
           NEW q \in p .. Len(format) + 1, At(format, q) \notin set,
           \A r \in p .. q - 1 : At(format, r) \in set
    PROVE  SkipWhile(format, p, set) = q
<1> DEFINE w == SkipWhile(format, p, set)
<1>1. /\ w \in p .. Len(format) + 1 /\ At(format, w) \notin set
      /\ \A r \in p .. w - 1 : At(format, r) \in set
  BY SkipsTo
<1>2. Len(format) \in Nat
  OBVIOUS
<1> HIDE DEF w
<1>3. ~(w < q)
  <2>1. w < q => w \in p .. q - 1
    BY <1>1, <1>2
  <2> QED
    BY <1>1, <2>1
<1>4. ~(q < w)
  <2>1. q < w => q \in p .. w - 1
    BY <1>1, <1>2
  <2> QED
    BY <1>1, <2>1
<1> QED
  BY <1>1, <1>2, <1>3, <1>4 DEF w

\* A character that a scanner sees is one of the format.
LEMMA AtIs ==
    ASSUME NEW format \in Seq(Char), NEW q \in Nat \ {0}
    PROVE  /\ At(format, q) = NUL <=> q > Len(format)
           /\ q <= Len(format) => At(format, q) = format[q]
<1>1. q <= Len(format) => q \in DOMAIN format /\ format[q] \in Char
  OBVIOUS
<1>2. q > Len(format) => q \notin DOMAIN format
  OBVIOUS
<1>3. Len(format) \in Nat
  OBVIOUS
<1>4. NUL \notin Char
  BY DEF NUL, Char
<1>5. CASE q > Len(format)
  BY <1>2, <1>3, <1>5 DEF At
<1>6. CASE q <= Len(format)
  <2>1. At(format, q) = format[q] /\ At(format, q) \in Char
    BY <1>1, <1>6 DEF At
  <2>2. ~(q > Len(format))
    BY <1>3, <1>6
  <2> QED
    BY <1>4, <2>1, <2>2
<1> QED
  BY <1>3, <1>5, <1>6

LEMMA SkipsLength ==
    ASSUME NEW format \in Seq(Char), NEW p \in 1 .. Len(format) + 1
    PROVE  SkipLength(format, p) \in p .. Len(format) + 1
<1>1. Len(format) \in Nat /\ p \in Nat \ {0} /\ p + 1 \in Nat \ {0}
  OBVIOUS
<1>2. CASE p > Len(format)
  <2>1. At(format, p) = NUL
    BY <1>1, <1>2, AtIs
  <2> QED
    BY <1>1, <2>1 DEF SkipLength, NUL
<1>3. CASE p <= Len(format) /\ p + 1 > Len(format)
  <2>1. At(format, p) # NUL /\ At(format, p + 1) = NUL
    BY <1>1, <1>3, AtIs
  <2> QED
    BY <1>1, <1>3, <2>1 DEF SkipLength
<1>4. CASE p + 1 <= Len(format)
  BY <1>1, <1>4 DEF SkipLength
<1> QED
  BY <1>1, <1>2, <1>3, <1>4

\* Wherever it stands, the scanner of a conversion stops inside the format or at its end.
LEMMA ScannedType ==
    ASSUME NEW format \in Seq(Char), NEW p \in 1 .. Len(format) + 1
    PROVE  /\ Scanned(format, p).at \in p .. Len(format) + 1
           /\ Scanned(format, p).stars \in 0 .. 2
           /\ Scanned(format, p).pstar \in BOOLEAN
<1> DEFINE n == Len(format)
           flags == SkipWhile(format, p, Flag)
           wstar == At(format, flags) = "*"
           width == IF wstar THEN flags + 1 ELSE SkipWhile(format, flags, Digit)
           dot   == At(format, width) = "."
           pstar == dot /\ At(format, width + 1) = "*"
           prec  == CASE pstar -> width + 2
                      [] dot /\ ~pstar -> SkipWhile(format, width + 1, Digit)
                      [] ~dot -> width
<1>1. n \in Nat /\ NUL \notin Flag /\ NUL \notin Digit /\ NUL # "*" /\ NUL # "."
  BY DEF NUL, Flag, Digit
<1>2. flags \in p .. n + 1
  BY <1>1, SkipsTo
<1>3. width \in p .. n + 1
  <2> HIDE DEF flags
  <2>1. flags \in 1 .. n + 1
    BY <1>1, <1>2
  <2>2. CASE wstar
    <3>1. flags <= n
      BY <1>1, <2>1, <2>2, AtIs
    <3> QED
      BY <1>1, <1>2, <2>2, <3>1
  <2>3. CASE ~wstar
    <3>1. SkipWhile(format, flags, Digit) \in flags .. n + 1
      BY <1>1, <2>1, SkipsTo
    <3> QED
      BY <1>1, <1>2, <2>3, <3>1
  <2> QED
    BY <2>2, <2>3
<1>4. prec \in p .. n + 1
  <2> HIDE DEF width
  <2>1. width \in 1 .. n + 1 /\ width + 1 \in Nat \ {0}
    BY <1>1, <1>3
  <2>2. CASE dot
    <3>1. width <= n
      BY <1>1, <2>1, <2>2, AtIs
    <3>2. CASE pstar
      <4>1. width + 1 <= n
        BY <1>1, <2>1, <3>2, AtIs
      <4> QED
        BY <1>1, <1>3, <2>1, <3>2, <4>1
    <3>3. CASE ~pstar
      <4>1. width + 1 \in 1 .. n + 1
        BY <1>1, <2>1, <3>1
      <4>2. SkipWhile(format, width + 1, Digit) \in width + 1 .. n + 1
        BY <1>1, <4>1, SkipsTo
      <4>3. prec = SkipWhile(format, width + 1, Digit)
        BY <2>2, <3>3
      <4> QED
        BY <1>1, <1>3, <2>1, <4>2, <4>3
    <3> QED
      BY <3>2, <3>3
  <2>3. CASE ~dot
    BY <1>3, <2>3
  <2> QED
    BY <2>2, <2>3
<1>5. Scanned(format, p) = [at |-> SkipLength(format, prec),
                            stars |-> (IF wstar THEN 1 ELSE 0) + (IF pstar THEN 1 ELSE 0),
                            pstar |-> pstar]
  BY DEF Scanned
<1> HIDE DEF prec
<1>6. SkipLength(format, prec) \in p .. n + 1
  <2>1. prec \in 1 .. n + 1
    BY <1>1, <1>4
  <2>2. SkipLength(format, prec) \in prec .. n + 1
    BY <2>1, SkipsLength
  <2> QED
    BY <1>1, <1>4, <2>2
<1> HIDE DEF wstar, pstar
<1>7. (IF wstar THEN 1 ELSE 0) + (IF pstar THEN 1 ELSE 0) \in 0 .. 2
  OBVIOUS
<1>8. pstar \in BOOLEAN
  BY DEF pstar
<1> QED
  BY <1>5, <1>6, <1>7, <1>8

\* The parts of a conversion are texts.
LEMMA ConvertParts ==
    ASSUME NEW piece \in Convert
    PROVE  /\ piece.flags \in Seq(Char) /\ piece.width \in Seq(Char) /\ piece.prec \in Seq(Char)
           /\ piece.length \in Seq(Char) /\ <<piece.conv>> \in Seq(Char) /\ <<"%">> \in Seq(Char)
           /\ Written(piece) = <<"%">> \o piece.flags \o piece.width \o piece.prec
                                      \o piece.length \o <<piece.conv>>
<1>1. \A c \in {"-", "0", "5", "*", ".", "l", "h", "s", "d", "%"} : c \in Char
  BY DEF Char, NUL
<1>2. <<>> \in Seq(Char)
  OBVIOUS
<1>3. \A c \in Char : <<c>> \in Seq(Char)
  OBVIOUS
<1>4. \A c \in Char, d \in Char : <<c, d>> \in Seq(Char)
  OBVIOUS
<1>5. /\ piece.flags \in {<<>>, <<"-">>, <<"0">>} /\ piece.width \in {<<>>, <<"5">>, <<"*">>}
      /\ piece.prec \in {<<>>, <<".">>, <<".", "5">>, <<".", "*">>}
      /\ piece.length \in {<<>>, <<"l">>, <<"h", "h">>} /\ piece.conv \in {"s", "d"}
      /\ "conv" \in DOMAIN piece
  BY DEF Convert
<1> QED
  BY <1>1, <1>2, <1>3, <1>4, <1>5 DEF Written, IsConvert

\* A text of one or two characters stands where these do.
LEMMA StandsOne ==
    ASSUME NEW format \in Seq(Char), NEW p \in Nat \ {0}, NEW c, StandsAt(format, p, <<c>>)
    PROVE  p <= Len(format) /\ At(format, p) = c
<1>0. Len(format) \in Nat
  OBVIOUS
<1>1. p + 1 <= Len(format) + 1 /\ format[p + 1 - 1] = c
  BY DEF StandsAt
<1>2. p + 1 - 1 = p /\ p <= Len(format)
  BY <1>0, <1>1
<1> QED
  BY <1>1, <1>2, AtIs

LEMMA StandsTwo ==
    ASSUME NEW format \in Seq(Char), NEW p \in Nat \ {0}, NEW c, NEW d, StandsAt(format, p, <<c, d>>)
    PROVE  p + 1 <= Len(format) /\ At(format, p) = c /\ At(format, p + 1) = d
<1>0. Len(format) \in Nat
  OBVIOUS
<1>1. Len(<<c, d>>) = 2 /\ 1 \in 1 .. 2 /\ 2 \in 1 .. 2
  OBVIOUS
<1>2. p + 2 <= Len(format) + 1 /\ format[p + 1 - 1] = c /\ format[p + 2 - 1] = d
  BY <1>1 DEF StandsAt
<1>3. p + 1 - 1 = p /\ p + 2 - 1 = p + 1 /\ p + 1 <= Len(format) /\ p <= Len(format)
      /\ p + 1 \in Nat \ {0}
  BY <1>0, <1>2
<1> QED
  BY <1>2, <1>3, AtIs

LEMMA PairCard == Cardinality({"width", "prec"}) = 2
<1>1. IsFiniteSet({"width"}) /\ Cardinality({"width"}) = 1
  BY FS_Singleton
<1>2. "prec" \notin {"width"} /\ {"width"} \cup {"prec"} = {"width", "prec"}
  OBVIOUS
<1>3. Cardinality({"width"} \cup {"prec"}) = Cardinality({"width"}) + 1
  BY <1>1, <1>2, FS_AddElement, Zenon
<1> QED
  BY <1>1, <1>2, <1>3

\* A conversion takes its value, and an argument for each *.
LEMMA ConsumesOf ==
    ASSUME NEW piece \in Convert
    PROVE  Consumes(piece) = 1 + (IF piece.width = <<"*">> THEN 1 ELSE 0)
                               + (IF piece.prec = <<".", "*">> THEN 1 ELSE 0)
<1> DEFINE S == {part \in {"width", "prec"} : piece[part] \in {<<"*">>, <<".", "*">>}}
<1>1. Consumes(piece) = 1 + Cardinality(S)
  BY DEF Consumes, IsConvert, Convert
<1>2. piece["width"] = piece.width /\ piece["prec"] = piece.prec
  OBVIOUS
<1>3. /\ piece.width \in {<<>>, <<"5">>, <<"*">>}
      /\ piece.prec \in {<<>>, <<".">>, <<".", "5">>, <<".", "*">>}
  BY DEF Convert
<1>4. <<"*">> # <<".", "*">> /\ <<>> # <<"*">> /\ <<"5">> # <<"*">> /\ <<".">> # <<"*">>
      /\ <<".", "5">> # <<"*">> /\ <<".", "5">> # <<".", "*">> /\ <<".">> # <<".", "*">>
      /\ <<>> # <<".", "*">> /\ <<"5">> # <<".", "*">>
  OBVIOUS
<1>5. ("width" \in S <=> piece.width = <<"*">>) /\ ("prec" \in S <=> piece.prec = <<".", "*">>)
  BY <1>2, <1>3, <1>4
<1>6. S \subseteq {"width", "prec"}
  OBVIOUS
<1> HIDE DEF S
<1>7. CASE piece.width = <<"*">> /\ piece.prec = <<".", "*">>
  <2>1. S = {"width", "prec"}
    BY <1>5, <1>6, <1>7
  <2>2. Cardinality(S) = 2
    BY <2>1, PairCard
  <2> QED
    BY <1>1, <1>7, <2>2
<1>8. CASE piece.width = <<"*">> /\ piece.prec # <<".", "*">>
  <2>1. S = {"width"}
    BY <1>5, <1>6, <1>8
  <2>2. Cardinality(S) = 1
    BY <2>1, FS_Singleton
  <2> QED
    BY <1>1, <1>8, <2>2
<1>9. CASE piece.width # <<"*">> /\ piece.prec = <<".", "*">>
  <2>1. S = {"prec"}
    BY <1>5, <1>6, <1>9
  <2>2. Cardinality(S) = 1
    BY <2>1, FS_Singleton
  <2> QED
    BY <1>1, <1>9, <2>2
<1>10. CASE piece.width # <<"*">> /\ piece.prec # <<".", "*">>
  <2>1. S = {}
    BY <1>5, <1>6, <1>10
  <2>2. Cardinality(S) = 0
    BY <2>1, FS_EmptySet
  <2> QED
    BY <1>1, <1>10, <2>2
<1> QED
  BY <1>7, <1>8, <1>9, <1>10

\* The scanner finds the parts of a conversion, whatever stands behind it.
LEMMA ScansConversion ==
    ASSUME NEW format \in Seq(Char), NEW p \in Nat \ {0}, NEW piece \in Convert,
           StandsAt(format, p, Written(piece))
    PROVE  LET c == Scanned(format, p + 1)
           IN  /\ p + 1 <= Len(format) /\ At(format, p) = "%" /\ At(format, p + 1) # "%"
               /\ c.at = p + Len(Written(piece)) - 1 /\ c.at > p /\ c.at <= Len(format)
               /\ At(format, c.at) = piece.conv
               /\ c.stars = Consumes(piece) - 1
               /\ c.pstar = (piece.prec = <<".", "*">>)
<1>0. Len(format) \in Nat
  OBVIOUS
<1>1. /\ piece.flags \in {<<>>, <<"-">>, <<"0">>} /\ piece.width \in {<<>>, <<"5">>, <<"*">>}
      /\ piece.prec \in {<<>>, <<".">>, <<".", "5">>, <<".", "*">>}
      /\ piece.length \in {<<>>, <<"l">>, <<"h", "h">>} /\ piece.conv \in {"s", "d"}
      /\ "conv" \in DOMAIN piece
  BY DEF Convert
<1> DEFINE w1 == <<"%">>
           w2 == w1 \o piece.flags
           w3 == w2 \o piece.width
           w4 == w3 \o piece.prec
           w5 == w4 \o piece.length
           f0 == p + 1
           f1 == f0 + Len(piece.flags)
           f2 == f1 + Len(piece.width)
           f3 == f2 + Len(piece.prec)
           f4 == f3 + Len(piece.length)
<1>2. /\ piece.flags \in Seq(Char) /\ piece.width \in Seq(Char) /\ piece.prec \in Seq(Char)
      /\ piece.length \in Seq(Char) /\ <<piece.conv>> \in Seq(Char) /\ w1 \in Seq(Char)
      /\ Written(piece) = w5 \o <<piece.conv>>
  BY ConvertParts
<1>3. w2 \in Seq(Char) /\ w3 \in Seq(Char) /\ w4 \in Seq(Char) /\ w5 \in Seq(Char) /\ Len(w1) = 1
  BY <1>2
<1>4. /\ StandsAt(format, p, w5) /\ StandsAt(format, p + Len(w5), <<piece.conv>>)
      /\ Len(Written(piece)) = Len(w5) + 1
  <2>1. Len(<<piece.conv>>) = 1
    OBVIOUS
  <2> DEFINE last == <<piece.conv>>
  <2>2. last \in Seq(Char) /\ w5 \in Seq(Char) /\ StandsAt(format, p, w5 \o last)
    BY <1>2, <1>3
  <2> HIDE DEF w5, last
  <2>3. /\ StandsAt(format, p, w5) /\ StandsAt(format, p + Len(w5), last)
        /\ Len(w5 \o last) = Len(w5) + Len(last)
    BY <1>0, <2>2, StandsParts
  <2> QED
    BY <1>2, <2>1, <2>3 DEF last
<1>5. StandsAt(format, p, w4) /\ StandsAt(format, p + Len(w4), piece.length)
      /\ Len(w5) = Len(w4) + Len(piece.length)
  <2> HIDE DEF w4
  <2> QED
    BY <1>0, <1>2, <1>3, <1>4, StandsParts, SMTT(40)
<1>6. StandsAt(format, p, w3) /\ StandsAt(format, p + Len(w3), piece.prec)
      /\ Len(w4) = Len(w3) + Len(piece.prec)
  <2> HIDE DEF w3
  <2> QED
    BY <1>0, <1>2, <1>3, <1>5, StandsParts
<1>7. StandsAt(format, p, w2) /\ StandsAt(format, p + Len(w2), piece.width)
      /\ Len(w3) = Len(w2) + Len(piece.width)
  <2> HIDE DEF w2
  <2> QED
    BY <1>0, <1>2, <1>3, <1>6, StandsParts
<1>8. StandsAt(format, p, w1) /\ StandsAt(format, p + Len(w1), piece.flags)
      /\ Len(w2) = Len(w1) + Len(piece.flags)
  <2>1. w1 \in Seq(Char) /\ piece.flags \in Seq(Char) /\ StandsAt(format, p, w1 \o piece.flags)
    BY <1>2, <1>7
  <2> HIDE DEF w1
  <2> QED
    BY <1>0, <2>1, StandsParts
<1>9. /\ Len(piece.flags) \in Nat /\ Len(piece.width) \in Nat /\ Len(piece.prec) \in Nat
      /\ Len(piece.length) \in Nat
  BY <1>2
<1>10. /\ p + Len(w1) = f0 /\ p + Len(w2) = f1 /\ p + Len(w3) = f2 /\ p + Len(w4) = f3
       /\ p + Len(w5) = f4
       /\ f0 \in Nat \ {0} /\ f1 \in Nat \ {0} /\ f2 \in Nat \ {0} /\ f3 \in Nat \ {0}
       /\ f4 \in Nat \ {0} /\ f4 > p /\ f4 = p + Len(Written(piece)) - 1
  <2> DEFINE l1 == Len(piece.flags)
             l2 == Len(piece.width)
             l3 == Len(piece.prec)
             l4 == Len(piece.length)
  <2>1. l1 \in Nat /\ l2 \in Nat /\ l3 \in Nat /\ l4 \in Nat
    BY <1>9
  <2>2. /\ Len(w1) = 1 /\ Len(w2) = Len(w1) + l1 /\ Len(w3) = Len(w2) + l2
        /\ Len(w4) = Len(w3) + l3 /\ Len(w5) = Len(w4) + l4 /\ Len(Written(piece)) = Len(w5) + 1
    BY <1>3, <1>4, <1>5, <1>6, <1>7, <1>8
  <2> HIDE DEF w1, w2, w3, w4, w5, l1, l2, l3, l4
  <2>3. /\ Len(w1) = 1 /\ Len(w2) = 1 + l1 /\ Len(w3) = 1 + l1 + l2 /\ Len(w4) = 1 + l1 + l2 + l3
        /\ Len(w5) = 1 + l1 + l2 + l3 + l4 /\ Len(Written(piece)) = 1 + l1 + l2 + l3 + l4 + 1
    BY <2>1, <2>2
  <2>4. f1 = p + 1 + l1 /\ f2 = p + 1 + l1 + l2 /\ f3 = p + 1 + l1 + l2 + l3
        /\ f4 = p + 1 + l1 + l2 + l3 + l4
    BY DEF l1, l2, l3, l4
  <2> HIDE DEF f1, f2, f3, f4
  <2> QED
    BY <2>1, <2>3, <2>4
<1>11. /\ StandsAt(format, p, w1) /\ StandsAt(format, f0, piece.flags)
       /\ StandsAt(format, f1, piece.width) /\ StandsAt(format, f2, piece.prec)
       /\ StandsAt(format, f3, piece.length) /\ StandsAt(format, f4, <<piece.conv>>)
  BY <1>4, <1>5, <1>6, <1>7, <1>8, <1>10
<1> HIDE DEF w2, w3, w4, w5
<1>c. \A c \in {"-", "0", "5", "*", ".", "l", "h", "s", "d", "%"} : c \in Char
  BY DEF Char, NUL
<1>12. f4 <= Len(format) /\ At(format, f4) = piece.conv
  <2>1. f4 \in Nat \ {0} /\ piece.conv \in Char /\ StandsAt(format, f4, <<piece.conv>>)
    BY <1>1, <1>10, <1>11, <1>c
  <2> HIDE DEF f4
  <2> QED
    BY <2>1, StandsOne
<1>13. p <= Len(format) /\ At(format, p) = "%"
  BY <1>11, StandsOne
<1>l. Len(<<>>) = 0 /\ (\A c : Len(<<c>>) = 1) /\ (\A c, d : Len(<<c, d>>) = 2)
  OBVIOUS
<1>14. SkipLength(format, f3) = f4 /\ At(format, f3) \in {"l", "h", "s", "d"} /\ f3 <= Len(format)
  <2> DEFINE x == f3
  <2>1. x \in Nat /\ x \in Nat \ {0} /\ f4 = x + Len(piece.length) /\ StandsAt(format, x, piece.length)
    BY <1>10, <1>11
  <2> HIDE DEF x, f4
  <2>2. CASE piece.length = <<>>
    <3>1. f4 = x
      BY <1>l, <2>1, <2>2
    <3> QED
      BY <1>1, <1>12, <3>1 DEF SkipLength, x
  <2>3. CASE piece.length = <<"l">>
    <3>1. f4 = x + 1 /\ At(format, x) = "l" /\ x <= Len(format)
      BY <1>l, <2>1, <2>3, StandsOne
    <3> QED
      BY <1>1, <1>12, <3>1 DEF SkipLength, x
  <2>4. CASE piece.length = <<"h", "h">>
    <3>1. f4 = x + 2 /\ At(format, x) = "h" /\ At(format, x + 1) = "h" /\ x + 1 <= Len(format)
      BY <1>l, <2>1, <2>4, StandsTwo
    <3> QED
      BY <1>0, <2>1, <3>1 DEF SkipLength, x
  <2> QED
    BY <1>1, <2>2, <2>3, <2>4
<1>d. /\ <<>> # <<".">> /\ <<>> # <<".", "5">> /\ <<>> # <<".", "*">> /\ <<".">> # <<".", "5">>
      /\ <<".">> # <<".", "*">> /\ <<".", "5">> # <<".", "*">> /\ <<"5">> # <<"*">> /\ <<>> # <<"*">>
  OBVIOUS
<1>15. /\ At(format, f2) \in {".", "l", "h", "s", "d"} /\ f2 <= Len(format)
       /\ piece.prec = <<>> => At(format, f2) # "." /\ f3 = f2
       /\ piece.prec = <<".", "*">> => At(format, f2) = "." /\ At(format, f2 + 1) = "*" /\ f3 = f2 + 2
       /\ piece.prec \in {<<".">>, <<".", "5">>} =>
             /\ At(format, f2) = "." /\ At(format, f2 + 1) # "*"
             /\ SkipWhile(format, f2 + 1, Digit) = f3
  <2> DEFINE x == f2
  <2>1. x \in Nat /\ x \in Nat \ {0} /\ f3 = x + Len(piece.prec) /\ StandsAt(format, x, piece.prec)
    BY <1>10, <1>11
  <2>n. NUL \notin Digit /\ At(format, f3) \notin Digit /\ At(format, f3) # "*" /\ At(format, f3) # "."
    BY <1>14 DEF Digit, NUL
  <2> HIDE DEF x, f3
  <2>2. CASE piece.prec = <<>>
    <3>1. f3 = x
      BY <1>l, <2>1, <2>2
    <3> QED
      BY <1>14, <1>d, <2>2, <2>n, <3>1 DEF x
  <2>3. CASE piece.prec = <<".">>
    <3>1. f3 = x + 1 /\ At(format, x) = "." /\ x <= Len(format)
      BY <1>l, <2>1, <2>3, StandsOne
    <3>2. f3 \in 1 .. Len(format) + 1 /\ f3 \in f3 .. Len(format) + 1 /\ f3 .. f3 - 1 = {}
      BY <1>0, <2>1, <3>1
    <3>3. SkipWhile(format, f3, Digit) = f3
      BY <2>n, <3>2, SkipsExactly
    <3> QED
      BY <1>d, <2>3, <2>n, <3>1, <3>3 DEF x
  <2>4. CASE piece.prec = <<".", "5">>
    <3>1. f3 = x + 2 /\ At(format, x) = "." /\ At(format, x + 1) = "5" /\ x + 1 <= Len(format)
      BY <1>l, <2>1, <2>4, StandsTwo
    <3>2. x + 1 \in 1 .. Len(format) + 1 /\ f3 \in x + 1 .. Len(format) + 1 /\ x + 1 .. f3 - 1 = {x + 1}
      BY <1>0, <2>1, <3>1
    <3>3. \A r \in x + 1 .. f3 - 1 : At(format, r) \in Digit
      BY <3>1, <3>2 DEF Digit
    <3>4. SkipWhile(format, x + 1, Digit) = f3
      BY <2>n, <3>2, <3>3, SkipsExactly
    <3>5. x <= Len(format)
      BY <1>0, <2>1, <3>1
    <3> QED
      BY <1>d, <2>4, <3>1, <3>4, <3>5 DEF x
  <2>5. CASE piece.prec = <<".", "*">>
    <3>1. f3 = x + 2 /\ At(format, x) = "." /\ At(format, x + 1) = "*" /\ x + 1 <= Len(format)
      BY <1>l, <2>1, <2>5, StandsTwo
    <3>2. x <= Len(format)
      BY <1>0, <2>1, <3>1
    <3> QED
      BY <1>d, <2>5, <3>1, <3>2 DEF x
  <2> QED
    BY <1>1, <2>2, <2>3, <2>4, <2>5
<1>16. /\ At(format, f1) \in {"5", "*", ".", "l", "h", "s", "d"} /\ f1 <= Len(format)
       /\ piece.width = <<"*">> => At(format, f1) = "*" /\ f2 = f1 + 1
       /\ piece.width # <<"*">> => At(format, f1) # "*" /\ SkipWhile(format, f1, Digit) = f2
  <2> DEFINE x == f1
  <2>1. x \in Nat /\ x \in Nat \ {0} /\ f2 = x + Len(piece.width) /\ StandsAt(format, x, piece.width)
    BY <1>10, <1>11
  <2>n. NUL \notin Digit /\ At(format, f2) \notin Digit /\ At(format, f2) # "*"
        /\ At(format, f2) \in {".", "l", "h", "s", "d"} /\ f2 <= Len(format)
    BY <1>15 DEF Digit, NUL
  <2> HIDE DEF x, f2
  <2>2. CASE piece.width = <<>>
    <3>1. f2 = x
      BY <1>l, <2>1, <2>2
    <3>2. f2 \in 1 .. Len(format) + 1 /\ f2 \in f2 .. Len(format) + 1 /\ f2 .. f2 - 1 = {}
      BY <1>0, <2>1, <2>n, <3>1
    <3>3. SkipWhile(format, f2, Digit) = f2
      BY <2>n, <3>2, SkipsExactly
    <3> QED
      BY <2>2, <2>n, <3>1, <3>3 DEF x
  <2>3. CASE piece.width = <<"5">>
    <3>1. f2 = x + 1 /\ At(format, x) = "5" /\ x <= Len(format)
      BY <1>l, <2>1, <2>3, StandsOne
    <3>2. x \in 1 .. Len(format) + 1 /\ f2 \in x .. Len(format) + 1 /\ x .. f2 - 1 = {x}
      BY <1>0, <2>1, <3>1
    <3>3. \A r \in x .. f2 - 1 : At(format, r) \in Digit
      BY <3>1, <3>2 DEF Digit
    <3>4. SkipWhile(format, x, Digit) = f2
      BY <2>n, <3>2, <3>3, SkipsExactly
    <3> QED
      BY <2>3, <3>1, <3>4 DEF x
  <2>4. CASE piece.width = <<"*">>
    <3>1. f2 = x + 1 /\ At(format, x) = "*" /\ x <= Len(format)
      BY <1>l, <2>1, <2>4, StandsOne
    <3> QED
      BY <2>4, <3>1 DEF x
  <2> QED
    BY <1>1, <2>2, <2>3, <2>4
<1>17. SkipWhile(format, f0, Flag) = f1 /\ At(format, f0) # "%" /\ f0 <= Len(format)
  <2> DEFINE x == f0
  <2>1. x \in Nat /\ x \in Nat \ {0} /\ f1 = x + Len(piece.flags) /\ StandsAt(format, x, piece.flags)
    BY <1>10, <1>11
  <2>n. NUL \notin Flag /\ At(format, f1) \notin Flag /\ At(format, f1) # "%" /\ f1 <= Len(format)
    BY <1>16 DEF Flag, NUL
  <2> HIDE DEF x, f1
  <2>2. CASE piece.flags = <<>>
    <3>1. f1 = x
      BY <1>l, <2>1, <2>2
    <3>2. f1 \in 1 .. Len(format) + 1 /\ f1 \in f1 .. Len(format) + 1 /\ f1 .. f1 - 1 = {}
      BY <1>0, <2>1, <2>n, <3>1
    <3>3. SkipWhile(format, f1, Flag) = f1
      BY <2>n, <3>2, SkipsExactly
    <3> QED
      BY <2>2, <2>n, <3>1, <3>3 DEF x
  <2>3. CASE piece.flags \in {<<"-">>, <<"0">>}
    <3>0. PICK c \in {"-", "0"} : piece.flags = <<c>>
      BY <2>3
    <3>1. f1 = x + 1 /\ At(format, x) = c /\ x <= Len(format)
      BY <1>l, <2>1, <3>0, StandsOne
    <3>2. x \in 1 .. Len(format) + 1 /\ f1 \in x .. Len(format) + 1 /\ x .. f1 - 1 = {x}
      BY <1>0, <2>1, <3>1
    <3>3. \A r \in x .. f1 - 1 : At(format, r) \in Flag
      BY <3>1, <3>2 DEF Flag
    <3>4. SkipWhile(format, x, Flag) = f1
      BY <2>n, <3>2, <3>3, SkipsExactly
    <3> QED
      BY <3>1, <3>4 DEF x
  <2> QED
    BY <1>1, <2>2, <2>3
<1>18. Scanned(format, f0) =
         [at |-> f4,
          stars |-> (IF piece.width = <<"*">> THEN 1 ELSE 0)
                    + (IF piece.prec = <<".", "*">> THEN 1 ELSE 0),
          pstar |-> piece.prec = <<".", "*">>]
  <2> HIDE DEF f0, f1, f2, f3, f4
  <2> QED
    BY <1>1, <1>14, <1>15, <1>16, <1>17 DEF Scanned
<1>19. Consumes(piece) = 1 + (IF piece.width = <<"*">> THEN 1 ELSE 0)
                           + (IF piece.prec = <<".", "*">> THEN 1 ELSE 0)
  BY ConsumesOf
<1>20. /\ Scanned(format, f0).at = f4 /\ Scanned(format, f0).stars = Consumes(piece) - 1
       /\ Scanned(format, f0).pstar = (piece.prec = <<".", "*">>)
  <2>1. (IF piece.width = <<"*">> THEN 1 ELSE 0) + (IF piece.prec = <<".", "*">> THEN 1 ELSE 0)
        = Consumes(piece) - 1
    BY <1>19
  <2> HIDE DEF f0, f4
  <2> QED
    BY <1>18, <2>1
<1> HIDE DEF f4
<1> QED
  BY <1>10, <1>12, <1>13, <1>17, <1>20

\* A loop that moves on by one position each time comes from the first to the last.
LEMMA ReachesAlong ==
    ASSUME NEW n \in Nat, NEW t, NEW round, NEW start, Trace(t, round, start, n),
           NEW p \in Nat \ {0}, NEW q \in p .. n + 1, NEW st,
           \A r \in p .. q : st[r].at = r,
           \A r \in p .. q - 1 : round[st[r]] = st[r + 1],
           Reaches(t, st[p], n)
    PROVE  Reaches(t, st[q], n)
<1> DEFINE T == {i \in Nat : p + i <= q => Reaches(t, st[p + i], n)}
<1>1. 0 \in T
  OBVIOUS
<1>2. ASSUME NEW i \in Nat, i \in T PROVE i + 1 \in T
  <2>1. SUFFICES ASSUME p + (i + 1) <= q PROVE Reaches(t, st[p + (i + 1)], n)
    OBVIOUS
  <2>2. p + i \in p .. q /\ p + i \in p .. q - 1 /\ (p + i) + 1 \in p .. q /\ p + i <= n
        /\ p + (i + 1) = (p + i) + 1
    BY <2>1
  <2>3. Reaches(t, st[p + i], n)
    BY <1>2, <2>2
  <2>4. st[p + i].at = p + i /\ st[(p + i) + 1].at = (p + i) + 1 /\ round[st[p + i]] = st[(p + i) + 1]
    BY <2>2
  <2> DEFINE s == st[p + i]
             u == st[(p + i) + 1]
  <2>5. s.at \in Nat /\ s.at <= n /\ round[s] = u /\ u.at \in Nat /\ u.at > s.at /\ Reaches(t, s, n)
    BY <2>2, <2>3, <2>4
  <2> HIDE DEF s, u
  <2>6. Reaches(t, u, n)
    BY <2>5, ReachesNext
  <2> QED
    BY <2>2, <2>6 DEF u
<1>3. q - p \in T
  <2>1. q - p \in Nat
    OBVIOUS
  <2> HIDE DEF T
  <2> QED
    BY <1>1, <1>2, <2>1, SetInduction
<1> QED
  BY <1>3

-----------------------------------------------------------------------------
MarkAt(at, arg, mask) == [at |-> at, arg |-> arg, mask |-> mask]

MarkLoop(format, count) == [s \in MarkState |-> MarkRound(format, count, s)]

\* What a round does to a state.
Marked(format, count, p, arg, mask, c) ==
    IF p > Len(format) THEN MarkAt(p, arg, mask)
    ELSE IF format[p] # "%" THEN MarkAt(p + 1, arg, mask)
    ELSE IF At(format, p + 1) = "%" THEN MarkAt(p + 2, arg, mask)
    ELSE IF At(format, c.at) = NUL THEN MarkAt(c.at, arg, mask)
    ELSE MarkAt(c.at + 1, arg + c.stars + 1,
                IF /\ At(format, c.at) = "s" /\ c.pstar
                   /\ arg + c.stars < count /\ arg + c.stars < MaskBits
                THEN mask \cup {arg + c.stars} ELSE mask)

LEMMA MarkRoundIs ==
    ASSUME NEW format, NEW count, NEW p \in Nat, NEW arg \in Nat, NEW mask \in SUBSET Nat
    PROVE  MarkLoop(format, count)[MarkAt(p, arg, mask)] =
             Marked(format, count, p, arg, mask, Scanned(format, p + 1))
<1> DEFINE s == MarkAt(p, arg, mask)
<1>1. s \in MarkState /\ s.at = p /\ s.arg = arg /\ s.mask = mask
  BY DEF MarkState, MarkAt
<1>2. \A q : [s EXCEPT !.at = q] = MarkAt(q, arg, mask)
  BY DEF MarkAt
<1>4. MarkLoop(format, count)[s] = MarkRound(format, count, s)
  BY <1>1 DEF MarkLoop
<1> HIDE DEF s
<1> DEFINE c == Scanned(format, p + 1)
           value == arg + c.stars
<1>5. MarkRound(format, count, s) =
        IF p > Len(format) THEN s
        ELSE IF format[p] # "%" THEN [s EXCEPT !.at = p + 1]
        ELSE IF At(format, p + 1) = "%" THEN [s EXCEPT !.at = p + 2]
        ELSE IF At(format, c.at) = NUL THEN [s EXCEPT !.at = c.at]
        ELSE [at |-> c.at + 1, arg |-> value + 1,
              mask |-> IF /\ At(format, c.at) = "s" /\ c.pstar
                          /\ value < count /\ value < MaskBits
                       THEN mask \cup {value} ELSE mask]
  BY <1>1 DEF MarkRound
<1> HIDE DEF c
<1> QED
  BY <1>2, <1>4, <1>5 DEF s, c, MarkAt, Marked

LEMMA MarkLoopType ==
    ASSUME NEW format \in Seq(Char), NEW count
    PROVE  MarkLoop(format, count) \in [MarkState -> MarkState]
<1>1. ASSUME NEW s \in MarkState PROVE MarkLoop(format, count)[s] \in MarkState
  <2> DEFINE p == s.at
             arg == s.arg
             mask == s.mask
             c == Scanned(format, p + 1)
  <2>1. p \in Nat /\ arg \in Nat /\ mask \in SUBSET Nat /\ s = MarkAt(p, arg, mask)
    BY DEF MarkState, MarkAt
  <2>2. \A q \in Nat, a \in Nat, m \in SUBSET Nat : MarkAt(q, a, m) \in MarkState
    BY DEF MarkAt, MarkState
  <2>3. p <= Len(format) => c.at \in Nat /\ c.at + 1 \in Nat /\ c.stars \in Nat
    <3>1. SUFFICES ASSUME p <= Len(format) PROVE c.at \in Nat /\ c.stars \in Nat
      OBVIOUS
    <3>2. p + 1 \in 1 .. Len(format) + 1
      BY <2>1, <3>1
    <3>3. c.at \in p + 1 .. Len(format) + 1 /\ c.stars \in 0 .. 2
      BY <3>2, ScannedType
    <3> QED
      BY <2>1, <3>3
  <2> HIDE DEF p, arg, mask
  <2>4. MarkLoop(format, count)[s] = Marked(format, count, p, arg, mask, c)
    BY <2>1, MarkRoundIs
  <2> HIDE DEF c
  <2>5. p <= Len(format) => /\ arg + c.stars \in Nat /\ arg + c.stars + 1 \in Nat
                            /\ mask \cup {arg + c.stars} \in SUBSET Nat
    <3>1. SUFFICES ASSUME p <= Len(format)
                   PROVE  arg + c.stars \in Nat /\ arg + c.stars + 1 \in Nat
      BY <2>1
    <3> QED
      BY <2>1, <2>3, <3>1
  <2>6. p + 1 \in Nat /\ p + 2 \in Nat /\ (p > Len(format) \/ p <= Len(format))
    BY <2>1, Len(format) \in Nat
  <2>7. Marked(format, count, p, arg, mask, c) \in MarkState
    BY <2>1, <2>2, <2>3, <2>5, <2>6, Zenon DEF Marked
  <2> QED
    BY <2>4, <2>7
<1> QED
  BY <1>1 DEF MarkLoop

LEMMA MarkStateFields ==
    ASSUME NEW at \in Nat, NEW arg \in Nat, NEW mask \in SUBSET Nat
    PROVE  MarkAt(at, arg, mask) \in MarkState /\ MarkAt(at, arg, mask).at = at
  BY DEF MarkAt, MarkState

\* Text without a % is skipped.
LEMMA MarkSkips ==
    ASSUME NEW format \in Seq(Char), NEW count, NEW t, NEW start,
           Trace(t, MarkLoop(format, count), start, Len(format)),
           NEW p \in Nat \ {0}, NEW q \in p .. Len(format) + 1, NEW arg \in Nat, NEW mask \in SUBSET Nat,
           \A r \in p .. q - 1 : format[r] # "%",
           Reaches(t, MarkAt(p, arg, mask), Len(format))
    PROVE  Reaches(t, MarkAt(q, arg, mask), Len(format))
<1> DEFINE st == [r \in p .. q |-> MarkAt(r, arg, mask)]
           n == Len(format)
<1>1. n \in Nat
  OBVIOUS
<1>2. \A r \in p .. q : st[r] = MarkAt(r, arg, mask)
  OBVIOUS
<1>3. p \in p .. q /\ q \in p .. q
  BY <1>1
<1>4. ASSUME NEW r \in p .. q PROVE st[r].at = r
  BY <1>1, MarkStateFields
<1> HIDE DEF st
<1>5. ASSUME NEW r \in p .. q - 1 PROVE MarkLoop(format, count)[st[r]] = st[r + 1]
  <2>1. r \in p .. q /\ r + 1 \in p .. q /\ r \in Nat /\ r <= n /\ format[r] # "%"
    BY <1>1
  <2>2. MarkLoop(format, count)[MarkAt(r, arg, mask)] = MarkAt(r + 1, arg, mask)
    <3>1. ~(r > Len(format))
      BY <1>1, <2>1
    <3>2. MarkLoop(format, count)[MarkAt(r, arg, mask)]
            = Marked(format, count, r, arg, mask, Scanned(format, r + 1))
      BY <2>1, MarkRoundIs
    <3> QED
      BY <2>1, <3>1, <3>2, Zenon DEF Marked
  <2> QED
    BY <1>2, <2>1, <2>2
<1>6. Reaches(t, st[p], n)
  BY <1>2, <1>3
<1> HIDE DEF n
<1>7. Reaches(t, st[q], n)
  BY <1>1, <1>4, <1>5, <1>6, ReachesAlong DEF n
<1> QED
  BY <1>2, <1>3, <1>7 DEF n

\* The pieces that are no conversions.
LEMMA PlainPieces ==
    ASSUME NEW piece \in Literal \cup Replacement \cup Percent
    PROVE  /\ ~IsConvert(piece) /\ ~Bounded(piece) /\ Consumes(piece) = 0
           /\ Written(piece) = piece.text
           /\ piece.text \in {<<"s">>, <<".">>, <<"*">>, <<"{", "{">>, <<"}", "}">>, <<"{", "}">>,
                              <<"{", "0", "}">>, <<"%", "%">>}
           /\ piece \in Percent <=> piece.text = <<"%", "%">>
           /\ piece \in Replacement <=> piece.text \in {<<"{", "}">>, <<"{", "0", "}">>}
           /\ Written(piece) \in Seq(Char)
<1>1. piece \in [text : {<<"s">>, <<".">>, <<"*">>, <<"{", "{">>, <<"}", "}">>, <<"{", "}">>,
                         <<"{", "0", "}">>, <<"%", "%">>}]
  BY DEF Literal, Replacement, Percent
<1>2. "conv" \notin DOMAIN piece
  BY <1>1
<1>3. ~IsConvert(piece) /\ ~Bounded(piece) /\ Consumes(piece) = 0 /\ Written(piece) = piece.text
  BY <1>2 DEF IsConvert, Bounded, Consumes, Written
<1>4. piece = [text |-> piece.text]
  BY <1>1
<1>5. piece \in Percent <=> piece.text = <<"%", "%">>
  BY <1>4 DEF Percent
<1>6. piece \in Replacement <=> piece.text \in {<<"{", "}">>, <<"{", "0", "}">>}
  BY <1>4 DEF Replacement
<1>7. \A c \in {"s", ".", "*", "{", "}", "0", "%"} : c \in Char
  BY DEF Char
<1>8. /\ \A c \in Char : <<c>> \in Seq(Char)
      /\ \A c, d \in Char : <<c, d>> \in Seq(Char)
      /\ \A c, d, e \in Char : <<c, d, e>> \in Seq(Char)
  OBVIOUS
<1>9. piece.text \in Seq(Char)
  <2>1. /\ <<"s">> \in Seq(Char) /\ <<".">> \in Seq(Char) /\ <<"*">> \in Seq(Char)
        /\ <<"{", "{">> \in Seq(Char) /\ <<"}", "}">> \in Seq(Char) /\ <<"{", "}">> \in Seq(Char)
        /\ <<"{", "0", "}">> \in Seq(Char) /\ <<"%", "%">> \in Seq(Char)
    BY <1>7, <1>8
  <2>2. piece.text \in {<<"s">>, <<".">>, <<"*">>, <<"{", "{">>, <<"}", "}">>, <<"{", "}">>,
                        <<"{", "0", "}">>, <<"%", "%">>}
    BY <1>1
  <2> QED
    BY <2>1, <2>2, Zenon
<1> QED
  BY <1>1, <1>3, <1>5, <1>6, <1>9

LEMMA WrittenType ==
    ASSUME NEW piece \in Piece PROVE Written(piece) \in Seq(Char)
<1>1. CASE piece \in Convert
  <2> DEFINE a == piece.flags
             b == piece.width
             c == piece.prec
             d == piece.length
             e == <<piece.conv>>
             x == <<"%">>
  <2>1. /\ a \in Seq(Char) /\ b \in Seq(Char) /\ c \in Seq(Char) /\ d \in Seq(Char)
        /\ e \in Seq(Char) /\ x \in Seq(Char) /\ Written(piece) = x \o a \o b \o c \o d \o e
    BY <1>1, ConvertParts
  <2> HIDE DEF a, b, c, d, e, x
  <2> QED
    BY <2>1
<1>2. CASE piece \in Literal \cup Replacement \cup Percent
  BY <1>2, PlainPieces
<1> QED
  BY <1>1, <1>2 DEF Piece

LEMMA ShortTexts ==
    ASSUME NEW c, NEW d, NEW e
    PROVE  /\ Len(<<c>>) = 1 /\ \A i \in 1 .. 1 : <<c>>[i] = c
           /\ Len(<<c, d>>) = 2 /\ \A i \in 1 .. 2 : <<c, d>>[i] \in {c, d}
           /\ Len(<<c, d, e>>) = 3 /\ \A i \in 1 .. 3 : <<c, d, e>>[i] \in {c, d, e}
<1>1. 1 .. 1 = {1} /\ 1 .. 2 = {1, 2} /\ 1 .. 3 = {1, 2, 3}
  OBVIOUS
<1> QED
  BY <1>1

LEMMA NoPercent ==
    ASSUME NEW w, w \in {<<"s">>, <<".">>, <<"*">>, <<"{", "{">>, <<"}", "}">>, <<"{", "}">>, <<"{", "0", "}">>}
    PROVE  Len(w) \in Nat /\ \A i \in 1 .. Len(w) : w[i] # "%"
<1>1. CASE w \in {<<"s">>, <<".">>, <<"*">>}
  <2>1. PICK c \in {"s", ".", "*"} : w = <<c>>
    BY <1>1
  <2>2. Len(w) = 1 /\ \A i \in 1 .. 1 : w[i] = c
    BY <2>1, ShortTexts
  <2> QED
    BY <2>2
<1>2. CASE w \in {<<"{", "{">>, <<"}", "}">>, <<"{", "}">>}
  <2>1. PICK c \in {"{", "}"}, d \in {"{", "}"} : w = <<c, d>>
    BY <1>2
  <2>2. Len(w) = 2 /\ \A i \in 1 .. 2 : w[i] \in {c, d}
    BY <2>1, ShortTexts
  <2> QED
    BY <2>2
<1>3. CASE w = <<"{", "0", "}">>
  <2>1. Len(w) = 3 /\ \A i \in 1 .. 3 : w[i] \in {"{", "0", "}"}
    BY <1>3, ShortTexts
  <2> QED
    BY <2>1
<1> QED
  BY <1>1, <1>2, <1>3

LEMMA ConsumesType ==
    ASSUME NEW piece \in Piece
    PROVE  Consumes(piece) \in Nat /\ (Bounded(piece) => Consumes(piece) >= 1)
<1>1. CASE piece \in Convert
  BY <1>1, ConsumesOf
<1>2. CASE piece \in Literal \cup Replacement \cup Percent
  <2>1. ~Bounded(piece) /\ Consumes(piece) = 0
    BY <1>2, PlainPieces
  <2> QED
    BY <2>1
<1> QED
  BY <1>1, <1>2 DEF Piece

\* The scanner takes a piece for what it means.
LEMMA MarksPiece ==
    ASSUME NEW format \in Seq(Char), NEW count \in Nat, NEW t, NEW start,
           Trace(t, MarkLoop(format, count), start, Len(format)),
           NEW p \in Nat \ {0}, NEW arg \in Nat, NEW mask \in SUBSET Nat,
           NEW piece \in Piece, StandsAt(format, p, Written(piece)),
           Reaches(t, MarkAt(p, arg, mask), Len(format))
    PROVE  LET value == arg + Consumes(piece) - 1
           IN  Reaches(t, MarkAt(p + Len(Written(piece)), arg + Consumes(piece),
                                 IF Bounded(piece) /\ value < count /\ value < MaskBits
                                 THEN mask \cup {value} ELSE mask), Len(format))
<1> DEFINE n == Len(format)
<1>0. n \in Nat
  OBVIOUS
<1>1. CASE piece \in Convert
  <2> DEFINE c == Scanned(format, p + 1)
             value == arg + Consumes(piece) - 1
             after == MarkAt(p + Len(Written(piece)), arg + Consumes(piece),
                             IF Bounded(piece) /\ value < count /\ value < MaskBits
                             THEN mask \cup {value} ELSE mask)
  <2>1. /\ p + 1 <= n /\ At(format, p) = "%" /\ At(format, p + 1) # "%"
        /\ c.at = p + Len(Written(piece)) - 1 /\ c.at > p /\ c.at <= n
        /\ At(format, c.at) = piece.conv
        /\ c.stars = Consumes(piece) - 1
        /\ c.pstar = (piece.prec = <<".", "*">>)
    BY <1>1, ScansConversion
  <2>2. Consumes(piece) \in Nat /\ Len(Written(piece)) \in Nat
    <3>1. Consumes(piece) \in Nat
      BY <1>1, ConsumesOf
    <3>2. Written(piece) \in Seq(Char)
      BY <1>1, WrittenType
    <3> QED
      BY <3>1, <3>2
  <2>3. piece.conv # NUL /\ (Bounded(piece) <=> c.pstar /\ At(format, c.at) = "s")
    BY <1>1, <2>1 DEF Convert, NUL, Bounded, IsConvert
  <2> HIDE DEF c
  <2>4. p <= n /\ format[p] = "%" /\ At(format, c.at) # NUL
    <3>1. p <= n
      BY <1>0, <2>1
    <3>2. format[p] = "%"
      BY <2>1, <3>1, AtIs
    <3> QED
      BY <2>1, <2>3, <3>1, <3>2
  <2>5. MarkLoop(format, count)[MarkAt(p, arg, mask)] =
          MarkAt(c.at + 1, arg + c.stars + 1,
                 IF /\ At(format, c.at) = "s" /\ c.pstar
                    /\ arg + c.stars < count /\ arg + c.stars < MaskBits
                 THEN mask \cup {arg + c.stars} ELSE mask)
    <3>1. p \in Nat /\ ~(p > Len(format))
      BY <1>0, <2>4
    <3>2. MarkLoop(format, count)[MarkAt(p, arg, mask)] = Marked(format, count, p, arg, mask, c)
      BY <3>1, MarkRoundIs DEF c
    <3> QED
      BY <2>1, <2>4, <3>1, <3>2, Zenon DEF Marked
  <2>6. /\ c.at + 1 = p + Len(Written(piece)) /\ arg + c.stars = value
        /\ arg + c.stars + 1 = arg + Consumes(piece)
    BY <2>1, <2>2
  <2>7. MarkLoop(format, count)[MarkAt(p, arg, mask)] = after
    BY <2>3, <2>5, <2>6
  <2>8. value \in Nat /\ mask \cup {value} \in SUBSET Nat
    <3>1. Consumes(piece) >= 1
      BY <1>1, ConsumesOf
    <3>2. value \in Nat
      BY <2>2, <3>1
    <3> QED
      BY <3>2
  <2>9. after.at = p + Len(Written(piece))
    BY DEF MarkAt
  <2>10. MarkAt(p, arg, mask).at = p
    BY DEF MarkAt
  <2>11. after.at \in Nat /\ after.at > p /\ p <= n
    BY <1>0, <2>1, <2>2, <2>9, SMTT(40)
  <2> HIDE DEF after
  <2>12. Reaches(t, after, n)
    BY <1>0, <2>7, <2>10, <2>11, ReachesNext
  <2> QED
    BY <2>12 DEF after
<1>2. CASE piece \in Percent
  <2>1. /\ ~Bounded(piece) /\ Consumes(piece) = 0 /\ Written(piece) = <<"%", "%">>
    BY <1>2, PlainPieces
  <2>2. p + 1 <= n /\ At(format, p) = "%" /\ At(format, p + 1) = "%" /\ Len(Written(piece)) = 2
    BY <2>1, StandsTwo
  <2>3. p <= n /\ format[p] = "%" /\ p \in Nat
    BY <1>0, <2>2, AtIs
  <2>4. MarkLoop(format, count)[MarkAt(p, arg, mask)] = MarkAt(p + 2, arg, mask)
    <3>1. ~(p > Len(format))
      BY <1>0, <2>3
    <3>2. MarkLoop(format, count)[MarkAt(p, arg, mask)]
            = Marked(format, count, p, arg, mask, Scanned(format, p + 1))
      BY <2>3, MarkRoundIs
    <3> QED
      BY <2>2, <2>3, <3>1, <3>2, Zenon DEF Marked
  <2>5. MarkAt(p, arg, mask).at = p /\ MarkAt(p + 2, arg, mask).at = p + 2
    BY DEF MarkAt
  <2>6. p + 2 \in Nat /\ p + 2 > p
    OBVIOUS
  <2>7. Reaches(t, MarkAt(p + 2, arg, mask), n)
    BY <1>0, <2>3, <2>4, <2>5, <2>6, ReachesNext
  <2> QED
    BY <2>1, <2>2, <2>7
<1>3. CASE piece \in (Literal \cup Replacement) \ Percent
  <2>1. /\ ~Bounded(piece) /\ Consumes(piece) = 0 /\ Written(piece) = piece.text
        /\ piece.text \in {<<"s">>, <<".">>, <<"*">>, <<"{", "{">>, <<"}", "}">>, <<"{", "}">>,
                           <<"{", "0", "}">>}
    BY <1>3, PlainPieces
  <2> DEFINE w == Written(piece)
             q == p + Len(w)
  <2>2. Len(w) \in Nat /\ \A i \in 1 .. Len(w) : w[i] # "%"
    <3>1. w \in {<<"s">>, <<".">>, <<"*">>, <<"{", "{">>, <<"}", "}">>, <<"{", "}">>, <<"{", "0", "}">>}
      BY <2>1
    <3> QED
      BY <3>1, NoPercent
  <2>3. q <= n + 1 /\ \A i \in 1 .. Len(w) : format[p + i - 1] = w[i]
    BY DEF StandsAt
  <2> HIDE DEF w
  <2>4. q \in p .. n + 1
    BY <1>0, <2>2, <2>3
  <2>5. ASSUME NEW r \in p .. q - 1 PROVE format[r] # "%"
    <3>1. r - p + 1 \in 1 .. Len(w) /\ p + (r - p + 1) - 1 = r
      BY <2>2
    <3> QED
      BY <2>2, <2>3, <3>1
  <2>6. Reaches(t, MarkAt(q, arg, mask), n)
    BY <2>4, <2>5, MarkSkips
  <2>7. arg + Consumes(piece) = arg
    <3>1. Consumes(piece) = 0
      BY <2>1
    <3> QED
      BY <3>1
  <2> QED
    BY <2>1, <2>6, <2>7, Zenon DEF w
<1> QED
  BY <1>1, <1>2, <1>3 DEF Piece

-----------------------------------------------------------------------------
(***************************************************************************)
(* A format written from any number of pieces: piece i begins at at[i] and *)
(* takes the arguments from arg[i] on.                                     *)
(***************************************************************************)
LaidOut(format, pieces, at, arg) ==
    /\ at \in [1 .. Len(pieces) + 1 -> Nat \ {0}] /\ arg \in [1 .. Len(pieces) + 1 -> Nat]
    /\ at[1] = 1 /\ arg[1] = 0 /\ at[Len(pieces) + 1] = Len(format) + 1
    /\ \A i \in 1 .. Len(pieces) :
          /\ StandsAt(format, at[i], Written(pieces[i]))
          /\ at[i + 1] = at[i] + Len(Written(pieces[i]))
          /\ arg[i + 1] = arg[i] + Consumes(pieces[i])

\* The value arguments of the %.*s among the first n pieces, as far as the mask goes.
MeantOf(pieces, arg, count, n) ==
    {v \in Nat : /\ v < count /\ v < MaskBits
                 /\ \E i \in 1 .. n : Bounded(pieces[i]) /\ v = arg[i + 1] - 1}

\* The loop marks the strings that the caller bounds, whatever pieces the format is written from.
LEMMA LoopMarksWhatIsMeant ==
    ASSUME NEW format \in Seq(Char), NEW pieces \in Seq(Piece), NEW count \in Nat,
           NEW at, NEW arg, LaidOut(format, pieces, at, arg)
    PROVE  MarkFrom(format, count) = MeantOf(pieces, arg, count, Len(pieces))
<1> DEFINE n == Len(format)
           k == Len(pieces)
           loop == MarkLoop(format, count)
           start == MarkAt(1, 0, {})
           Mask(i) == MeantOf(pieces, arg, count, i)
           after(i) == MarkAt(at[i + 1], arg[i + 1], Mask(i))
<1>0. n \in Nat /\ k \in Nat /\ MaskBits \in Int
  BY MaskAssumption
<1>1. loop \in [MarkState -> MarkState] /\ start \in MarkState
  BY MarkLoopType DEF MarkAt, MarkState
<1>2. MarkFrom(format, count) = Repeat(loop, start, n).mask
  BY DEF MarkFrom, MarkLoop, MarkAt
<1>3. start.at = 1
  BY DEF MarkAt
<1> HIDE DEF loop, start
<1>4. PICK t : Trace(t, loop, start, n) /\ Repeat(loop, start, n) = t[n + 1]
  BY <1>0, <1>1, RepeatTraces
<1>5. Reaches(t, start, n)
  BY <1>0, <1>3, <1>4, ReachesStart
<1>6. /\ at \in [1 .. k + 1 -> Nat \ {0}] /\ arg \in [1 .. k + 1 -> Nat]
      /\ at[1] = 1 /\ arg[1] = 0 /\ at[k + 1] = n + 1
      /\ \A i \in 1 .. k : /\ StandsAt(format, at[i], Written(pieces[i]))
                           /\ at[i + 1] = at[i] + Len(Written(pieces[i]))
                           /\ arg[i + 1] = arg[i] + Consumes(pieces[i])
  BY DEF LaidOut
<1> DEFINE T == {i \in Nat : i <= k => Reaches(t, after(i), n)}
<1>7. 0 \in T
  <2>1. Mask(0) = {}
    <3>1. 1 .. 0 = {}
      OBVIOUS
    <3> QED
      BY <3>1 DEF MeantOf
  <2>2. after(0) = start
    BY <1>6, <2>1, 0 + 1 = 1 DEF start
  <2> QED
    BY <1>5, <2>2
<1>8. ASSUME NEW i \in Nat, i \in T PROVE i + 1 \in T
  <2>1. SUFFICES ASSUME i + 1 <= k PROVE Reaches(t, after(i + 1), n)
    OBVIOUS
  <2> DEFINE piece == pieces[i + 1]
             p == at[i + 1]
             a == arg[i + 1]
             value == a + Consumes(piece) - 1
             more == IF Bounded(piece) /\ value < count /\ value < MaskBits
                     THEN Mask(i) \cup {value} ELSE Mask(i)
  <2>2. /\ i + 1 \in 1 .. k /\ i + 1 \in 1 .. k + 1 /\ (i + 1) + 1 \in 1 .. k + 1 /\ i <= k
    BY <1>0, <2>1
  <2>3. piece \in Piece /\ p \in Nat \ {0} /\ a \in Nat /\ Mask(i) \in SUBSET Nat
    <3>1. pieces[i + 1] \in Piece
      BY <2>2
    <3>2. Mask(i) \in SUBSET Nat
      BY DEF MeantOf
    <3> QED
      BY <1>6, <2>2, <3>1, <3>2
  <2>4. /\ StandsAt(format, p, Written(piece)) /\ at[(i + 1) + 1] = p + Len(Written(piece))
        /\ arg[(i + 1) + 1] = a + Consumes(piece) /\ arg[(i + 1) + 1] \in Nat
    BY <1>6, <2>2
  <2>5. Reaches(t, MarkAt(p, a, Mask(i)), n)
    BY <1>8, <2>2
  <2>6. Trace(t, MarkLoop(format, count), start, Len(format))
    BY <1>4 DEF loop
  <2> DEFINE m == Mask(i)
  <2>7. Reaches(t, MarkAt(p + Len(Written(piece)), a + Consumes(piece), more), n)
    <3> HIDE DEF p, a, piece, Mask
    <3> QED
      BY <2>3, <2>4, <2>5, <2>6, MarksPiece
  <2>8. Mask(i + 1) = more
    <3> DEFINE M == Mask(i + 1)
    <3>1. value = arg[(i + 1) + 1] - 1 /\ (Bounded(piece) => value \in Nat)
      <4> DEFINE u == Consumes(piece)
                 b == arg[(i + 1) + 1]
      <4>1. u \in Nat /\ (Bounded(piece) => u >= 1)
        BY <2>3, ConsumesType
      <4>2. b = a + u /\ a \in Nat
        BY <2>3, <2>4
      <4> HIDE DEF piece, a, u, b
      <4>3. a + u - 1 = b - 1 /\ (Bounded(piece) => a + u - 1 \in Nat)
        BY <4>1, <4>2
      <4> QED
        BY <4>3, Zenon DEF u, b
    <3>2. ASSUME NEW v \in Nat, NEW j \in 1 .. i + 1, Bounded(pieces[j]), v = arg[j + 1] - 1
          PROVE  (j \in 1 .. i) \/ (Bounded(piece) /\ v = value)
      BY <3>1, <3>2
    <3>3. ASSUME NEW j \in 1 .. i PROVE j \in 1 .. i + 1
      OBVIOUS
    <3>4. i + 1 \in 1 .. i + 1
      OBVIOUS
    <3> HIDE DEF value
    <3>5. ASSUME NEW v \in Nat
          PROVE  (\E j \in 1 .. i + 1 : Bounded(pieces[j]) /\ v = arg[j + 1] - 1)
                 <=> \/ \E j \in 1 .. i : Bounded(pieces[j]) /\ v = arg[j + 1] - 1
                     \/ Bounded(piece) /\ v = value
      BY <3>1, <3>2, <3>3, <3>4, Zenon
    <3>6. ASSUME NEW v
          PROVE  v \in Mask(i + 1) <=> v \in Mask(i) \/ (/\ v \in Nat /\ v < count /\ v < MaskBits
                                                         /\ Bounded(piece) /\ v = value)
      <4>1. v \in Mask(i + 1) <=> /\ v \in Nat /\ v < count /\ v < MaskBits
                                  /\ \E j \in 1 .. i + 1 : Bounded(pieces[j]) /\ v = arg[j + 1] - 1
        BY DEF MeantOf
      <4>2. v \in Mask(i) <=> /\ v \in Nat /\ v < count /\ v < MaskBits
                              /\ \E j \in 1 .. i : Bounded(pieces[j]) /\ v = arg[j + 1] - 1
        BY DEF MeantOf
      <4> HIDE DEF Mask, piece
      <4> QED
        BY <3>5, <4>1, <4>2, Zenon
    <3>7. Bounded(piece) => value \in Nat
      BY <3>1 DEF value
    <3> HIDE DEF Mask, piece
    <3> QED
      BY <3>6, <3>7
  <2>9. after(i + 1) = MarkAt(p + Len(Written(piece)), a + Consumes(piece), more)
    BY <2>4, <2>8
  <2> QED
    BY <2>7, <2>9
<1>9. k \in T
  <2> HIDE DEF T
  <2> QED
    BY <1>0, <1>7, <1>8, SetInduction
<1>10. Reaches(t, after(k), n)
  BY <1>0, <1>9
<1>11. loop[after(k)] = after(k)
  <2>1. k + 1 \in 1 .. k + 1 /\ n + 1 \in Nat /\ n + 1 > Len(format)
    BY <1>0
  <2>2. arg[k + 1] \in Nat /\ Mask(k) \in SUBSET Nat
    BY <1>6, <2>1 DEF MeantOf
  <2> DEFINE a == arg[k + 1]
             m == Mask(k)
  <2> HIDE DEF a, m
  <2>3. MarkLoop(format, count)[MarkAt(n + 1, a, m)]
          = Marked(format, count, n + 1, a, m, Scanned(format, (n + 1) + 1))
    BY <2>1, <2>2, MarkRoundIs DEF a, m
  <2>4. loop[MarkAt(n + 1, a, m)] = MarkAt(n + 1, a, m)
    BY <2>1, <2>3 DEF Marked, loop
  <2> QED
    BY <1>6, <2>4 DEF a, m
<1>12. t[n + 1] = after(k)
  <2> DEFINE s == after(k)
  <2>1. Reaches(t, s, n) /\ loop[s] = s
    BY <1>10, <1>11
  <2> HIDE DEF s
  <2>2. t[n + 1] = s
    BY <1>0, <1>4, <2>1, ReachesEnd
  <2> QED
    BY <2>2 DEF s
<1>13. after(k).mask = Mask(k)
  BY DEF MarkAt
<1> HIDE DEF after
<1> QED
  BY <1>2, <1>4, <1>12, <1>13

\* The guard of the scanner finds a conversion written plainly wherever it stands.
LEMMA GuardSeesPlain ==
    ASSUME NEW format \in Seq(Char), NEW p \in Nat \ {0},
           StandsAt(format, p, <<"%", ".", "*", "s">>)
    PROVE  HasPlainConversion(format)
<1> DEFINE n == Len(format)
           w == <<"%", ".", "*", "s">>
           part == SubSeq(format, p, p + 3)
<1>1. n \in Nat /\ Len(w) = 4 /\ 1 .. 4 = {1, 2, 3, 4}
  OBVIOUS
<1>2. p + 4 <= n + 1 /\ \A i \in 1 .. 4 : format[p + i - 1] = w[i]
  BY <1>1 DEF StandsAt
<1>3. p \in 1 .. n - 3 /\ p \in 1 .. n + 1 /\ p + 3 \in p - 1 .. n /\ p + 3 - p + 1 = 4
  BY <1>1, <1>2
<1>4. part \in Seq(Char) /\ Len(part) = 4 /\ \A i \in 1 .. 4 : part[i] = format[p + i - 1]
  BY <1>1, <1>3
<1> HIDE DEF part
<1>5. part = <<part[1], part[2], part[3], part[4]>>
  BY <1>4
<1>6. part[1] = "%" /\ part[2] = "." /\ part[3] = "*" /\ part[4] = "s"
  BY <1>1, <1>2, <1>4
<1>7. part = w
  BY <1>5, <1>6
<1> QED
  BY <1>3, <1>7 DEF HasPlainConversion, part

(***************************************************************************)
(* The scanner, whatever pieces a format is written from: it never marks   *)
(* an argument that is not a string its caller bounds; when it finds %.*s  *)
(* in the format it marks all of them, however the others are written; and *)
(* it finds it when one conversion is written so.  With nothing but %5.*s, *)
(* %-.*s or %.*ls it may mark none: it does not look at the format.        *)
(***************************************************************************)
THEOREM MarksWhatIsMeant ==
    ASSUME NEW format \in Seq(Char), NEW pieces \in Seq(Piece), NEW count \in Nat,
           NEW at, NEW arg, LaidOut(format, pieces, at, arg)
    PROVE  LET meant == MeantOf(pieces, arg, count, Len(pieces))
           IN  /\ MarkPrecision(format, count) \subseteq meant
               /\ HasPlainConversion(format) => MarkPrecision(format, count) = meant
               /\ (\E i \in 1 .. Len(pieces) : WrittenPlainly(pieces[i]))
                    => HasPlainConversion(format)
<1> DEFINE meant == MeantOf(pieces, arg, count, Len(pieces))
<1>1. MarkFrom(format, count) = meant
  BY LoopMarksWhatIsMeant
<1>2. count = 0 => meant = {}
  BY DEF MeantOf
<1>3. ASSUME NEW i \in 1 .. Len(pieces), WrittenPlainly(pieces[i])
      PROVE  HasPlainConversion(format)
  <2>1. i \in 1 .. Len(pieces) + 1
    OBVIOUS
  <2>2. at[i] \in Nat \ {0} /\ StandsAt(format, at[i], Written(pieces[i]))
    BY <2>1 DEF LaidOut
  <2> QED
    BY <1>3, <2>2, GuardSeesPlain DEF WrittenPlainly
<1> HIDE DEF meant
<1>4. /\ MarkPrecision(format, count) \subseteq meant
      /\ HasPlainConversion(format) => MarkPrecision(format, count) = meant
  BY <1>1, <1>2 DEF MarkPrecision
<1> QED
  BY <1>3, <1>4 DEF meant

-----------------------------------------------------------------------------
(***************************************************************************)
(* The C++ scanners.  Each looks for pieces of one kind: it stops in one   *)
(* of them, and passes over any other.                                     *)
(***************************************************************************)
FindAt(at, found) == [at |-> at, found |-> found]

LEMMA FindStateFields ==
    ASSUME NEW at \in Nat, NEW found \in BOOLEAN
    PROVE  FindAt(at, found) \in FindState /\ FindAt(at, found).at = at /\ FindAt(at, found).found = found
  BY DEF FindAt, FindState

Passes(t, format, p, piece, Kind) ==
    IF piece \in Kind
    THEN \E q \in Nat : Reaches(t, FindAt(q, TRUE), Len(format))
    ELSE Reaches(t, FindAt(p + Len(Written(piece)), FALSE), Len(format))

LEMMA FindsPieces ==
    ASSUME NEW format \in Seq(Char), NEW pieces \in Seq(Piece), NEW at, NEW arg,
           LaidOut(format, pieces, at, arg), NEW loop, NEW t, NEW Kind,
           Trace(t, loop, FindAt(1, FALSE), Len(format)),
           \A q \in Nat : loop[FindAt(q, TRUE)] = FindAt(q, TRUE),
           loop[FindAt(Len(format) + 1, FALSE)] = FindAt(Len(format) + 1, FALSE),
           \A p \in Nat \ {0}, piece \in Piece :
              StandsAt(format, p, Written(piece)) /\ Reaches(t, FindAt(p, FALSE), Len(format))
                 => Passes(t, format, p, piece, Kind)
    PROVE  t[Len(format) + 1].found <=> \E i \in 1 .. Len(pieces) : pieces[i] \in Kind
<1> DEFINE n == Len(format)
           k == Len(pieces)
           Some(i) == \E j \in 1 .. i : pieces[j] \in Kind
           Stopped == \E q \in Nat : Reaches(t, FindAt(q, TRUE), n)
           T == {i \in Nat : i <= k => IF Some(i) THEN Stopped ELSE Reaches(t, FindAt(at[i + 1], FALSE), n)}
<1>0. n \in Nat /\ k \in Nat
  OBVIOUS
<1>1. /\ at \in [1 .. k + 1 -> Nat \ {0}] /\ at[1] = 1 /\ at[k + 1] = n + 1
      /\ \A i \in 1 .. k : /\ StandsAt(format, at[i], Written(pieces[i]))
                           /\ at[i + 1] = at[i] + Len(Written(pieces[i]))
  BY DEF LaidOut
<1>2. 0 \in T
  <2>1. FindAt(1, FALSE).at = 1
    BY DEF FindAt
  <2>2. Reaches(t, FindAt(1, FALSE), n)
    BY <1>0, <2>1, ReachesStart
  <2>3. ~Some(0)
    <3>1. 1 .. 0 = {}
      OBVIOUS
    <3> QED
      BY <3>1
  <2>4. at[0 + 1] = 1
    BY <1>1, 0 + 1 = 1
  <2> HIDE DEF Some, Stopped
  <2> QED
    BY <2>2, <2>3, <2>4
<1>3. ASSUME NEW i \in Nat, i \in T PROVE i + 1 \in T
  <2>0. i + 1 \in Nat
    OBVIOUS
  <2>1. SUFFICES ASSUME i + 1 <= k
                 PROVE  IF Some(i + 1) THEN Stopped ELSE Reaches(t, FindAt(at[(i + 1) + 1], FALSE), n)
    BY <2>0, Zenon
  <2>2. i + 1 \in 1 .. k /\ i + 1 \in 1 .. k + 1 /\ i <= k /\ i + 1 \in 1 .. i + 1
    BY <1>0, <2>1
  <2>3. ASSUME NEW j \in 1 .. i + 1 PROVE j \in 1 .. i \/ j = i + 1
    OBVIOUS
  <2>4. ASSUME NEW j \in 1 .. i PROVE j \in 1 .. i + 1
    OBVIOUS
  <2>5. Some(i + 1) <=> Some(i) \/ pieces[i + 1] \in Kind
    BY <2>2, <2>3, <2>4, Zenon
  <2>6. IF Some(i) THEN Stopped ELSE Reaches(t, FindAt(at[i + 1], FALSE), n)
    BY <1>3, <2>2, Zenon
  <2>7. /\ pieces[i + 1] \in Piece /\ at[i + 1] \in Nat \ {0}
        /\ StandsAt(format, at[i + 1], Written(pieces[i + 1]))
        /\ at[(i + 1) + 1] = at[i + 1] + Len(Written(pieces[i + 1]))
    BY <1>1, <2>2, SMTT(40)
  <2> HIDE DEF Some, Stopped
  <2>8. CASE Some(i)
    BY <2>5, <2>6, <2>8, Zenon
  <2>9. CASE ~Some(i)
    <3>1. Passes(t, format, at[i + 1], pieces[i + 1], Kind)
      BY <2>6, <2>7, <2>9, Zenon
    <3> QED
      BY <2>5, <2>7, <2>9, <3>1, Zenon DEF Passes, Stopped
  <2> QED
    BY <2>8, <2>9
<1>4. k \in T
  <2> HIDE DEF T
  <2> QED
    BY <1>0, <1>2, <1>3, SetInduction
<1>5. IF Some(k) THEN Stopped ELSE Reaches(t, FindAt(n + 1, FALSE), n)
  <2>1. k <= k
    BY <1>0
  <2>2. IF Some(k) THEN Stopped ELSE Reaches(t, FindAt(at[k + 1], FALSE), n)
    BY <1>4, <2>1, Zenon
  <2> HIDE DEF Some, Stopped
  <2> QED
    BY <1>1, <2>2, Zenon
<1>6. CASE Some(k)
  <2>1. PICK q \in Nat : Reaches(t, FindAt(q, TRUE), n)
    BY <1>5, <1>6
  <2> DEFINE s == FindAt(q, TRUE)
  <2>2. loop[s] = s /\ Reaches(t, s, n) /\ s.found
    BY <2>1 DEF FindAt
  <2> HIDE DEF s
  <2>3. t[n + 1] = s
    BY <1>0, <2>2, ReachesEnd
  <2> QED
    BY <1>6, <2>2, <2>3
<1>7. CASE ~Some(k)
  <2> DEFINE s == FindAt(n + 1, FALSE)
  <2>2. loop[s] = s /\ Reaches(t, s, n) /\ ~s.found
    BY <1>5, <1>7 DEF FindAt
  <2> HIDE DEF s
  <2>3. t[n + 1] = s
    BY <1>0, <2>2, ReachesEnd
  <2> QED
    BY <1>7, <2>2, <2>3
<1> QED
  BY <1>6, <1>7

\* A text of which no character begins anything is passed over.
LEMMA FindSkips ==
    ASSUME NEW format \in Seq(Char), NEW loop, NEW t, NEW start, Trace(t, loop, start, Len(format)),
           NEW p \in Nat \ {0}, NEW w \in Seq(Char), StandsAt(format, p, w), NEW c,
           \A i \in 1 .. Len(w) : w[i] # c,
           \A r \in 1 .. Len(format) : format[r] # c => loop[FindAt(r, FALSE)] = FindAt(r + 1, FALSE),
           Reaches(t, FindAt(p, FALSE), Len(format))
    PROVE  Reaches(t, FindAt(p + Len(w), FALSE), Len(format))
<1> DEFINE n == Len(format)
           m == Len(w)
           q == p + m
           st == [r \in p .. q |-> FindAt(r, FALSE)]
<1>0. n \in Nat /\ m \in Nat
  OBVIOUS
<1>1. q <= n + 1 /\ \A i \in 1 .. m : format[p + i - 1] = w[i]
  BY DEF StandsAt
<1> HIDE DEF n, m
<1>2. q \in p .. n + 1 /\ p \in p .. q /\ q \in p .. q
  BY <1>0, <1>1
<1>3. \A r \in p .. q : st[r] = FindAt(r, FALSE)
  OBVIOUS
<1>4. ASSUME NEW r \in p .. q PROVE st[r].at = r
  BY DEF FindAt
<1> HIDE DEF st
<1>5. ASSUME NEW r \in p .. q - 1 PROVE loop[st[r]] = st[r + 1]
  <2>1. /\ r - p + 1 \in 1 .. m /\ p + (r - p + 1) - 1 = r /\ r \in 1 .. n
        /\ r \in p .. q /\ r + 1 \in p .. q
    BY <1>0, <1>1
  <2>2. format[r] # c
    BY <1>1, <2>1 DEF m
  <2>3. loop[FindAt(r, FALSE)] = FindAt(r + 1, FALSE)
    BY <2>1, <2>2 DEF n
  <2> QED
    BY <1>3, <2>1, <2>3
<1>6. Reaches(t, st[p], n)
  BY <1>2, <1>3 DEF n
<1> HIDE DEF q
<1>7. Reaches(t, st[q], n)
  BY <1>0, <1>2, <1>4, <1>5, <1>6, ReachesAlong DEF n
<1> QED
  BY <1>2, <1>3, <1>7 DEF n, q, m

PrintfLoop(format) == [s \in FindState |-> PrintfRound(format, s)]

FmtLoop(format) == [s \in FindState |-> FmtRound(format, s)]

\* What a round of either does.
LEMMA FindRounds ==
    ASSUME NEW format, NEW p \in Nat
    PROVE  /\ PrintfLoop(format)[FindAt(p, TRUE)] = FindAt(p, TRUE)
           /\ FmtLoop(format)[FindAt(p, TRUE)] = FindAt(p, TRUE)
           /\ PrintfLoop(format)[FindAt(p, FALSE)] =
                IF p > Len(format) THEN FindAt(p, FALSE)
                ELSE IF format[p] # "%" THEN FindAt(p + 1, FALSE)
                ELSE FindAt(Scanned(format, p + 1).at + 1,
                            \/ At(format, p + 1) = "%"
                            \/ At(format, Scanned(format, p + 1).at) \in Conversion)
           /\ FmtLoop(format)[FindAt(p, FALSE)] =
                IF p > Len(format) THEN FindAt(p, FALSE)
                ELSE IF format[p] # "{" THEN FindAt(p + 1, FALSE)
                ELSE IF At(format, p + 1) = "{" THEN FindAt(p + 2, FALSE)
                ELSE FindAt(p + 1, At(format, p + 1) \in {"}"} \cup Digit \cup Alpha)
<1>1. \A f \in BOOLEAN : /\ FindAt(p, f) \in FindState /\ FindAt(p, f).at = p /\ FindAt(p, f).found = f
                         /\ \A q : [FindAt(p, f) EXCEPT !.at = q] = FindAt(q, f)
  BY DEF FindAt, FindState
<1>2. \A f \in BOOLEAN : /\ PrintfLoop(format)[FindAt(p, f)] = PrintfRound(format, FindAt(p, f))
                         /\ FmtLoop(format)[FindAt(p, f)] = FmtRound(format, FindAt(p, f))
  BY <1>1 DEF PrintfLoop, FmtLoop
<1>3. PrintfRound(format, FindAt(p, TRUE)) = FindAt(p, TRUE)
  BY <1>1 DEF PrintfRound
<1>4. FmtRound(format, FindAt(p, TRUE)) = FindAt(p, TRUE)
  BY <1>1 DEF FmtRound
<1> DEFINE s == FindAt(p, FALSE)
<1>5. /\ s.at = p /\ s.found = FALSE /\ [s EXCEPT !.at = p + 1] = FindAt(p + 1, FALSE)
      /\ [s EXCEPT !.at = p + 2] = FindAt(p + 2, FALSE)
  BY <1>1
<1> HIDE DEF s
<1>6. PrintfRound(format, s) =
        IF p > Len(format) THEN s
        ELSE IF format[p] # "%" THEN [s EXCEPT !.at = p + 1]
        ELSE FindAt(Scanned(format, p + 1).at + 1,
                    \/ At(format, p + 1) = "%"
                    \/ At(format, Scanned(format, p + 1).at) \in Conversion)
  <2> DEFINE c == Scanned(format, p + 1)
  <2> HIDE DEF c
  <2> QED
    BY <1>5 DEF PrintfRound, FindAt, c
<1>7. FmtRound(format, s) =
        IF p > Len(format) THEN s
        ELSE IF format[p] # "{" THEN [s EXCEPT !.at = p + 1]
        ELSE IF At(format, p + 1) = "{" THEN [s EXCEPT !.at = p + 2]
        ELSE FindAt(p + 1, At(format, p + 1) \in {"}"} \cup Digit \cup Alpha)
  BY <1>5 DEF FmtRound, FindAt
<1>8. PrintfLoop(format)[s] = PrintfRound(format, s) /\ FmtLoop(format)[s] = FmtRound(format, s)
  BY <1>2 DEF s
<1>9. /\ PrintfLoop(format)[FindAt(p, TRUE)] = FindAt(p, TRUE)
      /\ FmtLoop(format)[FindAt(p, TRUE)] = FindAt(p, TRUE)
  BY <1>2, <1>3, <1>4
<1> QED
  BY <1>5, <1>6, <1>7, <1>8, <1>9, Zenon DEF s

LEMMA FindLoopTypes ==
    ASSUME NEW format \in Seq(Char)
    PROVE  PrintfLoop(format) \in [FindState -> FindState] /\ FmtLoop(format) \in [FindState -> FindState]
<1>0. Len(format) \in Nat /\ \A q \in Nat, f \in BOOLEAN : FindAt(q, f) \in FindState
  BY DEF FindAt, FindState
<1>1. ASSUME NEW s \in FindState
      PROVE  PrintfLoop(format)[s] \in FindState /\ FmtLoop(format)[s] \in FindState
  <2> DEFINE p == s.at
             c == Scanned(format, p + 1)
             f == At(format, p + 1) = "%" \/ At(format, c.at) \in Conversion
             g == At(format, p + 1) \in {"}"} \cup Digit \cup Alpha
  <2>1. p \in Nat /\ (s = FindAt(p, TRUE) \/ s = FindAt(p, FALSE))
    BY DEF FindState, FindAt
  <2>2. ~(p > Len(format)) => c.at \in Nat
    <3>1. SUFFICES ASSUME ~(p > Len(format)) PROVE c.at \in Nat
      OBVIOUS
    <3>2. p + 1 \in 1 .. Len(format) + 1
      BY <1>0, <2>1, <3>1
    <3>3. c.at \in p + 1 .. Len(format) + 1
      BY <3>2, ScannedType
    <3> QED
      BY <2>1, <3>3
  <2>3. f \in BOOLEAN /\ g \in BOOLEAN
    OBVIOUS
  <2>4. CASE s = FindAt(p, TRUE)
    <3>1. PrintfLoop(format)[s] = s /\ FmtLoop(format)[s] = s
      BY <2>1, <2>4, FindRounds, ZenonT(40)
    <3> QED
      BY <3>1
  <2>5. CASE s = FindAt(p, FALSE)
    <3>1. /\ PrintfLoop(format)[s] = IF p > Len(format) THEN FindAt(p, FALSE)
                                     ELSE IF format[p] # "%" THEN FindAt(p + 1, FALSE)
                                     ELSE FindAt(c.at + 1, f)
          /\ FmtLoop(format)[s] = IF p > Len(format) THEN FindAt(p, FALSE)
                                  ELSE IF format[p] # "{" THEN FindAt(p + 1, FALSE)
                                  ELSE IF At(format, p + 1) = "{" THEN FindAt(p + 2, FALSE)
                                  ELSE FindAt(p + 1, g)
      <4> HIDE DEF p
      <4> QED
        BY <2>1, <2>5, FindRounds
    <3> HIDE DEF p, c, f, g
    <3>2. p + 1 \in Nat /\ p + 2 \in Nat /\ (~(p > Len(format)) => c.at + 1 \in Nat)
      BY <2>1, <2>2
    <3> QED
      BY <1>0, <2>1, <2>3, <3>1, <3>2, Zenon
  <2> QED
    BY <2>1, <2>4, <2>5
<1> QED
  BY <1>1 DEF PrintfLoop, FmtLoop

\* Only a literal or a replacement has a brace in it.
LEMMA NoBrace ==
    ASSUME NEW piece \in Convert
    PROVE  \A i \in 1 .. Len(Written(piece)) : Written(piece)[i] # "{"
<1> DEFINE C == {"-", "0", "5", "*", ".", "l", "h", "s", "d", "%"}
           a == piece.flags
           b == piece.width
           c == piece.prec
           d == piece.length
           e == <<piece.conv>>
           x == <<"%">>
<1>1. /\ a \in {<<>>, <<"-">>, <<"0">>} /\ b \in {<<>>, <<"5">>, <<"*">>}
      /\ c \in {<<>>, <<".">>, <<".", "5">>, <<".", "*">>}
      /\ d \in {<<>>, <<"l">>, <<"h", "h">>} /\ piece.conv \in {"s", "d"}
  BY DEF Convert
<1>2. /\ <<>> \in Seq(C) /\ \A f \in C : <<f>> \in Seq(C)
      /\ \A f, g \in C : <<f, g>> \in Seq(C)
  OBVIOUS
<1>3. a \in Seq(C) /\ b \in Seq(C) /\ c \in Seq(C) /\ d \in Seq(C) /\ e \in Seq(C) /\ x \in Seq(C)
  BY <1>1, <1>2
<1>4. Written(piece) = x \o a \o b \o c \o d \o e
  BY ConvertParts
<1>5. "{" \notin C
  OBVIOUS
<1> HIDE DEF C, a, b, c, d, e, x
<1>6. Written(piece) \in Seq(C)
  BY <1>3, <1>4
<1> DEFINE w == Written(piece)
<1> HIDE DEF w
<1>7. \A i \in 1 .. Len(w) : w[i] \in C
  BY <1>6 DEF w
<1> QED
  BY <1>5, <1>7 DEF w

\* has_printf_conversion stops in %% and in conversions.
LEMMA PrintfPasses ==
    ASSUME NEW format \in Seq(Char), NEW t, NEW start, Trace(t, PrintfLoop(format), start, Len(format)),
           NEW p \in Nat \ {0}, NEW piece \in Piece, StandsAt(format, p, Written(piece)),
           Reaches(t, FindAt(p, FALSE), Len(format))
    PROVE  Passes(t, format, p, piece, Percent \cup Convert)
<1> DEFINE n == Len(format)
           loop == PrintfLoop(format)
           c == Scanned(format, p + 1)
<1>0. n \in Nat /\ p \in Nat
  OBVIOUS
<1>1. ASSUME p + 1 <= n, format[p] = "%", c.at \in Nat, c.at > p,
             At(format, p + 1) = "%" \/ At(format, c.at) \in Conversion,
             piece \in Percent \cup Convert
      PROVE  Passes(t, format, p, piece, Percent \cup Convert)
  <2>1. ~(p > n) /\ p <= n
    BY <1>0, <1>1
  <2>2. loop[FindAt(p, FALSE)] = FindAt(c.at + 1, At(format, p + 1) = "%" \/ At(format, c.at) \in Conversion)
    <3> HIDE DEF c
    <3> QED
      BY <1>0, <1>1, <2>1, FindRounds DEF c
  <2> HIDE DEF c, loop
  <2>3. loop[FindAt(p, FALSE)] = FindAt(c.at + 1, TRUE)
    BY <1>1, <2>2
  <2>4. c.at + 1 \in Nat /\ c.at + 1 > p
    BY <1>0, <1>1
  <2>5. FindAt(p, FALSE).at = p /\ FindAt(c.at + 1, TRUE).at = c.at + 1
    BY DEF FindAt
  <2>6. Trace(t, loop, start, n)
    BY DEF loop
  <2>7. Reaches(t, FindAt(c.at + 1, TRUE), n)
    BY <1>0, <2>1, <2>3, <2>4, <2>5, <2>6, ReachesNext
  <2> QED
    BY <1>1, <2>4, <2>7, Zenon DEF Passes
<1>2. CASE piece \in Convert
  <2>1. /\ p + 1 <= n /\ At(format, p) = "%" /\ c.at > p /\ c.at <= n
        /\ At(format, c.at) = piece.conv
    BY <1>2, ScansConversion
  <2>2. c.at \in p + 1 .. n + 1
    <3>1. p + 1 \in 1 .. n + 1
      BY <1>0, <2>1
    <3> QED
      BY <3>1, ScannedType
  <2>3. piece.conv \in Conversion
    BY <1>2 DEF Convert, Conversion
  <2> HIDE DEF c
  <2>4. p <= n
    BY <1>0, <2>1
  <2>5. format[p] = "%"
    BY <2>1, <2>4, AtIs
  <2>6. c.at \in Nat
    BY <1>0, <2>2
  <2> QED
    BY <1>1, <1>2, <2>1, <2>3, <2>5, <2>6
<1>3. CASE piece \in Percent
  <2>1. Written(piece) = <<"%", "%">>
    BY <1>3, PlainPieces
  <2>2. p + 1 <= n /\ At(format, p) = "%" /\ At(format, p + 1) = "%"
    BY <2>1, StandsTwo
  <2>3. p <= n /\ p + 1 \in 1 .. n + 1
    BY <1>0, <2>2
  <2>4. format[p] = "%"
    BY <2>2, <2>3, AtIs
  <2>5. c.at \in p + 1 .. n + 1
    BY <2>3, ScannedType
  <2> HIDE DEF c
  <2>6. c.at \in Nat /\ c.at > p
    BY <1>0, <2>5
  <2> QED
    BY <1>1, <1>3, <2>2, <2>4, <2>6
<1>4. CASE piece \in (Literal \cup Replacement) \ (Percent \cup Convert)
  <2>1. /\ Written(piece) = piece.text
        /\ piece.text \in {<<"s">>, <<".">>, <<"*">>, <<"{", "{">>, <<"}", "}">>, <<"{", "}">>,
                           <<"{", "0", "}">>}
    BY <1>4, PlainPieces
  <2> DEFINE w == Written(piece)
  <2>2. Len(w) \in Nat /\ \A i \in 1 .. Len(w) : w[i] # "%"
    <3>1. w \in {<<"s">>, <<".">>, <<"*">>, <<"{", "{">>, <<"}", "}">>, <<"{", "}">>, <<"{", "0", "}">>}
      BY <2>1
    <3> QED
      BY <3>1, NoPercent
  <2>3. ASSUME NEW r \in 1 .. n, format[r] # "%" PROVE loop[FindAt(r, FALSE)] = FindAt(r + 1, FALSE)
    <3>1. r \in Nat /\ ~(r > n)
      BY <1>0
    <3> QED
      BY <2>3, <3>1, FindRounds
  <2>4. w \in Seq(Char)
    BY WrittenType
  <2>5. Trace(t, loop, start, Len(format)) /\ StandsAt(format, p, w)
    OBVIOUS
  <2> HIDE DEF w, loop
  <2>6. Reaches(t, FindAt(p + Len(w), FALSE), n)
    BY <2>2, <2>3, <2>4, <2>5, FindSkips
  <2> QED
    BY <1>4, <2>6 DEF Passes, w
<1> QED
  BY <1>2, <1>3, <1>4 DEF Piece

LEMMA OneToThree == 1 \in 1 .. 3 /\ 2 \in 1 .. 3
  OBVIOUS

\* has_fmt_replacement stops in {} and {0}.
LEMMA FmtPasses ==
    ASSUME NEW format \in Seq(Char), NEW t, NEW start, Trace(t, FmtLoop(format), start, Len(format)),
           NEW p \in Nat \ {0}, NEW piece \in Piece, StandsAt(format, p, Written(piece)),
           Reaches(t, FindAt(p, FALSE), Len(format))
    PROVE  Passes(t, format, p, piece, Replacement)
<1> DEFINE n == Len(format)
           loop == FmtLoop(format)
           w == Written(piece)
<1>0. n \in Nat /\ p \in Nat /\ w \in Seq(Char) /\ Len(w) \in Nat
  BY WrittenType
<1>1. \A q : FindAt(q, TRUE).at = q /\ FindAt(q, FALSE).at = q
  BY DEF FindAt
<1>b. p + 1 <= n => p <= n /\ ~(p > n)
  BY <1>0
<1>a. /\ p + 1 \in Nat /\ p + 1 > p /\ p + 2 \in Nat /\ p + 2 > p /\ p + 1 \in Nat \ {0}
      /\ p + 1 - 1 = p /\ p + 2 - 1 = p + 1
  BY <1>0
<1>c. p + 3 <= n + 1 => p <= n /\ p + 1 <= n
  BY <1>0
<1>2. ASSUME \A i \in 1 .. Len(w) : w[i] # "{", piece \notin Replacement
      PROVE  Passes(t, format, p, piece, Replacement)
  <2>3. ASSUME NEW r \in 1 .. n, format[r] # "{" PROVE loop[FindAt(r, FALSE)] = FindAt(r + 1, FALSE)
    <3>1. r \in Nat /\ ~(r > n)
      BY <1>0
    <3> QED
      BY <2>3, <3>1, FindRounds
  <2>5. Trace(t, loop, start, Len(format)) /\ StandsAt(format, p, w)
    OBVIOUS
  <2> HIDE DEF w, loop
  <2>6. Reaches(t, FindAt(p + Len(w), FALSE), n)
    BY <1>0, <1>2, <2>3, <2>5, FindSkips
  <2> QED
    BY <1>2, <2>6 DEF Passes, w
<1>3. CASE piece \in Convert
  <2>1. piece \notin Replacement
    <3>1. IsConvert(piece)
      BY <1>3 DEF Convert, IsConvert
    <3> QED
      BY <3>1, PlainPieces
  <2> QED
    BY <1>2, <1>3, <2>1, NoBrace
<1>4. CASE piece \in Literal \cup Replacement \cup Percent
  <2>1. /\ w = piece.text
        /\ piece.text \in {<<"s">>, <<".">>, <<"*">>, <<"{", "{">>, <<"}", "}">>, <<"{", "}">>,
                           <<"{", "0", "}">>, <<"%", "%">>}
        /\ piece \in Replacement <=> piece.text \in {<<"{", "}">>, <<"{", "0", "}">>}
    BY <1>4, PlainPieces
  <2>d. /\ <<"s">> # <<"{", "}">> /\ <<".">> # <<"{", "}">> /\ <<"*">> # <<"{", "}">>
        /\ <<"{", "{">> # <<"{", "}">> /\ <<"}", "}">> # <<"{", "}">> /\ <<"%", "%">> # <<"{", "}">>
        /\ <<"s">> # <<"{", "0", "}">> /\ <<".">> # <<"{", "0", "}">> /\ <<"*">> # <<"{", "0", "}">>
        /\ <<"{", "{">> # <<"{", "0", "}">> /\ <<"}", "}">> # <<"{", "0", "}">>
        /\ <<"%", "%">> # <<"{", "0", "}">>
    OBVIOUS
  <2>l. FindAt(p, FALSE).at = p
    BY <1>1
  <2> HIDE DEF w
  <2>2. CASE w \in {<<"s">>, <<".">>, <<"*">>}
    <3>1. PICK c \in {"s", ".", "*"} : w = <<c>>
      BY <2>2
    <3>2. Len(w) = 1 /\ \A i \in 1 .. 1 : w[i] = c
      BY <3>1, ShortTexts
    <3>3. piece \notin Replacement
      BY <2>1, <2>2, <2>d
    <3> QED
      BY <1>2, <3>2, <3>3
  <2>3. CASE w \in {<<"}", "}">>, <<"%", "%">>}
    <3>1. PICK c \in {"}", "%"} : w = <<c, c>>
      BY <2>3
    <3>2. Len(w) = 2 /\ \A i \in 1 .. 2 : w[i] \in {c, c}
      BY <3>1, ShortTexts
    <3>3. piece \notin Replacement
      BY <2>1, <2>3, <2>d
    <3> QED
      BY <1>2, <3>2, <3>3
  <2>4. CASE w = <<"{", "{">>
    <3>1. p + 1 <= n /\ At(format, p) = "{" /\ At(format, p + 1) = "{" /\ Len(w) = 2
      BY <2>4, StandsTwo DEF w
    <3>2. piece \notin Replacement
      BY <2>1, <2>4, <2>d
    <3>3. p <= n /\ ~(p > n) /\ p + 2 \in Nat /\ p + 2 > p
      BY <1>a, <1>b, <3>1, Zenon
    <3>4. format[p] = "{"
      BY <3>1, <3>3, AtIs
    <3>5. loop[FindAt(p, FALSE)] = FindAt(p + 2, FALSE)
      BY <1>0, <3>1, <3>3, <3>4, FindRounds
    <3>6. FindAt(p + 2, FALSE).at = p + 2 /\ Trace(t, loop, start, n)
      BY <1>1
    <3> HIDE DEF loop
    <3>7. Reaches(t, FindAt(p + 2, FALSE), n)
      BY <1>0, <2>l, <3>3, <3>5, <3>6, ReachesNext
    <3> QED
      BY <3>1, <3>2, <3>7 DEF Passes, w
  <2>5. CASE w \in {<<"{", "}">>, <<"{", "0", "}">>}
    <3>0. piece \in Replacement
      BY <2>1, <2>5
    <3>1. p + 1 <= n /\ At(format, p) = "{" /\ At(format, p + 1) \in {"}", "0"}
      <4>1. CASE w = <<"{", "}">>
        BY <4>1, StandsTwo, ZenonT(40) DEF w
      <4>2. CASE w = <<"{", "0", "}">>
        <5>1. Len(w) = 3 /\ w[1] = "{" /\ w[2] = "0"
          BY <4>2
        <5>2. p + Len(w) <= n + 1 /\ \A i \in 1 .. Len(w) : format[p + i - 1] = w[i]
          BY DEF StandsAt, w
        <5>3. p + 3 <= n + 1 /\ format[p + 1 - 1] = "{" /\ format[p + 2 - 1] = "0"
          BY <5>1, <5>2, OneToThree
        <5>4. format[p] = "{" /\ format[p + 1] = "0"
          BY <1>a, <5>3
        <5> QED
          BY <1>0, <1>a, <1>c, <5>3, <5>4, AtIs
      <4> QED
        BY <2>5, <4>1, <4>2
    <3>3. p <= n /\ ~(p > n) /\ p + 1 \in Nat /\ p + 1 > p
      BY <1>a, <1>b, <3>1, Zenon
    <3>4. format[p] = "{" /\ At(format, p + 1) # "{" /\ At(format, p + 1) \in {"}"} \cup Digit \cup Alpha
      BY <3>1, <3>3, AtIs DEF Digit
    <3>5. loop[FindAt(p, FALSE)] = FindAt(p + 1, At(format, p + 1) \in {"}"} \cup Digit \cup Alpha)
      BY <1>0, <3>3, <3>4, FindRounds
    <3>6. loop[FindAt(p, FALSE)] = FindAt(p + 1, TRUE)
      BY <3>4, <3>5
    <3>7. FindAt(p + 1, TRUE).at = p + 1 /\ Trace(t, loop, start, n)
      BY <1>1
    <3> HIDE DEF loop
    <3>8. Reaches(t, FindAt(p + 1, TRUE), n)
      BY <1>0, <2>l, <3>3, <3>6, <3>7, ReachesNext
    <3> QED
      BY <3>0, <3>3, <3>8, Zenon DEF Passes
  <2> QED
    BY <2>1, <2>2, <2>3, <2>4, <2>5
<1> QED
  BY <1>3, <1>4 DEF Piece

\* Whatever pieces a format is written from, the C++ scanners tell which of the two kinds it is.
THEOREM TellsFormatsApart ==
    ASSUME NEW format \in Seq(Char), NEW pieces \in Seq(Piece), NEW at, NEW arg,
           LaidOut(format, pieces, at, arg)
    PROVE  UsesPrintfFormat(format) <=> /\ \A i \in 1 .. Len(pieces) : pieces[i] \notin Replacement
                                        /\ \E i \in 1 .. Len(pieces) : pieces[i] \in Percent \cup Convert
<1> DEFINE n == Len(format)
           start == FindAt(1, FALSE)
<1>0. n \in Nat /\ n + 1 \in Nat /\ n + 1 > n /\ start \in FindState
  <2>1. start \in FindState
    BY FindStateFields
  <2>2. n \in Nat
    OBVIOUS
  <2> HIDE DEF n, start
  <2>3. n + 1 \in Nat /\ n + 1 > n
    BY <2>2
  <2> QED
    BY <2>1, <2>2, <2>3
<1>1. HasPrintfConversion(format) <=> \E i \in 1 .. Len(pieces) : pieces[i] \in Percent \cup Convert
  <2> DEFINE loop == PrintfLoop(format)
  <2>1. loop \in [FindState -> FindState]
    BY FindLoopTypes
  <2>2. HasPrintfConversion(format) = Repeat(loop, start, n).found
    BY DEF HasPrintfConversion, PrintfLoop, FindAt
  <2>3. \A q \in Nat : loop[FindAt(q, TRUE)] = FindAt(q, TRUE)
    BY FindRounds
  <2>4. loop[FindAt(n + 1, FALSE)] = FindAt(n + 1, FALSE)
    BY <1>0, FindRounds
  <2>5. PICK t : Trace(t, loop, start, n) /\ Repeat(loop, start, n) = t[n + 1]
    <3> HIDE DEF loop, start
    <3> QED
      BY <1>0, <2>1, RepeatTraces
  <2>6. ASSUME NEW p \in Nat \ {0}, NEW piece \in Piece, StandsAt(format, p, Written(piece)),
               Reaches(t, FindAt(p, FALSE), Len(format))
        PROVE  Passes(t, format, p, piece, Percent \cup Convert)
    BY <2>5, <2>6, PrintfPasses
  <2> HIDE DEF loop
  <2>7. t[n + 1].found <=> \E i \in 1 .. Len(pieces) : pieces[i] \in Percent \cup Convert
    BY <2>3, <2>4, <2>5, <2>6, FindsPieces
  <2> QED
    BY <2>2, <2>5, <2>7
<1>2. HasFmtReplacement(format) <=> \E i \in 1 .. Len(pieces) : pieces[i] \in Replacement
  <2> DEFINE loop == FmtLoop(format)
  <2>1. loop \in [FindState -> FindState]
    BY FindLoopTypes
  <2>2. HasFmtReplacement(format) = Repeat(loop, start, n).found
    BY DEF HasFmtReplacement, FmtLoop, FindAt
  <2>3. \A q \in Nat : loop[FindAt(q, TRUE)] = FindAt(q, TRUE)
    BY FindRounds
  <2>4. loop[FindAt(n + 1, FALSE)] = FindAt(n + 1, FALSE)
    BY <1>0, FindRounds
  <2>5. PICK t : Trace(t, loop, start, n) /\ Repeat(loop, start, n) = t[n + 1]
    <3> HIDE DEF loop, start
    <3> QED
      BY <1>0, <2>1, RepeatTraces
  <2>6. ASSUME NEW p \in Nat \ {0}, NEW piece \in Piece, StandsAt(format, p, Written(piece)),
               Reaches(t, FindAt(p, FALSE), Len(format))
        PROVE  Passes(t, format, p, piece, Replacement)
    BY <2>5, <2>6, FmtPasses
  <2> HIDE DEF loop
  <2>7. t[n + 1].found <=> \E i \in 1 .. Len(pieces) : pieces[i] \in Replacement
    BY <2>3, <2>4, <2>5, <2>6, FindsPieces
  <2> QED
    BY <2>2, <2>5, <2>7
<1> QED
  BY <1>1, <1>2, Zenon DEF UsesPrintfFormat

\* What is meant of two pieces, as far as there are arguments and bits of the mask.
MeantOfTwo(one, two, count) == {v \in Meant(one, two) : v < count /\ v < MaskBits}

\* Two pieces, one behind the other.
LEMMA TwoPieces ==
    ASSUME NEW one \in Piece, NEW two \in Piece, NEW count \in Nat
    PROVE  LET format == Written(one) \o Written(two)
               marked == MarkPrecision(format, count)
               meant  == MeantOfTwo(one, two, count)
           IN  /\ marked \subseteq meant
               /\ HasPlainConversion(format) => marked = meant
               /\ WrittenPlainly(one) \/ WrittenPlainly(two) => HasPlainConversion(format)
               /\ UsesPrintfFormat(format) <=> /\ {one, two} \cap Replacement = {}
                                               /\ {one, two} \cap (Percent \cup Convert) # {}
<1> DEFINE u == Written(one)
           w == Written(two)
           format == u \o w
           pieces == <<one, two>>
           a == Consumes(one)
           b == Consumes(two)
           l == Len(u)
           m == Len(w)
           at == [i \in 1 .. 3 |-> IF i = 1 THEN 1 ELSE IF i = 2 THEN 1 + l ELSE 1 + l + m]
           arg == [i \in 1 .. 3 |-> IF i = 1 THEN 0 ELSE IF i = 2 THEN a ELSE a + b]
           marked == MarkPrecision(format, count)
           meant == MeantOfTwo(one, two, count)
<1>1. u \in Seq(Char) /\ w \in Seq(Char)
  BY WrittenType
<1>2. a \in Nat /\ b \in Nat /\ (Bounded(one) => a >= 1) /\ (Bounded(two) => b >= 1)
  BY ConsumesType
<1> HIDE DEF u, w, a, b
<1>3. format \in Seq(Char) /\ l \in Nat /\ m \in Nat /\ Len(format) = l + m
  BY <1>1
<1>4. StandsAt(format, 1, u) /\ StandsAt(format, 1 + l, w)
  <2>1. StandsAt(format, 1, u \o w)
    <3> DEFINE f == u \o w
    <3>1. Len(f) \in Nat
      BY <1>3
    <3> HIDE DEF f
    <3>2. 1 + Len(f) <= Len(f) + 1 /\ \A i \in 1 .. Len(f) : f[1 + i - 1] = f[i]
      BY <3>1
    <3> QED
      BY <3>2 DEF StandsAt, f
  <2> HIDE DEF l
  <2>2. 1 \in Nat \ {0} /\ Len(format) \in Nat
    BY <1>3
  <2> HIDE DEF format
  <2> QED
    BY <1>1, <2>1, <2>2, StandsParts DEF l
<1>5. pieces \in Seq(Piece) /\ Len(pieces) = 2 /\ pieces[1] = one /\ pieces[2] = two
  OBVIOUS
<1>6. /\ at[1] = 1 /\ at[2] = 1 + l /\ at[3] = 1 + l + m /\ arg[1] = 0 /\ arg[2] = a /\ arg[3] = a + b
  OBVIOUS
<1>7. at \in [1 .. 3 -> Nat \ {0}] /\ arg \in [1 .. 3 -> Nat]
  <2> HIDE DEF l, m
  <2>1. 1 + l \in Nat \ {0} /\ 1 + l + m \in Nat \ {0} /\ a + b \in Nat /\ a \in Nat
    BY <1>2, <1>3
  <2> QED
    BY <2>1
<1>8. 1 .. 2 = {1, 2}
  OBVIOUS
<1> HIDE DEF format, pieces, at, arg
<1>9. LaidOut(format, pieces, at, arg)
  <2> HIDE DEF l, m
  <2>1. 2 + 1 = 3 /\ 1 + 1 = 2 /\ 1 + l + m = Len(format) + 1 /\ 0 + a = a
    BY <1>2, <1>3
  <2>2. /\ StandsAt(format, at[1], u) /\ at[1 + 1] = at[1] + l /\ arg[1 + 1] = arg[1] + a
        /\ StandsAt(format, at[2], w) /\ at[2 + 1] = at[2] + m /\ arg[2 + 1] = arg[2] + b
    BY <1>4, <1>6, <2>1
  <2>3. ASSUME NEW i \in 1 .. Len(pieces)
        PROVE  /\ StandsAt(format, at[i], Written(pieces[i]))
               /\ at[i + 1] = at[i] + Len(Written(pieces[i]))
               /\ arg[i + 1] = arg[i] + Consumes(pieces[i])
    <3>1. i = 1 \/ i = 2
      BY <1>5, <1>8
    <3> QED
      BY <1>5, <2>2, <3>1 DEF u, w, a, b, l, m
  <2>4. at[Len(pieces) + 1] = Len(format) + 1
    BY <1>5, <1>6, <2>1
  <2> QED
    BY <1>5, <1>6, <1>7, <2>1, <2>3, <2>4 DEF LaidOut
<1>10. /\ marked \subseteq MeantOf(pieces, arg, count, 2)
       /\ HasPlainConversion(format) => marked = MeantOf(pieces, arg, count, 2)
       /\ (\E i \in 1 .. 2 : WrittenPlainly(pieces[i])) => HasPlainConversion(format)
  <2>1. \A f \in Seq(Char) : \A q \in Seq(Piece) : \A c \in Nat : \A x, y :
          LaidOut(f, q, x, y) =>
            /\ MarkPrecision(f, c) \subseteq MeantOf(q, y, c, Len(q))
            /\ HasPlainConversion(f) => MarkPrecision(f, c) = MeantOf(q, y, c, Len(q))
            /\ (\E i \in 1 .. Len(q) : WrittenPlainly(q[i])) => HasPlainConversion(f)
    BY MarksWhatIsMeant, Zenon
  <2> DEFINE k == Len(pieces)
  <2>2. format \in Seq(Char) /\ pieces \in Seq(Piece) /\ k = 2
    BY <1>3, <1>5
  <2> HIDE DEF l, m, a, b
  <2>3. /\ marked \subseteq MeantOf(pieces, arg, count, k)
        /\ HasPlainConversion(format) => marked = MeantOf(pieces, arg, count, k)
        /\ (\E i \in 1 .. k : WrittenPlainly(pieces[i])) => HasPlainConversion(format)
    BY <1>9, <2>1, <2>2, ZenonT(40)
  <2> HIDE DEF k, marked
  <2> QED
    BY <2>2, <2>3, ZenonT(40)
<1>11. ASSUME NEW v
       PROVE  v \in MeantOf(pieces, arg, count, 2) <=> v \in Meant(one, two) /\ v < count /\ v < MaskBits
  <2>1. (\E i \in 1 .. 2 : Bounded(pieces[i]) /\ v = arg[i + 1] - 1)
          <=> (Bounded(one) /\ v = a - 1) \/ (Bounded(two) /\ v = a + b - 1)
    <3>1. arg[1 + 1] - 1 = a - 1 /\ arg[2 + 1] - 1 = a + b - 1
      BY <1>2, <1>6
    <3> QED
      BY <1>5, <1>8, <3>1
  <2>2. v \in Meant(one, two) <=> (Bounded(one) /\ v = a - 1) \/ (Bounded(two) /\ v = a + b - 1)
    BY DEF Meant, a, b
  <2>3. (Bounded(one) /\ v = a - 1) \/ (Bounded(two) /\ v = a + b - 1) => v \in Nat
    BY <1>2
  <2>4. v \in MeantOf(pieces, arg, count, 2) <=>
          /\ v \in Nat /\ v < count /\ v < MaskBits
          /\ \E i \in 1 .. 2 : Bounded(pieces[i]) /\ v = arg[i + 1] - 1
    BY DEF MeantOf
  <2> QED
    BY <2>1, <2>2, <2>3, <2>4, Zenon
<1>12. MeantOf(pieces, arg, count, 2) = meant
  BY <1>11 DEF MeantOfTwo
<1>13. UsesPrintfFormat(format) <=> /\ \A i \in 1 .. 2 : pieces[i] \notin Replacement
                                    /\ \E i \in 1 .. 2 : pieces[i] \in Percent \cup Convert
  BY <1>3, <1>5, <1>9, TellsFormatsApart
<1>14. /\ (\A i \in 1 .. 2 : pieces[i] \notin Replacement) <=> {one, two} \cap Replacement = {}
       /\ (\E i \in 1 .. 2 : pieces[i] \in Percent \cup Convert)
            <=> {one, two} \cap (Percent \cup Convert) # {}
  BY <1>5, <1>8
<1>15. WrittenPlainly(one) \/ WrittenPlainly(two) => \E i \in 1 .. 2 : WrittenPlainly(pieces[i])
  BY <1>5, <1>8
<1> HIDE DEF marked, meant
<1>16. /\ marked \subseteq meant
       /\ HasPlainConversion(format) => marked = meant
       /\ WrittenPlainly(one) \/ WrittenPlainly(two) => HasPlainConversion(format)
  BY <1>10, <1>12, <1>15, Zenon
<1>17. UsesPrintfFormat(format) <=> /\ {one, two} \cap Replacement = {}
                                    /\ {one, two} \cap (Percent \cup Convert) # {}
  BY <1>13, <1>14
<1> QED
  BY <1>16, <1>17, Zenon DEF format, u, w, marked, meant

\* Two pieces take six arguments at most.
LEMMA MeantIsSmall ==
    ASSUME NEW one \in Piece, NEW two \in Piece
    PROVE  Meant(one, two) \subseteq 0 .. 5
<1> DEFINE a == Consumes(one)
           b == Consumes(two)
<1>1. a \in 0 .. 3 /\ b \in 0 .. 3 /\ (Bounded(one) => a >= 1) /\ (Bounded(two) => b >= 1)
  <2>1. ASSUME NEW piece \in Piece PROVE Consumes(piece) \in 0 .. 3
    <3>1. CASE piece \in Convert
      BY <3>1, ConsumesOf
    <3>2. CASE piece \in Literal \cup Replacement \cup Percent
      <4>1. Consumes(piece) = 0
        BY <3>2, PlainPieces
      <4> QED
        BY <4>1
    <3> QED
      BY <3>1, <3>2 DEF Piece
  <2> QED
    BY <2>1, ConsumesType
<1>2. Meant(one, two) = (IF Bounded(one) THEN {a - 1} ELSE {}) \cup (IF Bounded(two) THEN {a + b - 1} ELSE {})
  BY DEF Meant
<1> HIDE DEF a, b
<1>3. (Bounded(one) => a - 1 \in 0 .. 5) /\ (Bounded(two) => a + b - 1 \in 0 .. 5)
  BY <1>1
<1> QED
  BY <1>2, <1>3

=============================================================================
