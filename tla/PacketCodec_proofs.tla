-------------------------- MODULE PacketCodec_proofs --------------------------
(***************************************************************************)
(* Proofs about PacketCodec: what each packer writes it reads back, a      *)
(* packet of them is read back field by field, and so the bytes an         *)
(* application or a camera packs stand for what was sent (IInv).           *)
(***************************************************************************)
EXTENDS PacketCodec, SequenceTheorems, WellFoundedInduction, TLAPS

-----------------------------------------------------------------------------
(* Recursion and induction.                                                *)

\* A set of naturals that is not empty has a least element.
LEMMA SmallestOf ==
    ASSUME NEW S \in SUBSET Nat, S # {}
    PROVE  \E x \in S : \A y \in S : x <= y
  <1>1. \E x \in S : \A y \in S : <<y, x>> \notin OpToRel(<, Nat)
    BY NatLessThanWellFounded, WFMin, Zenon
  <1>2. PICK x \in S : \A y \in S : <<y, x>> \notin OpToRel(<, Nat)
    BY <1>1
  <1>3. \A y \in S : ~(y < x) /\ y \in Nat /\ x \in Nat
    BY <1>2 DEF OpToRel
  <1>4. \A y \in S : x <= y
    BY <1>3
  <1> QED
    BY <1>4

\* A set that holds 0 and with every natural the next holds them all.
LEMMA Induct ==
    ASSUME NEW S \in SUBSET Nat, 0 \in S, \A n \in S : n + 1 \in S
    PROVE  S = Nat
  <1> SUFFICES ASSUME Nat \ S # {} PROVE FALSE
    OBVIOUS
  <1>1. PICK m \in Nat \ S : \A y \in Nat \ S : m <= y
    BY SmallestOf
  <1>2. m - 1 \in S
    BY <1>1
  <1> QED
    BY <1>1, <1>2

\* f is what n steps make of base, all in D.
Iterates(f, D, base, n, step) ==
    /\ f \in [0..n -> D]
    /\ f[0] = base
    /\ \A k \in 1..n : f[k] = step[k][f[k - 1]]

\* A step that keeps a set can be iterated: what the recursive functions of the
\* packers need to exist.
LEMMA IterationExists ==
    ASSUME NEW D, NEW base \in D, NEW n \in Nat, NEW step \in [1..n -> [D -> D]]
    PROVE  \E f : Iterates(f, D, base, n, step)
  <1> DEFINE P(m) == \E f \in [0..m -> D] :
                         f[0] = base /\ \A k \in 1..m : f[k] = step[k][f[k - 1]]
             S == {m \in Nat : m <= n => P(m)}
  <1>1. P(0)
    <2> DEFINE f == [k \in 0..0 |-> base]
    <2>1. f \in [0..0 -> D] /\ f[0] = base /\ \A k \in 1..0 : f[k] = step[k][f[k - 1]]
      OBVIOUS
    <2> QED
      BY <2>1
  <1>2. ASSUME NEW m \in S PROVE m + 1 \in S
    <2> SUFFICES ASSUME m + 1 <= n PROVE P(m + 1)
      <3> HIDE DEF P
      <3> QED  BY <1>2
    <2>1. m \in Nat /\ m <= n /\ m + 1 \in 1..n
      BY <1>2
    <2>2. PICK f \in [0..m -> D] : f[0] = base /\ \A k \in 1..m : f[k] = step[k][f[k - 1]]
      BY <1>2, <2>1
    <2> DEFINE g == [k \in 0..m + 1 |-> IF k = m + 1 THEN step[m + 1][f[m]] ELSE f[k]]
    <2>3. f[m] \in D /\ step[m + 1][f[m]] \in D
      BY <2>1, <2>2
    <2>4. \A k \in 0..m + 1 : k = m + 1 \/ k \in 0..m
      BY <2>1
    <2>5. g \in [0..m + 1 -> D]
      BY <2>2, <2>3, <2>4
    <2>6. g[0] = base
      BY <2>1, <2>2
    <2>7. ASSUME NEW k \in 1..m + 1
          PROVE  g[k] = step[k][g[k - 1]]
      <3>1. k \in 0..m + 1 /\ k - 1 \in 0..m + 1 /\ k - 1 # m + 1
        BY <2>1
      <3>2. CASE k = m + 1
        <4>1. k - 1 = m
          BY <2>1, <3>2
        <4> QED
          BY <3>1, <3>2, <4>1
      <3>3. CASE k # m + 1
        <4>1. k \in 1..m
          BY <2>1, <3>3
        <4> QED
          BY <2>2, <3>1, <3>3, <4>1
      <3> QED
        BY <3>2, <3>3
    <2> QED
      <3> HIDE DEF g
      <3> QED  BY <2>5, <2>6, <2>7
  <1>3. S = Nat
    <2> HIDE DEF P
    <2>1. 0 \in S /\ S \in SUBSET Nat
      BY <1>1
    <2> QED
      BY <1>2, <2>1, Induct
  <1> QED
    <2>1. n \in S
      BY <1>3
    <2> QED
      BY <2>1 DEF Iterates

-----------------------------------------------------------------------------
(* Integers.                                                               *)

\* What the codec assumes of a byte and of an int.
LEMMA Sizes ==
    /\ Base \in Nat /\ Base >= 2 /\ Half \in Nat /\ Half >= 1 /\ Base = 2 * Half
    /\ Word \in Nat /\ Word >= 2 /\ Long \in Nat /\ Long = 2 * Word
    /\ MaxChars \in Nat /\ MaxChars = Base - 2
  BY CodecAssumption DEF Half, Long

\* The powers of the base are the numbers they are meant to be.
LEMMA PowerIs ==
    /\ Power[0] = 1
    /\ \A n \in 1..Long : Power[n] = Base * Power[n - 1]
    /\ \A n \in 0..Long : Power[n] \in Nat /\ Power[n] >= 1
  <1> DEFINE R(f) == f = [n \in 0..Long |-> IF n = 0 THEN 1 ELSE Base * f[n - 1]]
             step == [k \in 1..Long |-> [d \in Nat |-> Base * d]]
  <1>0. Base \in Nat /\ Base >= 2 /\ Long \in Nat
    BY Sizes
  <1>1. PICK f : Iterates(f, Nat, 1, Long, step)
    <2>1. step \in [1..Long -> [Nat -> Nat]]
      BY <1>0
    <2>3. 1 \in Nat /\ Long \in Nat
      BY <1>0
    <2> HIDE DEF step
    <2> QED
      BY <2>1, <2>3, IterationExists, Zenon
  <1>2. \A k \in 0..Long : k = 0 \/ (k \in 1..Long /\ k - 1 \in 0..Long /\ k # 0)
    BY <1>0
  <1>3. \A k \in 1..Long : f[k] = Base * f[k - 1]
    <2>1. \A k \in 1..Long : f[k - 1] \in Nat
      BY <1>0, <1>1 DEF Iterates
    <2> QED
      BY <1>1, <2>1 DEF Iterates
  <1>4. R(f)
    BY <1>1, <1>2, <1>3 DEF Iterates
  <1>5. R(Power)
    <2>1. Power = CHOOSE g : R(g)
      BY DEF Power
    <2> HIDE DEF R
    <2> QED
      BY <1>4, <2>1
  <1>6. Power[0] = 1 /\ \A n \in 1..Long : Power[n] = Base * Power[n - 1]
    <2>1. 0 \in 0..Long /\ \A n \in 1..Long : n \in 0..Long /\ n # 0
      BY <1>0
    <2> QED
      BY <1>5, <2>1
  <1>7. \A n \in 0..Long : Power[n] \in Nat /\ Power[n] >= 1
    <2> DEFINE S == {n \in Nat : n <= Long => Power[n] \in Nat /\ Power[n] >= 1}
    <2>1. 0 \in S
      BY <1>6
    <2>2. ASSUME NEW n \in S PROVE n + 1 \in S
      <3> SUFFICES ASSUME n + 1 <= Long PROVE Power[n + 1] \in Nat /\ Power[n + 1] >= 1
        BY <2>2
      <3>1. n \in Nat /\ n + 1 \in 1..Long /\ n + 1 - 1 = n
        BY <2>2
      <3>2. Power[n + 1] = Base * Power[n]
        BY <1>6, <3>1
      <3>3. Power[n] \in Nat /\ Power[n] >= 1
        BY <1>0, <2>2
      <3> QED
        BY <1>0, <3>2, <3>3
    <2>3. S = Nat
      BY <2>1, <2>2, Induct
    <2> QED
      BY <2>3
  <1> QED
    BY <1>6, <1>7

\* A wider integer holds no less.
LEMMA PowerGrows ==
    ASSUME NEW n \in 0..Long, NEW m \in 0..n
    PROVE  Power[m] <= Power[n]
  <1> DEFINE S == {k \in Nat : m + k <= Long => Power[m] <= Power[m + k]}
  <1>0. Base \in Nat /\ Base >= 2 /\ Long \in Nat
    BY Sizes
  <1>1. 0 \in S
    BY <1>0, PowerIs
  <1>2. ASSUME NEW k \in S PROVE k + 1 \in S
    <2> SUFFICES ASSUME m + (k + 1) <= Long PROVE Power[m] <= Power[m + (k + 1)]
      BY <1>2
    <2>1. m + (k + 1) \in 1..Long /\ m + (k + 1) - 1 = m + k /\ m + k \in 0..Long
      BY <1>0, <1>2
    <2>2. Power[m + (k + 1)] = Base * Power[m + k] /\ Power[m + k] \in Nat /\ Power[m] \in Nat
      BY <1>0, <2>1, PowerIs
    <2>3. Base * Power[m + k] >= Power[m + k]
      BY <1>0, <2>2
    <2>4. Power[m] <= Power[m + k]
      BY <1>2, <2>1
    <2> QED
      BY <1>0, <2>2, <2>3, <2>4
  <1>3. S = Nat
    BY <1>1, <1>2, Induct
  <1>4. \A k \in Nat : m + k <= Long => Power[m] <= Power[m + k]
    BY <1>3
  <1> DEFINE d == n - m
  <1>5. d \in Nat /\ m + d = n /\ m + d <= Long
    BY <1>0
  <1> HIDE DEF d
  <1> QED
    BY <1>4, <1>5

\* A digit and what is above it make the number.
LEMMA Digits ==
    ASSUME NEW x \in Nat
    PROVE  /\ x % Base \in Byte /\ x \div Base \in Nat
           /\ x = (x % Base) + Base * (x \div Base)
           /\ \A c \in Nat : x < c * Base => x \div Base < c
  <1>1. Base \in Nat /\ Base > 0
    BY Sizes
  <1>2. x % Base \in Byte /\ x \div Base \in Nat
    BY <1>1 DEF Byte
  <1>3. x = Base * (x \div Base) + (x % Base)
    BY <1>1
  <1>4. \A c \in Nat : x < c * Base => x \div Base < c
    BY <1>1
  <1>5. Base * (x \div Base) \in Nat /\ x % Base \in Nat
    BY <1>1, <1>2 DEF Byte
  <1> QED
    BY <1>2, <1>3, <1>4, <1>5

\* The lowest byte of a number made of a byte and what is above it.
LEMMA LowByte ==
    ASSUME NEW x \in Byte, NEW h \in Nat
    PROVE  (x + Base * h) % Base = x
  <1>1. Base \in Nat /\ Base > 0 /\ x \in 0..(Base - 1)
    BY Sizes DEF Byte
  <1>2. ASSUME NEW B \in Nat, B > 0, NEW s \in 0..(B - 1) PROVE (s + B * h) % B = s
    BY <1>2
  <1> QED
    BY <1>1, <1>2

\* A byte is its own lowest byte.
LEMMA ByteItself ==
    ASSUME NEW x \in Byte
    PROVE  x % Base = x
  <1>1. x + Base * 0 = x
    BY Sizes DEF Byte
  <1>2. (x + Base * 0) % Base = x
    BY LowByte
  <1> QED
    BY <1>1, <1>2

\* value >> i * 8 for every i.
Shifted(v, width) ==
    CHOOSE f : f = [i \in 0..width |-> IF i = 0 THEN v ELSE f[i - 1] \div Base]

\* Primitive::pack shifts the value on, a byte each time.
LEMMA ShiftedIs ==
    ASSUME NEW v \in Nat, NEW width \in Nat
    PROVE  /\ WriteInt(v, width) = [i \in 1..width |-> Shifted(v, width)[i - 1] % Base]
           /\ Shifted(v, width)[0] = v
           /\ \A i \in 1..width : Shifted(v, width)[i] = Shifted(v, width)[i - 1] \div Base
           /\ \A i \in 0..width : Shifted(v, width)[i] \in Nat
  <1> DEFINE R(f) == f = [i \in 0..width |-> IF i = 0 THEN v ELSE f[i - 1] \div Base]
             step == [k \in 1..width |-> [d \in Nat |-> d \div Base]]
             sh == Shifted(v, width)
  <1>0. Base \in Nat /\ Base >= 2
    BY Sizes
  <1>1. PICK f : Iterates(f, Nat, v, width, step)
    <2>1. step \in [1..width -> [Nat -> Nat]]
      BY <1>0
    <2>3. v \in Nat /\ width \in Nat
      BY <1>0
    <2> HIDE DEF step
    <2> QED
      BY <2>1, <2>3, IterationExists, Zenon
  <1>2. \A k \in 0..width : k = 0 \/ (k \in 1..width /\ k - 1 \in 0..width /\ k # 0)
    BY <1>0
  <1>3. \A k \in 1..width : f[k] = f[k - 1] \div Base
    <2>1. \A k \in 1..width : f[k - 1] \in Nat
      BY <1>0, <1>1 DEF Iterates
    <2> QED
      BY <1>1, <2>1 DEF Iterates
  <1>4. R(f)
    BY <1>1, <1>2, <1>3 DEF Iterates
  <1>5. R(sh)
    <2>1. sh = CHOOSE g : R(g)
      BY DEF Shifted
    <2> HIDE DEF R, sh
    <2> QED
      BY <1>4, <2>1
  <1>6. sh[0] = v /\ \A i \in 1..width : sh[i] = sh[i - 1] \div Base
    <2>1. 0 \in 0..width /\ \A i \in 1..width : i \in 0..width /\ i # 0
      OBVIOUS
    <2> HIDE DEF sh
    <2> QED
      BY <1>5, <2>1
  <1>7. \A i \in 0..width : sh[i] \in Nat
    <2> DEFINE S == {i \in Nat : i <= width => sh[i] \in Nat}
    <2> HIDE DEF sh
    <2>1. 0 \in S
      BY <1>6
    <2>2. ASSUME NEW i \in S PROVE i + 1 \in S
      <3> SUFFICES ASSUME i + 1 <= width PROVE sh[i + 1] \in Nat
        BY <2>2
      <3>1. i \in Nat /\ i + 1 \in 1..width /\ i + 1 - 1 = i /\ sh[i] \in Nat
        BY <2>2
      <3>2. sh[i + 1] = sh[i] \div Base
        BY <1>6, <3>1
      <3>3. sh[i] \div Base \in Nat
        BY <3>1, Digits
      <3> QED
        BY <3>2, <3>3, Zenon
    <2>3. S = Nat
      BY <2>1, <2>2, Induct
    <2> QED
      BY <2>3
  <1>8. WriteInt(v, width) = [i \in 1..width |-> sh[i - 1] % Base]
    BY DEF WriteInt, Shifted
  <1> QED
    BY <1>6, <1>7, <1>8

\* What is left of a number below c * Base^i after i bytes is below c.
LEMMA ShiftedBelow ==
    ASSUME NEW v \in Nat, NEW width \in 0..Long, NEW i \in 0..width, NEW c \in Nat,
           v < c * Power[i]
    PROVE  Shifted(v, width)[i] < c
  <1> DEFINE sh == Shifted(v, width)
             S == {k \in Nat : k <= width => \A d \in Nat : v < d * Power[k] => sh[k] < d}
  <1>0. Base \in Nat /\ Base >= 2 /\ Long \in Nat /\ width \in Nat
    BY Sizes
  <1>1. /\ sh[0] = v
        /\ \A k \in 1..width : sh[k] = sh[k - 1] \div Base
        /\ \A k \in 0..width : sh[k] \in Nat
    BY <1>0, ShiftedIs
  <1> HIDE DEF sh
  <1>2. 0 \in S
    BY <1>1, PowerIs
  <1>3. ASSUME NEW k \in S PROVE k + 1 \in S
    <2> SUFFICES ASSUME k + 1 <= width, NEW d \in Nat, v < d * Power[k + 1]
                 PROVE  sh[k + 1] < d
      BY <1>3
    <2>1. k \in Nat /\ k + 1 \in 1..Long /\ k + 1 \in 1..width /\ k + 1 - 1 = k /\ k \in 0..Long
      BY <1>0, <1>3
    <2>2. Power[k + 1] = Base * Power[k] /\ Power[k] \in Nat
      BY <2>1, PowerIs
    <2>3. d * Power[k + 1] = (d * Base) * Power[k] /\ d * Base \in Nat
      BY <1>0, <2>2
    <2>4. sh[k] < d * Base
      <3>1. \A e \in Nat : v < e * Power[k] => sh[k] < e
        BY <1>3, <2>1
      <3> QED
        BY <2>3, <3>1
    <2>5. sh[k] \in Nat /\ sh[k + 1] = sh[k] \div Base
      BY <1>1, <2>1
    <2> QED
      BY <2>4, <2>5, Digits
  <1>4. S = Nat
    BY <1>2, <1>3, Induct
  <1> QED
    BY <1>0, <1>4 DEF sh

\* How many bytes an integer finds before the limit.
Taken(at, limit, width) == IF at < limit THEN Least(width, limit - at) ELSE 0

\* The values of the last k of n bytes, for every k.
Value(b, at, n) ==
    CHOOSE f : f = [k \in 0..n |-> IF k = 0 THEN 0 ELSE b[at + n - k + 1] + Base * f[k - 1]]

\* Primitive::unpack in the terms of the proofs.
LEMMA ReadIntIs ==
    ASSUME NEW b, NEW at, NEW limit, NEW width
    PROVE  LET n == Taken(at, limit, width)
           IN  ReadInt(b, at, limit, width) =
                 [value |-> IF width > Word /\ n >= Word /\ b[at + Word] >= Half
                            THEN Power[width] - Power[Word] + Value(b, at, n)[n]
                            ELSE Value(b, at, n)[n],
                  at |-> at + n]
  BY DEF ReadInt, Taken, Value

\* Each byte counts Base times what is above it.
LEMMA ValueIs ==
    ASSUME NEW b \in Seq(Byte), NEW at \in Nat, NEW n \in Nat, at + n <= Len(b)
    PROVE  /\ Value(b, at, n)[0] = 0
           /\ \A k \in 1..n : /\ b[at + n - k + 1] \in Byte
                              /\ Value(b, at, n)[k] =
                                    b[at + n - k + 1] + Base * Value(b, at, n)[k - 1]
           /\ \A k \in 0..n : Value(b, at, n)[k] \in Nat
  <1> DEFINE R(f) == f = [k \in 0..n |-> IF k = 0 THEN 0 ELSE b[at + n - k + 1] + Base * f[k - 1]]
             step == [k \in 1..n |-> [d \in Nat |-> b[at + n - k + 1] + Base * d]]
             val == Value(b, at, n)
  <1>0. Base \in Nat /\ Base >= 2
    BY Sizes
  <1>a. \A k \in 1..n : b[at + n - k + 1] \in Byte
    <2>1. \A k \in 1..n : at + n - k + 1 \in 1..Len(b)
      OBVIOUS
    <2> QED
      BY <2>1
  <1>b. \A k \in 1..n : b[at + n - k + 1] \in Nat
    BY <1>0, <1>a DEF Byte
  <1>1. PICK f : Iterates(f, Nat, 0, n, step)
    <2>1. \A k \in 1..n, d \in Nat : b[at + n - k + 1] + Base * d \in Nat
      BY <1>0, <1>b
    <2>2. step \in [1..n -> [Nat -> Nat]]
      BY <2>1
    <2>3. 0 \in Nat /\ n \in Nat
      BY <1>0
    <2> HIDE DEF step
    <2> QED
      BY <2>2, <2>3, IterationExists, Zenon
  <1>2. \A k \in 0..n : k = 0 \/ (k \in 1..n /\ k - 1 \in 0..n /\ k # 0)
    BY <1>0
  <1>3. \A k \in 1..n : f[k] = b[at + n - k + 1] + Base * f[k - 1]
    <2>1. \A k \in 1..n : f[k - 1] \in Nat
      BY <1>0, <1>1 DEF Iterates
    <2> QED
      BY <1>1, <2>1 DEF Iterates
  <1>4. R(f)
    BY <1>1, <1>2, <1>3 DEF Iterates
  <1>5. R(val)
    <2>1. val = CHOOSE g : R(g)
      BY DEF Value
    <2> HIDE DEF R, val
    <2> QED
      BY <1>4, <2>1
  <1>6. val[0] = 0 /\ \A k \in 1..n : val[k] = b[at + n - k + 1] + Base * val[k - 1]
    <2>1. 0 \in 0..n /\ \A k \in 1..n : k \in 0..n /\ k # 0
      OBVIOUS
    <2> HIDE DEF val
    <2> QED
      BY <1>5, <2>1
  <1>7. \A k \in 0..n : val[k] \in Nat
    <2> DEFINE S == {k \in Nat : k <= n => val[k] \in Nat}
    <2> HIDE DEF val
    <2>1. 0 \in S
      BY <1>6
    <2>2. ASSUME NEW k \in S PROVE k + 1 \in S
      <3> SUFFICES ASSUME k + 1 <= n PROVE val[k + 1] \in Nat
        BY <2>2
      <3>1. k \in Nat /\ k + 1 \in 1..n /\ k + 1 - 1 = k /\ val[k] \in Nat
        BY <2>2
      <3>2. val[k + 1] = b[at + n - (k + 1) + 1] + Base * val[k]
        BY <1>6, <3>1
      <3>3. Base * val[k] \in Nat
        BY <1>0, <3>1
      <3>4. b[at + n - (k + 1) + 1] \in Nat
        BY <1>b, <3>1
      <3>5. \A x, y \in Nat : x + y \in Nat
        OBVIOUS
      <3> QED
        BY <3>2, <3>3, <3>4, <3>5, Zenon
    <2>3. S = Nat
      BY <2>1, <2>2, Induct
    <2> QED
      BY <2>3
  <1> QED
    BY <1>a, <1>6, <1>7

\* No bytes have the value 0.
LEMMA NoValue ==
    ASSUME NEW b, NEW at
    PROVE  Value(b, at, 0)[0] = 0
  <1> DEFINE R(f) == f = [k \in 0..0 |-> IF k = 0 THEN 0 ELSE b[at + 0 - k + 1] + Base * f[k - 1]]
             e == Value(b, at, 0)
  <1>1. R([k \in 0..0 |-> 0])
    OBVIOUS
  <1>2. R(e)
    <2>1. e = CHOOSE g : R(g)
      BY DEF Value
    <2> HIDE DEF R, e
    <2> QED
      BY <1>1, <2>1
  <1>3. e[0] = 0
    <2> HIDE DEF e
    <2> QED  BY <1>2
  <1> QED
    BY <1>3

\* k bytes have less than Base^k values.
LEMMA ValueBelow ==
    ASSUME NEW b \in Seq(Byte), NEW at \in Nat, NEW n \in 0..Long, at + n <= Len(b),
           NEW k \in 0..n
    PROVE  Value(b, at, n)[k] < Power[k]
  <1> DEFINE val == Value(b, at, n)
             S == {m \in Nat : m <= n => val[m] < Power[m]}
  <1>0. Base \in Nat /\ Base >= 2 /\ Long \in Nat /\ n \in Nat
    BY Sizes
  <1>1. /\ val[0] = 0
        /\ \A m \in 1..n : /\ b[at + n - m + 1] \in Byte
                           /\ val[m] = b[at + n - m + 1] + Base * val[m - 1]
        /\ \A m \in 0..n : val[m] \in Nat
    BY <1>0, ValueIs
  <1> HIDE DEF val
  <1>2. 0 \in S
    BY <1>1, PowerIs
  <1>3. ASSUME NEW m \in S PROVE m + 1 \in S
    <2> SUFFICES ASSUME m + 1 <= n PROVE val[m + 1] < Power[m + 1]
      BY <1>3
    <2>1. m \in Nat /\ m + 1 \in 1..Long /\ m + 1 \in 1..n /\ m + 1 - 1 = m /\ m \in 0..Long
      BY <1>0, <1>3
    <2>2. Power[m + 1] = Base * Power[m] /\ Power[m] \in Nat
      BY <2>1, PowerIs
    <2> DEFINE d == b[at + n - (m + 1) + 1]
    <2>3. d \in Byte /\ val[m + 1] = d + Base * val[m] /\ val[m] \in Nat
      BY <1>1, <2>1
    <2>4. val[m] < Power[m]
      BY <1>3, <2>1
    <2> HIDE DEF d
    <2>5. val[m] + 1 <= Power[m]
      BY <2>2, <2>3, <2>4
    <2>6. Base * (val[m] + 1) <= Base * Power[m]
      BY <1>0, <2>2, <2>3, <2>5, SMTT(40)
    <2>7. Base * (val[m] + 1) = Base * val[m] + Base
      BY <1>0, <2>3
    <2>8. d \in Nat /\ d < Base
      BY <1>0, <2>3 DEF Byte
    <2> DEFINE x == Base * val[m]
               y == Base * Power[m]
    <2>9. val[m + 1] = d + x /\ Power[m + 1] = y /\ x + Base <= y /\ x \in Nat /\ y \in Nat
      BY <1>0, <2>2, <2>3, <2>6, <2>7
    <2> HIDE DEF x, y
    <2> QED
      BY <1>0, <2>8, <2>9
  <1>4. S = Nat
    BY <1>2, <1>3, Induct
  <1> QED
    BY <1>0, <1>4 DEF val

\* The bytes written for a number that fits have the value of the number.
LEMMA DigitsMakeValue ==
    ASSUME NEW b \in Seq(Byte), NEW at \in Nat, NEW width \in 0..Long, at + width <= Len(b),
           NEW v \in Nat, v < Power[width],
           \A j \in 1..width : b[at + j] = WriteInt(v, width)[j]
    PROVE  Value(b, at, width)[width] = v
  <1> DEFINE val == Value(b, at, width)
             sh == Shifted(v, width)
             S == {m \in Nat : m <= width => val[m] = sh[width - m]}
  <1>0. Base \in Nat /\ Base >= 2 /\ Long \in Nat /\ width \in Nat
    BY Sizes
  <1>1. /\ val[0] = 0
        /\ \A m \in 1..width : val[m] = b[at + width - m + 1] + Base * val[m - 1]
    BY <1>0, ValueIs
  <1>2. /\ sh[0] = v
        /\ \A m \in 1..width : sh[m] = sh[m - 1] \div Base
        /\ \A m \in 0..width : sh[m] \in Nat
        /\ WriteInt(v, width) = [m \in 1..width |-> sh[m - 1] % Base]
    BY <1>0, ShiftedIs
  <1>3. sh[width] = 0
    <2>1. Power[width] \in Nat /\ width \in 0..width /\ 1 \in Nat
      BY <1>0, PowerIs
    <2>2. \A c \in Nat : v < c * Power[width] => Shifted(v, width)[width] < c
      BY <2>1, ShiftedBelow
    <2>3. v < 1 * Power[width]
      BY <2>1
    <2>4. sh[width] < 1
      BY <2>1, <2>2, <2>3, Zenon
    <2>5. sh[width] \in Nat
      BY <1>0, <1>2
    <2> HIDE DEF sh
    <2> QED
      BY <2>4, <2>5
  <1> HIDE DEF val, sh
  <1>4. 0 \in S
    BY <1>0, <1>1, <1>3
  <1>5. ASSUME NEW m \in S PROVE m + 1 \in S
    <2> SUFFICES ASSUME m + 1 <= width PROVE val[m + 1] = sh[width - (m + 1)]
      BY <1>5
    <2> DEFINE j == width - m
    <2>1. /\ m \in Nat /\ m + 1 \in 1..width /\ m + 1 - 1 = m
          /\ j \in 1..width /\ width - (m + 1) = j - 1 /\ j - 1 \in 0..width
          /\ at + width - (m + 1) + 1 = at + j
      BY <1>0, <1>5
    <2>2. val[m] = sh[j]
      BY <1>5, <2>1
    <2> HIDE DEF j
    <2>3. val[m + 1] = b[at + width - (m + 1) + 1] + Base * val[m]
      BY <1>1, <2>1
    <2>4. b[at + j] = sh[j - 1] % Base
      BY <1>2, <2>1
    <2>5. sh[j] = sh[j - 1] \div Base /\ sh[j - 1] \in Nat
      BY <1>2, <2>1
    <2>6. sh[j - 1] = (sh[j - 1] % Base) + Base * (sh[j - 1] \div Base)
      BY <2>5, Digits
    <2>7. val[m + 1] = b[at + j] + Base * val[m]
      BY <2>1, <2>3
    <2>8. val[m + 1] = (sh[j - 1] % Base) + Base * (sh[j - 1] \div Base)
      BY <2>2, <2>4, <2>5, <2>7
    <2> QED
      BY <2>1, <2>6, <2>8
  <1>6. S = Nat
    BY <1>4, <1>5, Induct
  <1>7. val[width] = sh[0]
    <2>1. width \in S /\ width - width = 0
      BY <1>0, <1>6
    <2>2. val[width] = sh[width - width]
      BY <1>0, <2>1
    <2> QED
      BY <2>1, <2>2
  <1> QED
    BY <1>2, <1>7 DEF val

\* Primitive: an integer that fits its width is read back, wherever it stands.
LEMMA IntReadsBack ==
    ASSUME NEW b \in Seq(Byte), NEW at \in Nat, NEW limit \in 0..Len(b),
           NEW width \in 1..Word, at + width <= limit, NEW v \in Nat, v < Power[width],
           \A j \in 1..width : b[at + j] = WriteInt(v, width)[j]
    PROVE  ReadInt(b, at, limit, width) = [value |-> v, at |-> at + width]
  <1>0. Word \in Nat /\ Long = 2 * Word /\ width \in Nat /\ limit \in Nat /\ Len(b) \in Nat
    BY Sizes
  <1>1. width \in 0..Long /\ at + width <= Len(b) /\ ~(width > Word) /\ at < limit
    BY <1>0
  <1>2. Taken(at, limit, width) = width
    BY <1>0, <1>1 DEF Taken, Least
  <1>3. Value(b, at, width)[width] = v
    BY <1>1, DigitsMakeValue
  <1> QED
    BY <1>1, <1>2, <1>3, ReadIntIs

\* Primitive<uint64_t>: a number below 2^31 is read back.
LEMMA LongReadsBack ==
    ASSUME NEW b \in Seq(Byte), NEW at \in Nat, NEW limit \in 0..Len(b),
           at + Long <= limit, NEW v \in Nat, v < Power[Word] \div 2,
           \A j \in 1..Long : b[at + j] = WriteInt(v, Long)[j]
    PROVE  ReadInt(b, at, limit, Long) = [value |-> v, at |-> at + Long]
  <1>0. /\ Word \in Nat /\ Word >= 2 /\ Long = 2 * Word /\ Long \in Nat /\ limit \in Nat
        /\ Len(b) \in Nat /\ Base \in Nat /\ Half \in Nat /\ Base = 2 * Half
    BY Sizes
  <1>1. Long \in 0..Long /\ at + Long <= Len(b) /\ Long > Word /\ at < limit
        /\ Word \in 1..Long /\ Word - 1 \in 0..Long
    BY <1>0
  <1>2. Taken(at, limit, Long) = Long
    BY <1>0, <1>1 DEF Taken, Least
  <1>3. Power[Word] = Base * Power[Word - 1] /\ Power[Word - 1] \in Nat /\ Power[Word] \in Nat
    BY <1>1, PowerIs
  <1>4. v < Half * Power[Word - 1]
    <2>0. \A x, y \in Nat : (2 * x) * y = 2 * (x * y) /\ x * y \in Nat
      OBVIOUS
    <2>1. Power[Word] = 2 * (Half * Power[Word - 1]) /\ Half * Power[Word - 1] \in Nat
      BY <1>0, <1>3, <2>0, Zenon
    <2> DEFINE h == Half * Power[Word - 1]
    <2>2. Power[Word] = 2 * h /\ h \in Nat
      BY <2>1
    <2> HIDE DEF h
    <2>3. Power[Word] \div 2 = h
      BY <2>2
    <2> QED
      BY <2>3 DEF h
  <1>5. b[at + Word] < Half
    <2> DEFINE x == Shifted(v, Long)[Word - 1]
    <2>1. b[at + Word] = x % Base
      <3>1. WriteInt(v, Long) = [i \in 1..Long |-> Shifted(v, Long)[i - 1] % Base]
        BY <1>0, ShiftedIs
      <3> QED
        BY <1>1, <3>1
    <2>2. x < Half
      BY <1>0, <1>1, <1>4, ShiftedBelow
    <2>3. x \in Nat
      BY <1>0, <1>1, ShiftedIs
    <2> HIDE DEF x
    <2>4. x \in Byte
      BY <1>0, <2>2, <2>3 DEF Byte
    <2>5. x % Base = x
      BY <2>4, ByteItself
    <2> QED
      BY <2>1, <2>2, <2>5
  <1>6. v < Power[Long]
    <2>1. Power[Word] <= Power[Long] /\ Power[Long] \in Nat
      <3>1. Long \in 0..Long /\ Word \in 0..Long
        BY <1>0
      <3> QED
        BY <3>1, PowerGrows, PowerIs
    <2>2. Power[Word] \div 2 <= Power[Word]
      BY <1>3
    <2> QED
      BY <1>3, <2>1, <2>2
  <1>7. Value(b, at, Long)[Long] = v
    BY <1>1, <1>6, DigitsMakeValue
  <1>8. ~(b[at + Word] >= Half)
    <2>1. b[at + Word] \in Nat
      <3>1. at + Word \in 1..Len(b)
        BY <1>0, <1>1
      <3>2. b[at + Word] \in Byte
        BY <3>1
      <3> QED
        BY <1>0, <3>2 DEF Byte
    <2> QED
      BY <1>0, <1>5, <2>1
  <1> QED
    BY <1>2, <1>7, <1>8, ReadIntIs

\* Whatever the bytes are, an integer of that width is read from them.
LEMMA IntIsTyped ==
    ASSUME NEW b \in Seq(Byte), NEW at \in Nat, NEW limit \in 0..Len(b), NEW width \in 1..Long
    PROVE  /\ ReadInt(b, at, limit, width).at \in Nat
           /\ ReadInt(b, at, limit, width).value \in Nat
           /\ width <= Word => ReadInt(b, at, limit, width).value < Power[width]
  <1> DEFINE n == Taken(at, limit, width)
             val == Value(b, at, n)[n]
             r == ReadInt(b, at, limit, width)
  <1>0. Word \in Nat /\ Long = 2 * Word /\ Long \in Nat /\ Word >= 2
    BY Sizes
  <1>1. n \in Nat /\ n <= width /\ n \in 0..Long /\ (at + n <= Len(b) \/ n = 0)
    BY <1>0 DEF Taken, Least
  <1>2. r = [value |-> IF width > Word /\ n >= Word /\ b[at + Word] >= Half
                       THEN Power[width] - Power[Word] + val ELSE val,
             at |-> at + n]
    BY ReadIntIs
  <1>3. val \in Nat /\ val < Power[n]
    <2>1. CASE at + n <= Len(b)
      <3>1. Value(b, at, n)[n] < Power[n]
        <4> HIDE DEF n
        <4>1. n \in 0..n
          BY <1>1
        <4> QED  BY <1>1, <2>1, <4>1, ValueBelow
      <3>2. Value(b, at, n)[n] \in Nat
        <4> HIDE DEF n
        <4>1. n \in 0..n
          BY <1>1
        <4> QED  BY <1>1, <2>1, <4>1, ValueIs
      <3> QED
        BY <3>1, <3>2
    <2>2. CASE n = 0
      <3>1. val = Value(b, at, 0)[0]
        BY <2>2
      <3> HIDE DEF n, val
      <3> QED
        BY <2>2, <3>1, NoValue, PowerIs
    <2> QED
      BY <1>1, <2>1, <2>2
  <1>4. Power[n] <= Power[width] /\ Power[width] \in Nat /\ Power[n] \in Nat
    <2> HIDE DEF n
    <2> QED  BY <1>0, <1>1, PowerGrows, PowerIs
  <1>5. width > Word => Power[Word] <= Power[width] /\ Power[Word] \in Nat
    BY <1>0, PowerGrows, PowerIs
  <1>6. r.at \in Nat
    <2> HIDE DEF n, val
    <2> QED  BY <1>1, <1>2
  <1>7. r.value \in Nat
    <2> HIDE DEF n, val, r
    <2> QED  BY <1>2, <1>3, <1>4, <1>5
  <1>8. width <= Word => r.value < Power[width]
    <2> HIDE DEF n, val, r
    <2> QED  BY <1>0, <1>2, <1>3, <1>4
  <1> QED
    BY <1>6, <1>7, <1>8

-----------------------------------------------------------------------------
(* Parts one after the other: FlattenSeq.                                  *)

\* What FlattenSeq has after each part.
LEMMA FlattenSteps ==
    ASSUME NEW S, NEW ps \in Seq(Seq(S)), NEW m \in Nat, Len(ps) = m + 1
    PROVE  \E fl :
              /\ FlattenSeq(ps) = fl[m + 1]
              /\ fl[1] = ps[1]
              /\ \A i \in 1..m : fl[i + 1] = fl[i] \o ps[i + 1]
              /\ \A i \in 1..m + 1 : fl[i] \in Seq(S)
  <1> DEFINE R(f) == f = [i \in 1..Len(ps) |-> IF i = 1 THEN ps[i] ELSE f[i - 1] \o ps[i]]
             fl == CHOOSE g : R(g)
  <1>1. FlattenSeq(ps) = fl[m + 1]
    <2>1. Len(ps) # 0
      OBVIOUS
    <2>2. FlattenSeq(ps) = fl[Len(ps)]
      BY <2>1 DEF FlattenSeq
    <2> HIDE DEF fl
    <2> QED  BY <2>2
  <1>2. \A i \in 1..m + 1 : ps[i] \in Seq(S)
    OBVIOUS
  <1>3. PICK f \in [1..m + 1 -> Seq(S)] :
            f[1] = ps[1] /\ \A i \in 1..m : f[i + 1] = f[i] \o ps[i + 1]
    <2> DEFINE D == Seq(S)
               step == [k \in 1..m |-> [d \in D |-> d \o ps[k + 1]]]
               base == ps[1]
    <2>1. \A k \in 1..m, d \in D : d \o ps[k + 1] \in D
      <3>1. \A k \in 1..m : k + 1 \in 1..m + 1
        OBVIOUS
      <3> QED
        BY <1>2, <3>1, ConcatProperties
    <2>2. step \in [1..m -> [D -> D]] /\ base \in D
      <3>1. 1 \in 1..m + 1
        OBVIOUS
      <3>2. base \in D
        BY <1>2, <3>1
      <3> HIDE DEF D
      <3> QED
        BY <2>1, <3>2
    <2>3. PICK g : Iterates(g, D, base, m, step)
      <3> HIDE DEF step, base, D
      <3> QED
        BY <2>2, IterationExists, Zenon
    <2> DEFINE f == [i \in 1..m + 1 |-> g[i - 1]]
    <2>4. \A i \in 1..m + 1 : i - 1 \in 0..m
      OBVIOUS
    <2>5. f \in [1..m + 1 -> Seq(S)] /\ f[1] = ps[1]
      <3>1. 0 \in 0..m /\ 1 \in 1..m + 1
        OBVIOUS
      <3>2. g \in [0..m -> D] /\ g[0] = ps[1]
        BY <2>3 DEF Iterates
      <3> QED
        BY <2>4, <3>1, <3>2
    <2>6. ASSUME NEW i \in 1..m PROVE f[i + 1] = f[i] \o ps[i + 1]
      <3>1. i \in 1..m + 1 /\ i + 1 \in 1..m + 1 /\ i - 1 \in 0..m /\ (i + 1) - 1 = i
        OBVIOUS
      <3>2. g[i] = step[i][g[i - 1]] /\ g[i - 1] \in D
        <4> HIDE DEF step, D, base
        <4> QED  BY <2>3, <3>1 DEF Iterates
      <3>3. step[i][g[i - 1]] = g[i - 1] \o ps[i + 1]
        <4> HIDE DEF D
        <4> QED  BY <3>1, <3>2
      <3>4. f[i + 1] = g[i] /\ f[i] = g[i - 1]
        BY <3>1
      <3> QED
        BY <3>2, <3>3, <3>4
    <2> QED
      <3> HIDE DEF f
      <3> QED  BY <2>5, <2>6
  <1>4. \A i \in 2..m + 1 : f[i] = f[i - 1] \o ps[i]
    <2>1. ASSUME NEW i \in 2..m + 1 PROVE f[i] = f[i - 1] \o ps[i]
      <3> DEFINE k == i - 1
      <3>1. k \in 1..m /\ k + 1 = i
        OBVIOUS
      <3>2. i - 1 = k
        OBVIOUS
      <3> HIDE DEF k
      <3>3. f[k + 1] = f[k] \o ps[k + 1]
        BY <1>3, <3>1
      <3> QED
        BY <3>1, <3>2, <3>3
    <2> QED
      BY <2>1
  <1>5. \A i \in 1..m + 1 : i = 1 \/ (i \in 2..m + 1 /\ i # 1)
    OBVIOUS
  <1>6. R(f)
    BY <1>3, <1>4, <1>5
  <1>7. R(fl)
    <2> HIDE DEF R
    <2> QED  BY <1>6
  <1> HIDE DEF fl
  <1>8. fl[1] = ps[1]
    <2>1. 1 \in 1..Len(ps)
      OBVIOUS
    <2> QED
      BY <1>7, <2>1
  <1>9. ASSUME NEW i \in 1..m PROVE fl[i + 1] = fl[i] \o ps[i + 1]
    <2>1. i + 1 \in 1..Len(ps) /\ i + 1 # 1 /\ (i + 1) - 1 = i
      OBVIOUS
    <2>2. fl[i + 1] = fl[(i + 1) - 1] \o ps[i + 1]
      BY <1>7, <2>1
    <2> QED
      BY <2>1, <2>2
  <1>10. \A i \in 1..m + 1 : fl[i] = f[i]
    <2> DEFINE T == {k \in Nat : k <= m => fl[k + 1] = f[k + 1]}
    <2>1. 0 \in T
      BY <1>3, <1>8
    <2>2. ASSUME NEW k \in T PROVE k + 1 \in T
      <3> SUFFICES ASSUME k + 1 <= m PROVE fl[(k + 1) + 1] = f[(k + 1) + 1]
        BY <2>2
      <3> DEFINE i == k + 1
      <3>1. i \in 1..m /\ fl[i] = f[i]
        BY <2>2
      <3> HIDE DEF i
      <3>2. fl[i + 1] = fl[i] \o ps[i + 1] /\ f[i + 1] = f[i] \o ps[i + 1]
        BY <1>3, <1>9, <3>1
      <3> QED
        BY <3>1, <3>2 DEF i
    <2>3. T = Nat
      BY <2>1, <2>2, Induct
    <2>4. \A k \in Nat : k <= m => fl[k + 1] = f[k + 1]
      BY <2>3
    <2>5. ASSUME NEW i \in 1..m + 1 PROVE fl[i] = f[i]
      <3> DEFINE k == i - 1
      <3>1. k \in Nat /\ k <= m /\ k + 1 = i
        OBVIOUS
      <3> HIDE DEF k
      <3> QED
        BY <2>4, <3>1
    <2> QED
      BY <2>5
  <1>11. \A i \in 1..m + 1 : fl[i] \in Seq(S)
    BY <1>3, <1>10
  <1> QED
    BY <1>1, <1>8, <1>9, <1>11

\* r is s and then t.
Appended(s, t, r) ==
    /\ Len(r) = Len(s) + Len(t)
    /\ \A j \in 1..Len(s) : r[j] = s[j]
    /\ \A j \in 1..Len(t) : r[Len(s) + j] = t[j]

\* A concatenation is its two parts.
LEMMA OneMorePart ==
    ASSUME NEW S, NEW s \in Seq(S), NEW t \in Seq(S)
    PROVE  s \o t \in Seq(S) /\ Appended(s, t, s \o t)
  <1>1. Len(s) \in Nat /\ Len(t) \in Nat
    OBVIOUS
  <1>2. /\ Len(s \o t) = Len(s) + Len(t)
        /\ \A i \in 1..Len(s) + Len(t) :
              (s \o t)[i] = IF i <= Len(s) THEN s[i] ELSE t[i - Len(s)]
    BY ConcatProperties
  <1>3. \A j \in 1..Len(s) : j \in 1..Len(s) + Len(t) /\ j <= Len(s)
    BY <1>1
  <1>4. \A j \in 1..Len(t) : /\ Len(s) + j \in 1..Len(s) + Len(t) /\ ~(Len(s) + j <= Len(s))
                             /\ (Len(s) + j) - Len(s) = j
    BY <1>1
  <1>5. ASSUME NEW j \in 1..Len(t) PROVE (s \o t)[Len(s) + j] = t[j]
    <2> DEFINE i == Len(s) + j
    <2>1. i \in 1..Len(s) + Len(t) /\ ~(i <= Len(s)) /\ i - Len(s) = j
      BY <1>4
    <2> HIDE DEF i
    <2>2. (s \o t)[i] = t[i - Len(s)]
      BY <1>2, <2>1
    <2> QED
      BY <2>1, <2>2 DEF i
  <1>6. s \o t \in Seq(S)
    BY ConcatProperties
  <1> QED
    BY <1>2, <1>3, <1>5, <1>6 DEF Appended

\* The parts stand in b one after the other; ends tells where each one ends.
StandIn(ps, b, ends) ==
    /\ ends \in [0..Len(ps) -> Nat]
    /\ ends[0] = 0 /\ ends[Len(ps)] = Len(b)
    /\ \A k \in 1..Len(ps) :
          /\ ends[k] = ends[k - 1] + Len(ps[k])
          /\ ends[k] <= Len(b)
          /\ \A j \in 1..Len(ps[k]) : b[ends[k - 1] + j] = ps[k][j]

\* FlattenSeq puts the parts one after the other.
LEMMA FlattenIs ==
    ASSUME NEW S, NEW ps \in Seq(Seq(S))
    PROVE  FlattenSeq(ps) \in Seq(S) /\ \E ends : StandIn(ps, FlattenSeq(ps), ends)
  <1> DEFINE n == Len(ps)
             flat == FlattenSeq(ps)
             P(ends) == /\ ends[0] = 0 /\ ends[n] = Len(flat)
                        /\ \A k \in 1..n :
                              /\ ends[k] = ends[k - 1] + Len(ps[k])
                              /\ ends[k] <= Len(flat)
                              /\ \A j \in 1..Len(ps[k]) : flat[ends[k - 1] + j] = ps[k][j]
  <1>0. n \in Nat /\ \A k \in 1..n : ps[k] \in Seq(S) /\ Len(ps[k]) \in Nat
    OBVIOUS
  <1>1. CASE n = 0
    <2>1. flat = ps /\ ps = <<>>
      BY <1>1 DEF FlattenSeq
    <2>2. <<>> \in Seq(S)
      BY EmptySeq, Zenon
    <2>3. flat \in Seq(S)
      BY <2>1, <2>2, Zenon
    <2> DEFINE e == [k \in 0..0 |-> 0]
    <2>4. Len(flat) = 0
      BY <1>1, <2>1
    <2>5. e \in [0..n -> Nat] /\ e[0] = 0 /\ e[n] = 0 /\ 1..n = {}
      BY <1>1
    <2>6. P(e)
      <3> HIDE DEF e, flat, n
      <3> QED  BY <2>4, <2>5
    <2>7. StandIn(ps, flat, e)
      <3> HIDE DEF e, flat
      <3> QED  BY <2>5, <2>6 DEF StandIn
    <2> QED
      <3> HIDE DEF e
      <3> QED  BY <2>3, <2>7
  <1>2. CASE n # 0
    <2> DEFINE m == n - 1
    <2>1. m \in Nat /\ n = m + 1
      BY <1>0, <1>2
    <2> HIDE DEF m
    <2>2. PICK fl : /\ flat = fl[m + 1]
                    /\ fl[1] = ps[1]
                    /\ \A i \in 1..m : fl[i + 1] = fl[i] \o ps[i + 1]
                    /\ \A i \in 1..m + 1 : fl[i] \in Seq(S)
      BY <2>1, FlattenSteps
    <2> DEFINE ends == [k \in 0..n |-> IF k = 0 THEN 0 ELSE Len(fl[k])]
    <2> HIDE DEF n
    <2>3. \A k \in 1..n : Len(fl[k]) \in Nat
      BY <2>1, <2>2
    <2>4. ends \in [0..n -> Nat] /\ ends[0] = 0 /\ \A k \in 1..n : ends[k] = Len(fl[k])
      <3>1. \A k \in 0..n : k = 0 \/ k \in 1..n
        BY <1>0
      <3>2. 0 \in 0..n /\ \A k \in 1..n : k \in 0..n /\ k # 0
        BY <1>0
      <3> QED
        BY <2>3, <3>1, <3>2
    <2> HIDE DEF ends
    <2>5. ends[1] = ends[0] + Len(ps[1])
      <3>1. 1 \in 1..n
        BY <2>1
      <3> QED
        BY <1>0, <2>2, <2>4, <3>1
    <2>6. ASSUME NEW k \in 1..m
          PROVE  /\ ends[k + 1] = ends[k] + Len(ps[k + 1])
                 /\ \A j \in 1..ends[k] : fl[k + 1][j] = fl[k][j]
                 /\ \A j \in 1..Len(ps[k + 1]) : fl[k + 1][ends[k] + j] = ps[k + 1][j]
      <3>1. k \in 1..n /\ k + 1 \in 1..n
        BY <2>1
      <3>2. fl[k + 1] = fl[k] \o ps[k + 1] /\ fl[k] \in Seq(S) /\ ps[k + 1] \in Seq(S)
        BY <1>0, <2>1, <2>2, <3>1
      <3>3. ends[k + 1] = Len(fl[k + 1]) /\ ends[k] = Len(fl[k])
        BY <2>4, <3>1
      <3> DEFINE u == fl[k]
                 t == ps[k + 1]
      <3>4. Appended(u, t, u \o t)
        <4>1. u \in Seq(S) /\ t \in Seq(S)
          BY <3>2
        <4> HIDE DEF u, t
        <4> QED  BY <4>1, OneMorePart, Zenon
      <3> QED
        BY <3>2, <3>3, <3>4 DEF Appended
    <2> DEFINE Placed(k) == \A i \in 1..k :
                   /\ ends[i] = ends[i - 1] + Len(ps[i])
                   /\ ends[i] <= ends[k]
                   /\ \A j \in 1..Len(ps[i]) : fl[k][ends[i - 1] + j] = ps[i][j]
               T == {k \in Nat : k <= m => Placed(k + 1)}
    <2>7. 0 \in T
      <3>1. \A i \in 1..1 : i = 1 /\ i - 1 = 0
        OBVIOUS
      <3>2. ends[1] \in Nat
        BY <2>1, <2>4
      <3>3. \A j \in 1..Len(ps[1]) : fl[1][ends[0] + j] = ps[1][j]
        BY <2>2, <2>4
      <3>4. Placed(1)
        BY <2>5, <3>1, <3>2, <3>3
      <3> QED
        BY <3>4
    <2>8. ASSUME NEW l \in T PROVE l + 1 \in T
      <3> DEFINE k == l + 1
      <3> SUFFICES ASSUME k <= m PROVE Placed(k + 1)
        <4> HIDE DEF Placed
        <4> QED  BY <2>8
      <3>1. k \in 1..m /\ Placed(k)
        <4> HIDE DEF Placed
        <4> QED  BY <2>1, <2>8
      <3> HIDE DEF k
      <3>2. /\ ends[k + 1] = ends[k] + Len(ps[k + 1])
            /\ \A j \in 1..ends[k] : fl[k + 1][j] = fl[k][j]
            /\ \A j \in 1..Len(ps[k + 1]) : fl[k + 1][ends[k] + j] = ps[k + 1][j]
        BY <2>6, <3>1
      <3>3. ends[k] \in Nat /\ ends[k + 1] \in Nat /\ Len(ps[k + 1]) \in Nat
        BY <1>0, <2>1, <2>4, <3>1
      <3>4. ASSUME NEW i \in 1..k + 1
            PROVE  /\ ends[i] = ends[i - 1] + Len(ps[i])
                   /\ ends[i] <= ends[k + 1]
                   /\ \A j \in 1..Len(ps[i]) : fl[k + 1][ends[i - 1] + j] = ps[i][j]
        <4>1. CASE i = k + 1
          <5>1. i - 1 = k
            BY <3>1, <4>1
          <5> QED
            BY <3>2, <3>3, <4>1, <5>1
        <4>2. CASE i # k + 1
          <5>1. i \in 1..k /\ i \in 1..n /\ i - 1 \in 0..n
            BY <2>1, <3>1, <4>2
          <5> DEFINE h == i - 1
          <5>2. /\ ends[i] = ends[h] + Len(ps[i]) /\ ends[i] <= ends[k]
                /\ \A j \in 1..Len(ps[i]) : fl[k][ends[h] + j] = ps[i][j]
            BY <3>1, <5>1
          <5>3. ends[h] \in Nat /\ ends[i] \in Nat /\ Len(ps[i]) \in Nat
            BY <1>0, <2>4, <5>1
          <5> HIDE DEF h
          <5>4. ASSUME NEW j \in 1..Len(ps[i]) PROVE fl[k + 1][ends[h] + j] = ps[i][j]
            <6> DEFINE x == ends[h] + j
            <6>1. x \in 1..ends[k]
              BY <3>3, <5>2, <5>3, SMTT(40)
            <6>2. fl[k][x] = ps[i][j]
              BY <5>2
            <6> HIDE DEF x
            <6>3. fl[k + 1][x] = ps[i][j]
              BY <3>2, <6>1, <6>2
            <6> QED
              BY <6>3 DEF x
          <5>5. ends[i] <= ends[k + 1]
            BY <3>2, <3>3, <5>2, <5>3
          <5> QED
            BY <5>2, <5>4, <5>5 DEF h
        <4> QED
          BY <4>1, <4>2
      <3> QED
        BY <3>4
    <2>9. Placed(n)
      <3> HIDE DEF Placed
      <3>1. T = Nat
        BY <2>7, <2>8, Induct
      <3>2. \A k \in Nat : k <= m => Placed(k + 1)
        BY <3>1
      <3>3. Placed(m + 1)
        BY <2>1, <3>2
      <3> QED
        BY <2>1, <3>3
    <2>10. P(ends) /\ flat \in Seq(S)
      <3>1. n \in 1..n /\ n = m + 1
        BY <2>1
      <3>2. ends[n] = Len(flat) /\ flat = fl[n] /\ flat \in Seq(S)
        BY <2>2, <2>4, <3>1
      <3> HIDE DEF flat
      <3> QED
        BY <2>4, <2>9, <3>2
    <2>11. StandIn(ps, flat, ends)
      BY <2>4, <2>10 DEF StandIn, n
    <2> QED
      BY <2>10, <2>11
  <1> QED
    BY <1>1, <1>2

\* The parts stand in b, each of them w long.
StandEvenly(ps, b, w) ==
    /\ Len(b) = w * Len(ps)
    /\ \A k \in 1..Len(ps), j \in 1..w : b[w * (k - 1) + j] = ps[k][j]

\* FlattenSeq puts parts of one length at equal distances.
LEMMA UniformParts ==
    ASSUME NEW S, NEW ps \in Seq(Seq(S)), NEW w \in Nat,
           \A k \in 1..Len(ps) : Len(ps[k]) = w
    PROVE  FlattenSeq(ps) \in Seq(S) /\ StandEvenly(ps, FlattenSeq(ps), w)
  <1> DEFINE n == Len(ps)
             flat == FlattenSeq(ps)
  <1>0. n \in Nat
    OBVIOUS
  <1>1. PICK ends : StandIn(ps, flat, ends)
    BY FlattenIs
  <1>2. flat \in Seq(S)
    BY FlattenIs
  <1> HIDE DEF flat
  <1>3. /\ ends[0] = 0 /\ ends[n] = Len(flat)
        /\ \A k \in 1..n : /\ ends[k] = ends[k - 1] + w
                           /\ \A j \in 1..w : flat[ends[k - 1] + j] = ps[k][j]
    BY <1>1 DEF StandIn
  <1> HIDE DEF n
  <1>4. \A k \in 0..n : ends[k] = w * k
    <2> DEFINE T == {k \in Nat : k <= n => ends[k] = w * k}
    <2>1. 0 \in T
      BY <1>3
    <2>2. ASSUME NEW k \in T PROVE k + 1 \in T
      <3> SUFFICES ASSUME k + 1 <= n PROVE ends[k + 1] = w * (k + 1)
        BY <2>2
      <3>1. k \in Nat /\ k + 1 \in 1..n /\ (k + 1) - 1 = k /\ ends[k] = w * k
        BY <1>0, <2>2
      <3>2. ends[k + 1] = ends[k] + w
        BY <1>3, <3>1
      <3>3. w * (k + 1) = w * k + w
        BY <3>1
      <3> QED
        BY <3>1, <3>2, <3>3
    <2>3. T = Nat
      BY <2>1, <2>2, Induct
    <2> QED
      BY <1>0, <2>3
  <1>5. \A k \in 1..n, j \in 1..w : flat[w * (k - 1) + j] = ps[k][j]
    <2>1. \A k \in 1..n : k - 1 \in 0..n
      BY <1>0
    <2> QED
      BY <1>3, <1>4, <2>1
  <1>6. n \in 0..n
    BY <1>0
  <1> QED
    BY <1>2, <1>3, <1>4, <1>5, <1>6 DEF flat, n, StandEvenly

\* The bytes w stand in b from an offset on.
Holds(b, at, w) == at + Len(w) <= Len(b) /\ \A j \in 1..Len(w) : b[at + j] = w[j]

-----------------------------------------------------------------------------
(* Texts.                                                                  *)

\* w holds the characters of s in 16 bits each, whatever the high bytes are, and
\* a terminator.
WideText(w, s) ==
    /\ w \in Seq(Byte) /\ Len(w) = 2 * Len(s) + 2
    /\ \A k \in 1..Len(s) : w[2 * (k - 1) + 1] = s[k]
    /\ w[2 * Len(s) + 1] = 0 /\ w[2 * Len(s) + 2] = 0

\* Pairs of bytes and a pair of zeros are a wide text.
LEMMA WideTextIs ==
    ASSUME NEW s \in Seq(Byte), NEW h \in [1..Len(s) -> Byte]
    PROVE  WideText(FlattenSeq([i \in 1..Len(s) |-> <<s[i], h[i]>>]) \o <<0, 0>>, s)
  <1> DEFINE n == Len(s)
             ps == [i \in 1..n |-> <<s[i], h[i]>>]
             flat == FlattenSeq(ps)
             end == <<0, 0>>
  <1>0. n \in Nat /\ \A i \in 1..n : s[i] \in Byte /\ h[i] \in Byte
    OBVIOUS
  <1>1. ps \in Seq(Seq(Byte)) /\ Len(ps) = n /\ \A i \in 1..n : ps[i] = <<s[i], h[i]>>
    BY <1>0
  <1>2. \A i \in 1..n : Len(ps[i]) = 2 /\ ps[i][1] = s[i]
    BY <1>1
  <1> HIDE DEF ps
  <1>3. /\ flat \in Seq(Byte) /\ Len(flat) = 2 * n
        /\ \A k \in 1..n, j \in 1..2 : flat[2 * (k - 1) + j] = ps[k][j]
    <2>1. \A k \in 1..Len(ps) : Len(ps[k]) = 2
      BY <1>1, <1>2
    <2>2. 2 \in Nat
      OBVIOUS
    <2>3. flat \in Seq(Byte) /\ StandEvenly(ps, flat, 2)
      BY <1>1, <2>1, <2>2, UniformParts, Zenon
    <2> QED
      BY <1>1, <2>3 DEF StandEvenly
  <1>4. end \in Seq(Byte) /\ Len(end) = 2 /\ end[1] = 0 /\ end[2] = 0
    <2>1. 0 \in Byte
      BY Sizes DEF Byte
    <2> QED
      BY <2>1
  <1> HIDE DEF flat, end
  <1>5. /\ flat \o end \in Seq(Byte)
        /\ Len(flat \o end) = Len(flat) + Len(end)
        /\ \A j \in 1..Len(flat) : (flat \o end)[j] = flat[j]
        /\ \A j \in 1..Len(end) : (flat \o end)[Len(flat) + j] = end[j]
    <2>1. flat \o end \in Seq(Byte) /\ Appended(flat, end, flat \o end)
      BY <1>3, <1>4, OneMorePart, Zenon
    <2> QED
      BY <2>1 DEF Appended
  <1> HIDE DEF n
  <1>6. ASSUME NEW k \in 1..n PROVE (flat \o end)[2 * (k - 1) + 1] = s[k]
    <2>1. 2 * (k - 1) + 1 \in 1..Len(flat) /\ 1 \in 1..2
      BY <1>0, <1>3
    <2>2. flat[2 * (k - 1) + 1] = ps[k][1]
      BY <1>3, <2>1
    <2> QED
      BY <1>2, <1>5, <2>1, <2>2
  <1>7. (flat \o end)[2 * n + 1] = 0 /\ (flat \o end)[2 * n + 2] = 0
    <2>1. 1 \in 1..Len(end) /\ 2 \in 1..Len(end)
      BY <1>4
    <2>2. (flat \o end)[Len(flat) + 1] = 0 /\ (flat \o end)[Len(flat) + 2] = 0
      BY <1>4, <1>5, <2>1
    <2> QED
      BY <1>3, <2>2
  <1>8. WideText(flat \o end, s)
    BY <1>0, <1>3, <1>4, <1>5, <1>6, <1>7 DEF WideText, n
  <1> QED
    BY <1>8 DEF flat, end, ps, n

\* WideString::pack writes one.
LEMMA WriteStringIs ==
    ASSUME NEW s \in Seq(Byte)
    PROVE  WideText(WriteString(s), s)
  <1> DEFINE h == [i \in 1..Len(s) |-> IF CharIsSigned /\ s[i] >= Half THEN Base - 1 ELSE 0]
  <1>1. h \in [1..Len(s) -> Byte]
    BY Sizes DEF Byte
  <1>2. [i \in 1..Len(s) |-> <<s[i], h[i]>>] =
        [i \in 1..Len(s) |-> <<s[i], IF CharIsSigned /\ s[i] >= Half THEN Base - 1 ELSE 0>>]
    OBVIOUS
  <1>3. WriteString(s) = FlattenSeq([i \in 1..Len(s) |-> <<s[i], h[i]>>]) \o <<0, 0>>
    BY <1>2 DEF WriteString
  <1> HIDE DEF h
  <1> QED
    BY <1>1, <1>3, WideTextIs

\* A 16 bit number.
LEMMA PairIs ==
    ASSUME NEW b \in Seq(Byte), NEW at \in Nat, NEW limit \in 0..Len(b), at + 2 <= limit
    PROVE  ReadInt(b, at, limit, 2) = [value |-> b[at + 1] + Base * b[at + 2], at |-> at + 2]
  <1>0. Base \in Nat /\ Word \in Nat /\ Word >= 2 /\ limit \in Nat /\ Len(b) \in Nat
    BY Sizes
  <1>1. Taken(at, limit, 2) = 2
    BY <1>0 DEF Taken, Least
  <1> DEFINE val == Value(b, at, 2)
  <1>2. val[0] = 0 /\ \A k \in 1..2 : val[k] = b[at + 2 - k + 1] + Base * val[k - 1]
    BY <1>0, ValueIs
  <1> HIDE DEF val
  <1>3. at + 1 \in 1..Len(b) /\ at + 2 \in 1..Len(b)
    BY <1>0
  <1>4. b[at + 1] \in Nat /\ b[at + 2] \in Nat
    BY <1>0, <1>3 DEF Byte
  <1>5. val[1] = b[at + 2]
    <2>1. val[1] = b[at + 2 - 1 + 1] + Base * val[1 - 1] /\ at + 2 - 1 + 1 = at + 2 /\ 1 - 1 = 0
      BY <1>2
    <2> QED
      BY <1>0, <1>2, <1>4, <2>1
  <1>6. val[2] = b[at + 1] + Base * b[at + 2]
    <2>1. val[2] = b[at + 2 - 2 + 1] + Base * val[2 - 1] /\ at + 2 - 2 + 1 = at + 1 /\ 2 - 1 = 1
      BY <1>2
    <2> QED
      BY <1>5, <2>1
  <1>7. ~(2 > Word)
    BY <1>0
  <1> QED
    BY <1>1, <1>6, <1>7, ReadIntIs DEF val

\* The k-th character after an offset.
Char(b, at, limit, k) == ReadInt(b, at + 2 * (k - 1), limit, 2).value

Zeros(b, at, limit) ==
    {k \in 1..Starting(at, limit, 2) : Char(b, at, limit, k) = 0}

Chars(b, at, limit) ==
    IF Zeros(b, at, limit) = {} THEN Starting(at, limit, 2) ELSE Min(Zeros(b, at, limit)) - 1

\* WideString::unpack in the terms of the proofs.
LEMMA ReadStringIs ==
    ASSUME NEW b, NEW at, NEW limit
    PROVE  ReadString(b, at, limit) =
             [value |-> [k \in 1..Chars(b, at, limit) |-> Char(b, at, limit, k) % Base],
              at |-> IF Starting(at, limit, 2) = 0 THEN at
                     ELSE Least(at + 2 * (Chars(b, at, limit) + 1), limit)]
  BY DEF ReadString, Chars, Zeros, Char

\* WideString: a text is read back, up to its terminator.
LEMMA StringReadsBack ==
    ASSUME NEW b \in Seq(Byte), NEW at \in Nat, NEW limit \in 0..Len(b),
           NEW s \in Text, NEW w, WideText(w, s), Holds(b, at, w), at + Len(w) <= limit
    PROVE  ReadString(b, at, limit) = [value |-> s, at |-> at + Len(w)]
  <1> DEFINE n == Len(s)
             N == Starting(at, limit, 2)
             zeros == Zeros(b, at, limit)
  <1>0. /\ Base \in Nat /\ Base >= 2 /\ limit \in Nat /\ Len(b) \in Nat /\ n \in Nat
        /\ \A k \in 1..n : s[k] \in 1..(Base - 1)
    BY Sizes DEF Text
  <1>1. Len(w) = 2 * n + 2 /\ at + 2 * n + 2 <= limit /\ at < limit
    BY <1>0 DEF WideText
  <1>2. N \in Nat /\ n + 1 <= N
    BY <1>0, <1>1 DEF Starting
  <1>3. ASSUME NEW k \in 1..n + 1
        PROVE  /\ at + 2 * (k - 1) + 1 \in 1..Len(b) /\ at + 2 * (k - 1) + 2 \in 1..Len(b)
               /\ b[at + 2 * (k - 1) + 1] = w[2 * (k - 1) + 1]
               /\ b[at + 2 * (k - 1) + 2] = w[2 * (k - 1) + 2]
               /\ Char(b, at, limit, k) = w[2 * (k - 1) + 1] + Base * w[2 * (k - 1) + 2]
               /\ w[2 * (k - 1) + 2] \in Byte
    <2> DEFINE o == 2 * (k - 1)
    <2>1. o \in Nat /\ o + 1 \in 1..Len(w) /\ o + 2 \in 1..Len(w) /\ (at + o) + 2 <= limit
          /\ at + o \in Nat
      BY <1>0, <1>1
    <2>2. Char(b, at, limit, k) = ReadInt(b, at + o, limit, 2).value
      BY DEF Char
    <2> HIDE DEF o
    <2>3. Char(b, at, limit, k) = b[(at + o) + 1] + Base * b[(at + o) + 2]
      BY <2>1, <2>2, PairIs
    <2>4. b[at + (o + 1)] = w[o + 1] /\ b[at + (o + 2)] = w[o + 2]
      BY <2>1 DEF Holds
    <2>5. at + (o + 1) = (at + o) + 1 /\ at + (o + 2) = (at + o) + 2
      BY <2>1
    <2>6. w[o + 2] \in Byte
      BY <2>1 DEF WideText
    <2>7. (at + o) + 1 \in 1..Len(b) /\ (at + o) + 2 \in 1..Len(b)
      BY <1>0, <2>1
    <2> QED
      BY <2>3, <2>4, <2>5, <2>6, <2>7 DEF o
  <1>4. ASSUME NEW k \in 1..n
        PROVE  /\ Char(b, at, limit, k) # 0
               /\ Char(b, at, limit, k) % Base = s[k]
    <2> DEFINE hi == w[2 * (k - 1) + 2]
    <2>1. k \in 1..n + 1 /\ w[2 * (k - 1) + 1] = s[k]
      BY <1>0 DEF WideText
    <2>2. Char(b, at, limit, k) = s[k] + Base * hi /\ hi \in Byte
      BY <1>3, <2>1
    <2> HIDE DEF hi
    <2>3. s[k] \in Byte /\ s[k] >= 1 /\ s[k] \in Nat /\ hi \in Nat
      BY <1>0, <2>2 DEF Byte
    <2>4. (s[k] + Base * hi) % Base = s[k]
      BY <2>3, LowByte
    <2>5. Base * hi \in Nat
      BY <1>0, <2>3
    <2> QED
      BY <2>2, <2>3, <2>4, <2>5
  <1>5. Char(b, at, limit, n + 1) = 0
    <2>1. n + 1 \in 1..n + 1 /\ 2 * ((n + 1) - 1) = 2 * n
      BY <1>0
    <2>2. w[2 * n + 1] = 0 /\ w[2 * n + 2] = 0
      BY DEF WideText
    <2>3. Char(b, at, limit, n + 1) = w[2 * n + 1] + Base * w[2 * n + 2]
      BY <1>3, <2>1
    <2> QED
      BY <1>0, <2>2, <2>3
  <1> HIDE DEF n, N
  <1>6. n + 1 \in zeros /\ \A k \in zeros : n + 1 <= k
    <2>1. zeros = {k \in 1..N : Char(b, at, limit, k) = 0}
      BY DEF Zeros, N
    <2>2. n + 1 \in 1..N
      BY <1>0, <1>2
    <2>3. \A k \in 1..N : k <= n => k \in 1..n
      BY <1>0, <1>2
    <2> QED
      BY <1>0, <1>2, <1>4, <1>5, <2>1, <2>2, <2>3
  <1>7. Min(zeros) = n + 1
    <2>1. \A k \in zeros : k \in Nat
      BY DEF Zeros
    <2> HIDE DEF zeros
    <2>2. Min(zeros) \in zeros /\ \A k \in zeros : Min(zeros) <= k
      BY <1>6 DEF Min
    <2> QED
      BY <1>0, <1>6, <2>1, <2>2
  <1>8. Chars(b, at, limit) = n
    <2>1. zeros # {}
      BY <1>6
    <2> QED
      BY <1>0, <1>7, <2>1 DEF Chars
  <1>9. [k \in 1..n |-> Char(b, at, limit, k) % Base] = s
    <2>1. s = [k \in 1..n |-> s[k]]
      BY DEF n, Text
    <2> QED
      BY <1>4, <2>1
  <1>10. N # 0 /\ Least(at + 2 * (n + 1), limit) = at + Len(w)
    BY <1>0, <1>1, <1>2 DEF Least
  <1> QED
    BY <1>8, <1>9, <1>10, ReadStringIs DEF N

\* An integer is written as that many bytes.
LEMMA WriteIntIs ==
    ASSUME NEW v \in Nat, NEW width \in Nat
    PROVE  WriteInt(v, width) \in Seq(Byte) /\ Len(WriteInt(v, width)) = width
  <1>1. WriteInt(v, width) = [i \in 1..width |-> Shifted(v, width)[i - 1] % Base]
    BY ShiftedIs
  <1>2. \A i \in 1..width : Shifted(v, width)[i - 1] % Base \in Byte
    <2>1. \A i \in 1..width : i - 1 \in 0..width
      OBVIOUS
    <2>2. \A i \in 0..width : Shifted(v, width)[i] \in Nat
      BY ShiftedIs
    <2> QED
      BY <2>1, <2>2, Digits
  <1> QED
    BY <1>1, <1>2

\* What is written first and what follows it stand one after the other.
LEMMA HoldsParts ==
    ASSUME NEW S, NEW u \in Seq(S), NEW t \in Seq(S), NEW b, NEW at \in Nat,
           Len(b) \in Nat, Holds(b, at, u \o t)
    PROVE  /\ Holds(b, at, u) /\ Holds(b, at + Len(u), t)
           /\ Len(u \o t) = Len(u) + Len(t)
  <1> DEFINE r == u \o t
  <1>1. Appended(u, t, r)
    BY OneMorePart
  <1>2. Len(u) \in Nat /\ Len(t) \in Nat
    OBVIOUS
  <1> HIDE DEF r
  <1>3. Len(r) = Len(u) + Len(t) /\ at + Len(r) <= Len(b) /\ \A j \in 1..Len(r) : b[at + j] = r[j]
    BY <1>1 DEF Appended, Holds, r
  <1>4. Holds(b, at, u)
    <2>1. \A j \in 1..Len(u) : j \in 1..Len(r) /\ r[j] = u[j]
      BY <1>1, <1>2, <1>3 DEF Appended
    <2> QED
      BY <1>2, <1>3, <2>1 DEF Holds
  <1>5. Holds(b, at + Len(u), t)
    <2>1. ASSUME NEW j \in 1..Len(t) PROVE b[(at + Len(u)) + j] = t[j]
      <3> DEFINE i == Len(u) + j
      <3>1. i \in 1..Len(r) /\ (at + Len(u)) + j = at + i
        BY <1>2, <1>3
      <3>2. r[i] = t[j]
        BY <1>1 DEF Appended
      <3> HIDE DEF i
      <3>3. b[at + i] = r[i]
        BY <1>3, <3>1
      <3> QED
        BY <3>1, <3>2, <3>3
    <2> QED
      BY <1>2, <1>3, <2>1 DEF Holds
  <1> QED
    BY <1>3, <1>4, <1>5 DEF r

\* PTPString: a text that is counted, if only not as nothing, is read back.
LEMMA CountedStringReadsBack ==
    ASSUME NEW b \in Seq(Byte), NEW at \in Nat, NEW limit \in 0..Len(b),
           NEW s \in Text, NEW t, WideText(t, s), NEW c \in 1..(Base - 1),
           Holds(b, at, WriteInt(c, 1) \o t), at + Len(WriteInt(c, 1) \o t) <= limit
    PROVE  ReadPTPString(b, at, limit) =
             [value |-> s, at |-> at + Len(WriteInt(c, 1) \o t)]
  <1> DEFINE u == WriteInt(c, 1)
  <1>0. Base \in Nat /\ Base >= 2 /\ c \in Nat /\ limit \in Nat /\ Len(b) \in Nat /\ Word >= 2
        /\ Word \in Nat
    BY Sizes
  <1>1. u \in Seq(Byte) /\ Len(u) = 1 /\ t \in Seq(Byte) /\ Len(t) \in Nat
    <2>1. \A n \in Nat : WriteInt(c, n) \in Seq(Byte) /\ Len(WriteInt(c, n)) = n
      BY <1>0, WriteIntIs
    <2>2. u \in Seq(Byte) /\ Len(u) = 1
      BY <2>1
    <2>3. t \in Seq(Byte)
      BY DEF WideText
    <2> HIDE DEF u
    <2> QED
      BY <2>2, <2>3
  <1>2. Holds(b, at, u) /\ Holds(b, at + 1, t) /\ Len(u \o t) = 1 + Len(t)
    <2> HIDE DEF u
    <2>1. /\ Holds(b, at, u) /\ Holds(b, at + Len(u), t)
          /\ Len(u \o t) = Len(u) + Len(t)
      BY <1>0, <1>1, HoldsParts DEF u
    <2> QED
      BY <1>1, <2>1
  <1>3. u[1] = c
    <2>1. u = [i \in 1..1 |-> Shifted(c, 1)[i - 1] % Base] /\ Shifted(c, 1)[0] = c
      BY <1>0, ShiftedIs
    <2>2. c \in Byte
      BY <1>0 DEF Byte
    <2> HIDE DEF u
    <2>3. u[1] = Shifted(c, 1)[1 - 1] % Base /\ 1 - 1 = 0
      BY <2>1
    <2> QED
      BY <2>1, <2>2, <2>3, ByteItself
  <1> HIDE DEF u
  <1>4. b[at + 1] = c /\ b[at + 1] # 0 /\ at < limit
    BY <1>0, <1>1, <1>2, <1>3 DEF Holds, u
  <1>5. ReadInt(b, at, limit, 1).at = at + 1
    <2>1. Taken(at, limit, 1) = 1
      BY <1>0, <1>4 DEF Taken, Least
    <2> QED
      BY <2>1, ReadIntIs
  <1>6. ReadString(b, at + 1, limit) = [value |-> s, at |-> (at + 1) + Len(t)]
    <2>1. (at + 1) + Len(t) <= limit /\ at + 1 \in Nat
      BY <1>1, <1>2 DEF u
    <2> QED
      BY <1>2, <2>1, StringReadsBack
  <1>7. ReadPTPString(b, at, limit) = ReadString(b, at + 1, limit)
    BY <1>0, <1>4, <1>5 DEF ReadPTPString
  <1>8. (at + 1) + Len(t) = at + Len(u \o t)
    BY <1>1, <1>2
  <1> QED
    BY <1>6, <1>7, <1>8 DEF u

\* A text that is not too long is written whole.
LEMMA WritePTPStringIs ==
    ASSUME NEW s \in Seq(Byte), Len(s) <= MaxChars
    PROVE  /\ WritePTPString(s) = WriteInt(Len(s) + 1, 1) \o WriteString(s)
           /\ Len(s) + 1 \in 1..(Base - 1)
  <1>0. MaxChars \in Nat /\ MaxChars = Base - 2 /\ Base \in Nat /\ Len(s) \in Nat
    BY Sizes
  <1>1. Least(Len(s), MaxChars) = Len(s)
    BY <1>0 DEF Least
  <1>2. SubSeq(s, 1, Least(Len(s), MaxChars)) = s
    <2>1. SubSeq(s, 1, Len(s)) = s
      OBVIOUS
    <2> QED
      BY <1>1, <2>1, Zenon
  <1>3. WritePTPString(s) = WriteInt(Len(s) + 1, 1) \o WriteString(s)
    BY <1>2, Zenon DEF WritePTPString
  <1> QED
    BY <1>0, <1>3

\* PTPString: an empty one is a single 0.
LEMMA EmptyStringReadsBack ==
    ASSUME NEW b, NEW at \in Nat, NEW limit \in Nat, at < limit, b[at + 1] = 0
    PROVE  ReadPTPString(b, at, limit) = [value |-> <<>>, at |-> at + 1]
  BY DEF ReadPTPString

-----------------------------------------------------------------------------
(* Arrays, buffers and packets in a packet.                                *)

\* The elements of an array, of a word each.
LEMMA WriteIntsIs ==
    ASSUME NEW a \in Seq(Nat)
    PROVE  /\ WriteInts(a) \in Seq(Byte) /\ Len(WriteInts(a)) = Word * Len(a)
           /\ \A k \in 1..Len(a), j \in 1..Word :
                 WriteInts(a)[Word * (k - 1) + j] = WriteInt(a[k], Word)[j]
  <1> DEFINE ps == [i \in 1..Len(a) |-> WriteInt(a[i], Word)]
  <1>0. Word \in Nat /\ Len(a) \in Nat /\ \A i \in 1..Len(a) : a[i] \in Nat
    BY Sizes
  <1>1. \A i \in 1..Len(a) : WriteInt(a[i], Word) \in Seq(Byte) /\ Len(WriteInt(a[i], Word)) = Word
    BY <1>0, WriteIntIs
  <1>2. ps \in Seq(Seq(Byte)) /\ Len(ps) = Len(a)
        /\ \A i \in 1..Len(a) : ps[i] = WriteInt(a[i], Word)
    BY <1>0, <1>1
  <1>3. WriteInts(a) = FlattenSeq(ps)
    BY DEF WriteInts
  <1> HIDE DEF ps
  <1>4. \A k \in 1..Len(ps) : Len(ps[k]) = Word
    BY <1>1, <1>2
  <1>5. FlattenSeq(ps) \in Seq(Byte) /\ StandEvenly(ps, FlattenSeq(ps), Word)
    BY <1>0, <1>2, <1>4, UniformParts, Zenon
  <1> QED
    BY <1>2, <1>3, <1>5 DEF StandEvenly

\* As many widths as fit are counted.
LEMMA Quotient ==
    ASSUME NEW y \in Nat, NEW w \in Nat, w >= 1, NEW c \in Nat, y >= w * c
    PROVE  y \div w \in Nat /\ y \div w >= c
  <1> DEFINE q == y \div w
  <1>1. q \in Nat /\ y = w * q + (y % w) /\ y % w \in Nat /\ y % w < w
    OBVIOUS
  <1> HIDE DEF q
  <1>2. ASSUME q < c PROVE FALSE
    <2> DEFINE d == c - (q + 1)
    <2>1. d \in Nat /\ c = (q + 1) + d
      BY <1>1, <1>2
    <2> HIDE DEF d
    <2>2. w * c = w * q + w + w * d /\ w * d \in Nat /\ w * q \in Nat
      BY <1>1, <2>1
    <2> QED
      BY <1>1, <2>2
  <1> QED
    BY <1>1, <1>2 DEF q

\* PTPArray: an array with its right count is read back.
LEMMA ArrayReadsBack ==
    ASSUME NEW b \in Seq(Byte), NEW at \in Nat, NEW limit \in 0..Len(b),
           NEW a \in Seq(Words), Len(a) \in Words,
           Holds(b, at, WriteInt(Len(a), Word) \o WriteInts(a)),
           at + Len(WriteInt(Len(a), Word) \o WriteInts(a)) <= limit
    PROVE  ReadPTPArray(b, at, limit) =
             [value |-> [numElements |-> Len(a), array |-> a],
              at |-> at + Len(WriteInt(Len(a), Word) \o WriteInts(a))]
  <1> DEFINE c == Len(a)
             u == WriteInt(c, Word)
             t == WriteInts(a)
  <1>0. /\ Word \in Nat /\ Word >= 2 /\ limit \in Nat /\ Len(b) \in Nat /\ c \in Nat
        /\ Power[Word] \in Nat /\ \A x \in Words : x \in Nat /\ x < Power[Word]
    <2>1. Word \in 0..Long
      BY Sizes
    <2>2. Power[Word] \in Nat
      BY <2>1, PowerIs
    <2> QED
      BY <2>2, Sizes DEF Words
  <1>1. u \in Seq(Byte) /\ Len(u) = Word
    BY <1>0, WriteIntIs
  <1>2. /\ t \in Seq(Byte) /\ Len(t) = Word * c
        /\ \A k \in 1..c, j \in 1..Word : t[Word * (k - 1) + j] = WriteInt(a[k], Word)[j]
    <2>1. a \in Seq(Nat)
      BY <1>0
    <2> QED
      BY <2>1, WriteIntsIs
  <1>3. Holds(b, at, u) /\ Holds(b, at + Word, t) /\ Len(u \o t) = Word + Word * c
    <2>1. /\ Holds(b, at, u) /\ Holds(b, at + Len(u), t)
          /\ Len(u \o t) = Len(u) + Len(t)
      <3> HIDE DEF u, t
      <3> QED  BY <1>0, <1>1, <1>2, HoldsParts DEF u, t
    <2> HIDE DEF u, t
    <2> QED
      BY <1>1, <1>2, <2>1
  <1> HIDE DEF t
  <1> DEFINE x == Word * c
  <1>4. x \in Nat /\ (at + Word) + x <= limit
    BY <1>0, <1>3 DEF u, t
  <1>5. ReadInt(b, at, limit, Word) = [value |-> c, at |-> at + Word]
    <2>1. Word \in 1..Word /\ at + Word <= limit /\ c < Power[Word]
      BY <1>0, <1>4
    <2>2. \A j \in 1..Word : b[at + j] = WriteInt(c, Word)[j]
      BY <1>1, <1>3 DEF Holds
    <2> HIDE DEF c
    <2> QED
      BY <1>0, <2>1, <2>2, IntReadsBack
  <1>6. Least(c, Starting(at + Word, limit, Word)) = c
    <2>1. CASE c = 0
      <3>1. Starting(at + Word, limit, Word) \in Nat
        BY <1>0, <1>4 DEF Starting
      <3> QED
        BY <2>1, <3>1 DEF Least
    <2>2. CASE c # 0
      <3>1. x >= Word
        BY <1>0, <2>2, SMTT(40)
      <3>2. at + Word < limit
        BY <1>0, <1>4, <3>1
      <3> DEFINE y == limit - (at + Word) + Word - 1
      <3>3. y \in Nat /\ y >= x
        BY <1>0, <1>4
      <3> HIDE DEF y
      <3>4. y \div Word \in Nat /\ y \div Word >= c
        BY <1>0, <3>3, Quotient
      <3>5. Starting(at + Word, limit, Word) = y \div Word
        BY <3>2 DEF Starting, y
      <3> QED
        BY <1>0, <3>4, <3>5 DEF Least
    <2> QED
      BY <2>1, <2>2
  <1>7. ASSUME NEW i \in 1..c
        PROVE  ReadInt(b, (at + Word) + Word * (i - 1), limit, Word).value = a[i]
    <2> DEFINE o == Word * (i - 1)
               pos == (at + Word) + o
    <2>1. i - 1 \in Nat /\ (c - i) \in Nat
      BY <1>0
    <2>2. o \in Nat /\ o + Word <= x
      <3>1. Word * (c - i) \in Nat
        BY <1>0, <2>1
      <3>2. x = o + Word + Word * (c - i)
        BY <1>0, <2>1
      <3>3. o \in Nat
        BY <1>0, <2>1
      <3> QED
        BY <1>0, <3>1, <3>2, <3>3
    <2>3. \A j \in 1..Word : t[o + j] = WriteInt(a[i], Word)[j]
      BY <1>2
    <2> HIDE DEF o
    <2>4. \A j \in 1..Word : o + j \in 1..Len(t)
      BY <1>0, <1>2, <2>2
    <2>5. \A j \in 1..Word : b[(at + Word) + (o + j)] = WriteInt(a[i], Word)[j]
      BY <1>3, <2>3, <2>4 DEF Holds
    <2>6. \A j \in 1..Word : pos + j = (at + Word) + (o + j)
      BY <1>0, <2>2
    <2>7. pos \in Nat /\ pos + Word <= limit
      BY <1>0, <1>4, <2>2
    <2> HIDE DEF pos
    <2>8. \A j \in 1..Word : b[pos + j] = WriteInt(a[i], Word)[j]
      BY <2>5, <2>6
    <2> DEFINE v == a[i]
    <2>9. v \in Nat /\ v < Power[Word] /\ Word \in 1..Word
      BY <1>0
    <2>10. \A j \in 1..Word : b[pos + j] = WriteInt(v, Word)[j]
      BY <2>8
    <2> HIDE DEF v
    <2>11. ReadInt(b, pos, limit, Word) = [value |-> v, at |-> pos + Word]
      BY <2>7, <2>9, <2>10, IntReadsBack
    <2>12. ReadInt(b, (at + Word) + o, limit, Word).value = v
      BY <2>11 DEF pos
    <2> QED
      BY <2>12, Zenon DEF o, v
  <1>8. [i \in 1..c |-> ReadInt(b, (at + Word) + Word * (i - 1), limit, Word).value] = a
    <2>1. a = [i \in 1..c |-> a[i]]
      OBVIOUS
    <2> HIDE DEF c
    <2> QED
      BY <1>7, <2>1
  <1>9. (IF c = 0 THEN at + Word ELSE Least((at + Word) + Word * c, limit)) = at + Len(u \o t)
    BY <1>0, <1>3, <1>4, SMTT(40) DEF Least
  <1> HIDE DEF c, u, x
  <1>10. ReadPTPArray(b, at, limit) =
           [value |-> [numElements |-> c, array |-> a], at |-> at + Len(u \o t)]
    <2> DEFINE r == ReadInt(b, at, limit, Word)
    <2>1. r.value = c /\ r.at = at + Word
      BY <1>5
    <2> HIDE DEF r
    <2>2. ReadPTPArray(b, at, limit) =
            [value |-> [numElements |-> r.value,
                        array |-> [i \in 1..Least(r.value, Starting(r.at, limit, Word)) |->
                            ReadInt(b, r.at + Word * (i - 1), limit, Word).value]],
             at |-> IF Least(r.value, Starting(r.at, limit, Word)) = 0 THEN r.at
                    ELSE Least(r.at + Word * Least(r.value, Starting(r.at, limit, Word)), limit)]
      BY Zenon DEF ReadPTPArray, r
    <2> QED
      BY <1>6, <1>8, <1>9, <2>1, <2>2, Zenon
  <1> QED
    BY <1>10 DEF c, u, t

\* Bytes that stand somewhere can be cut out.
LEMMA CutOut ==
    ASSUME NEW S, NEW b \in Seq(S), NEW at \in Nat, NEW w \in Seq(S), Holds(b, at, w)
    PROVE  SubSeq(b, at + 1, at + Len(w)) = w
  <1> DEFINE r == SubSeq(b, at + 1, at + Len(w))
  <1>0. Len(w) \in Nat /\ Len(b) \in Nat /\ at + Len(w) <= Len(b)
        /\ \A j \in 1..Len(w) : b[at + j] = w[j]
    BY DEF Holds
  <1>1. r = [i \in 1..Len(w) |-> b[at + i]]
    <2>1. r = [i \in 1..((at + Len(w)) - (at + 1) + 1) |-> b[i + (at + 1) - 1]]
      BY <1>0
    <2>2. (at + Len(w)) - (at + 1) + 1 = Len(w) /\ \A i \in 1..Len(w) : i + (at + 1) - 1 = at + i
      BY <1>0
    <2> HIDE DEF r
    <2> QED
      BY <2>1, <2>2
  <1>2. w = [i \in 1..Len(w) |-> w[i]]
    OBVIOUS
  <1> HIDE DEF r
  <1>3. r = w
    BY <1>0, <1>1, <1>2
  <1> QED
    BY <1>3 DEF r

\* The packets from every offset of b on.
PacketsFrom(b, limit) ==
    CHOOSE f : f = [o \in 0..limit |->
        IF o = limit THEN <<>>
        ELSE LET end == PacketEnd(b, o, limit)
             IN  IF end = o THEN << <<>> >>
                 ELSE <<SubSeq(b, o + 1, end)>> \o f[end]]

\* Packets are read to the limit, if there is anything before it.
LEMMA ReadPacketsIs ==
    ASSUME NEW b, NEW at, NEW limit
    PROVE  ReadPackets(b, at, limit) =
             IF at >= limit THEN [value |-> <<>>, at |-> at]
             ELSE [value |-> PacketsFrom(b, limit)[at], at |-> limit]
  BY DEF ReadPackets, PacketsFrom

\* What is read at o, when d is what is read behind it.
FromHere(b, limit, o, d) ==
    IF o = limit THEN <<>>
    ELSE IF PacketEnd(b, o, limit) = o THEN << <<>> >>
    ELSE <<SubSeq(b, o + 1, PacketEnd(b, o, limit))>> \o d[PacketEnd(b, o, limit)]

\* A packet ends where it starts, or later.
LEMMA PacketEndsLater ==
    ASSUME NEW b \in Seq(Byte), NEW limit \in 0..Len(b), NEW o \in 0..limit
    PROVE  PacketEnd(b, o, limit) \in o..limit
  <1>1. Len(b) \in Nat /\ Word \in 1..Long
    BY Sizes
  <1> DEFINE x == ReadInt(b, o, limit, Word).value
  <1>2. x \in Nat
    BY <1>1, IntIsTyped
  <1> HIDE DEF x
  <1>3. Least(o + x, limit) \in o..limit
    BY <1>1, <1>2 DEF Least
  <1> QED
    BY <1>3 DEF PacketEnd, x

\* Reading ends: what is read at an offset needs what is read behind it only.
LEMMA PacketsFromIs ==
    ASSUME NEW b \in Seq(Byte), NEW limit \in 0..Len(b)
    PROVE  \A o \in 0..limit :
             PacketsFrom(b, limit)[o] = FromHere(b, limit, o, PacketsFrom(b, limit))
  <1> DEFINE V == Seq(Seq(Byte))
             D == [0..limit -> V]
             base == [o \in 0..limit |-> <<>>]
             step == [k \in 1..limit |-> [d \in D |->
                        [d EXCEPT ![limit - k] = FromHere(b, limit, limit - k, d)]]]
             R(f) == f = [o \in 0..limit |-> FromHere(b, limit, o, f)]
  <1>0. limit \in Nat /\ Len(b) \in Nat
    OBVIOUS
  <1>1. <<>> \in V
    BY EmptySeq, Zenon
  <1>2. ASSUME NEW d \in D, NEW o \in 0..limit PROVE FromHere(b, limit, o, d) \in V
    <2> DEFINE e == PacketEnd(b, o, limit)
    <2>1. e \in o..limit
      BY PacketEndsLater
    <2> HIDE DEF e
    <2>2. e \in 0..limit /\ d[e] \in V
      BY <1>0, <2>1
    <2>3. <<SubSeq(b, o + 1, e)>> \o d[e] \in V
      <3>1. SubSeq(b, o + 1, e) \in Seq(Byte)
        BY <1>0, <2>1
      <3> DEFINE p == SubSeq(b, o + 1, e)
                 t == d[e]
      <3>2. p \in Seq(Byte) /\ t \in Seq(Seq(Byte))
        BY <2>2, <3>1
      <3> HIDE DEF p, t
      <3>3. <<p>> \in Seq(Seq(Byte))
        BY <3>2
      <3>4. <<p>> \o t \in Seq(Seq(Byte))
        BY <3>2, <3>3, ConcatProperties
      <3> QED
        BY <3>4 DEF p, t
    <2>4. << <<>> >> \in V
      <3>1. <<>> \in Seq(Byte)
        BY EmptySeq, Zenon
      <3> QED
        BY <3>1
    <2> HIDE DEF V
    <2> QED
      BY <1>1, <2>3, <2>4 DEF FromHere, e
  <1>3. base \in D /\ step \in [1..limit -> [D -> D]]
    <2>1. base \in D
      <3> HIDE DEF V
      <3> QED  BY <1>1
    <2>2. ASSUME NEW k \in 1..limit, NEW d \in D
          PROVE  [d EXCEPT ![limit - k] = FromHere(b, limit, limit - k, d)] \in D
      <3>1. limit - k \in 0..limit
        BY <1>0
      <3>2. FromHere(b, limit, limit - k, d) \in V
        BY <1>2, <3>1
      <3> HIDE DEF V
      <3> QED
        BY <3>1, <3>2
    <2> HIDE DEF base, D
    <2> QED
      BY <2>1, <2>2
  <1> HIDE DEF V, base
  <1>4. PICK g : Iterates(g, D, base, limit, step)
    <2> HIDE DEF D, step
    <2> QED  BY <1>0, <1>3, IterationExists, Zenon
  <1>5. /\ \A k \in 0..limit : g[k] \in D
        /\ g[0] = base
        /\ \A k \in 1..limit :
              g[k] = [g[k - 1] EXCEPT ![limit - k] = FromHere(b, limit, limit - k, g[k - 1])]
    <2>1. \A k \in 1..limit : k - 1 \in 0..limit
      BY <1>0
    <2>2. /\ \A k \in 0..limit : g[k] \in D
          /\ g[0] = base
          /\ \A k \in 1..limit : g[k] = step[k][g[k - 1]]
      <3> HIDE DEF D, step
      <3> QED  BY <1>4 DEF Iterates
    <2> HIDE DEF D
    <2> QED
      BY <2>1, <2>2
  <1> HIDE DEF step
  <1> DEFINE Right(k) == \A o \in 0..limit :
                  o >= limit - k => g[k][o] = FromHere(b, limit, o, g[k])
             T == {k \in Nat : k <= limit => Right(k)}
  <1>6. 0 \in T
    <2>1. g[0][limit] = <<>>
      BY <1>0, <1>5 DEF base
    <2>2. FromHere(b, limit, limit, g[0]) = <<>>
      BY DEF FromHere
    <2>3. \A o \in 0..limit : o >= limit - 0 => o = limit
      BY <1>0
    <2> QED
      BY <2>1, <2>2, <2>3
  <1>7. ASSUME NEW k \in T PROVE k + 1 \in T
    <2> SUFFICES ASSUME k + 1 <= limit PROVE Right(k + 1)
      <3> HIDE DEF Right
      <3> QED  BY <1>7
    <2> DEFINE c == limit - (k + 1)
               d == g[k]
    <2>1. /\ k \in Nat /\ k + 1 \in 1..limit /\ (k + 1) - 1 = k /\ k \in 0..limit
          /\ c \in 0..limit /\ c < limit /\ limit - k = c + 1
      BY <1>0, <1>7
    <2>2. d \in D /\ g[k + 1] = [d EXCEPT ![c] = FromHere(b, limit, c, d)]
      <3> HIDE DEF D
      <3> QED  BY <1>5, <2>1
    <2>3. \A o \in 0..limit : o >= c + 1 => d[o] = FromHere(b, limit, o, d)
      <3>1. Right(k)
        <4> HIDE DEF Right
        <4> QED  BY <1>7, <2>1
      <3> HIDE DEF c, d
      <3> QED  BY <2>1, <3>1 DEF d
    <2> DEFINE h == g[k + 1]
    <2> HIDE DEF d, c
    <2>4. h = [d EXCEPT ![c] = FromHere(b, limit, c, d)]
      BY <2>2
    <2> HIDE DEF h
    <2>5. h[c] = FromHere(b, limit, c, d) /\ \A o \in 0..limit : o > c => h[o] = d[o]
      BY <1>0, <2>1, <2>2, <2>4
    <2>6. \A o \in 0..limit : o >= c => FromHere(b, limit, o, h) = FromHere(b, limit, o, d)
      <3> TAKE o \in 0..limit
      <3> HAVE o >= c
      <3> DEFINE e == PacketEnd(b, o, limit)
      <3>1. e \in o..limit
        BY PacketEndsLater
      <3> HIDE DEF e
      <3>2. e = o \/ h[e] = d[e]
        BY <1>0, <2>1, <2>5, <3>1
      <3> QED
        BY <3>2 DEF FromHere, e
    <2>7. ASSUME NEW o \in 0..limit, o >= c PROVE h[o] = FromHere(b, limit, o, h)
      <3>1. CASE o = c
        BY <2>5, <2>6, <2>7, <3>1
      <3>2. CASE o # c
        <4>1. o > c /\ o >= c + 1
          BY <1>0, <2>1, <2>7, <3>2
        <4> QED
          BY <2>3, <2>5, <2>6, <2>7, <4>1
      <3> QED
        BY <3>1, <3>2
    <2> QED
      BY <2>7 DEF h, c
  <1> HIDE DEF Right
  <1>8. T = Nat
    BY <1>6, <1>7, Induct
  <1> DEFINE f == g[limit]
  <1>9. R(f)
    <2>1. Right(limit)
      <3>1. \A k \in Nat : k <= limit => Right(k)
        BY <1>8
      <3> QED
        BY <1>0, <3>1
    <2>2. \A o \in 0..limit : o >= limit - limit
      BY <1>0
    <2>3. \A o \in 0..limit : f[o] = FromHere(b, limit, o, f)
      BY <2>1, <2>2 DEF Right
    <2>4. f \in D /\ limit \in 0..limit
      <3> HIDE DEF D
      <3> QED  BY <1>0, <1>5
    <2> HIDE DEF f
    <2> QED
      BY <2>3, <2>4
  <1> DEFINE from == PacketsFrom(b, limit)
  <1>10. R(from)
    <2>1. from = CHOOSE z : R(z)
      BY DEF PacketsFrom, FromHere
    <2> HIDE DEF R, from, f
    <2> QED
      BY <1>9, <2>1
  <1> HIDE DEF from
  <1>11. \A o \in 0..limit : from[o] = FromHere(b, limit, o, from)
    BY <1>10
  <1> QED
    BY <1>11 DEF from

\* A packet in the hands of the library starts with its length.
LEMMA SizedIs ==
    ASSUME NEW p \in Sized
    PROVE  /\ p \in Seq(Byte) /\ Len(p) \in Nat /\ Len(p) >= Word /\ Len(p) < Power[Word]
           /\ \A j \in 1..Word : p[j] = WriteInt(Len(p), Word)[j]
  <1>0. Word \in Nat /\ Word >= 2 /\ Power[Word] \in Nat
    <2>1. Word \in 0..Long
      BY Sizes
    <2> QED
      BY <2>1, Sizes, PowerIs
  <1>1. /\ p \in Seq(Byte) /\ Len(p) >= Word /\ Len(p) \in 0..(Power[Word] - 1)
        /\ SubSeq(p, 1, Word) = WriteInt(Len(p), Word)
    BY DEF Sized, Words
  <1>2. \A j \in 1..Word : SubSeq(p, 1, Word)[j] = p[j]
    BY <1>0, <1>1
  <1> QED
    BY <1>0, <1>1, <1>2

\* The first element and the others.
LEMMA FirstAndRest ==
    ASSUME NEW S, NEW s \in Seq(S), NEW k \in 1..Len(s)
    PROVE  <<s[k]>> \o SubSeq(s, k + 1, Len(s)) = SubSeq(s, k, Len(s))
  <1> DEFINE t == SubSeq(s, k + 1, Len(s))
             u == SubSeq(s, k, Len(s))
             r == <<s[k]>> \o t
  <1>0. Len(s) \in Nat /\ k \in Nat
    OBVIOUS
  <1>1. t \in Seq(S) /\ Len(t) = Len(s) - k /\ \A j \in 1..Len(s) - k : t[j] = s[j + k]
    BY <1>0
  <1>2. u \in Seq(S) /\ Len(u) = Len(s) - k + 1
        /\ \A j \in 1..(Len(s) - k + 1) : u[j] = s[(j + k) - 1]
    BY <1>0
  <1> DEFINE h == <<s[k]>>
  <1>3. h \in Seq(S) /\ Len(h) = 1 /\ h[1] = s[k]
    OBVIOUS
  <1> HIDE DEF t, u, h
  <1>4. /\ r \in Seq(S) /\ Len(r) = 1 + (Len(s) - k)
        /\ r[1] = s[k] /\ \A j \in 1..Len(s) - k : r[1 + j] = t[j]
    <2>1. h \o t \in Seq(S) /\ Appended(h, t, h \o t)
      BY <1>1, <1>3, OneMorePart, Zenon
    <2>2. r = h \o t
      BY DEF h
    <2> HIDE DEF r
    <2> QED
      BY <1>1, <1>3, <2>1, <2>2 DEF Appended
  <1>5. ASSUME NEW j \in 1..(Len(s) - k + 1) PROVE r[j] = u[j]
    <2>1. CASE j = 1
      BY <1>0, <1>2, <1>3, <1>4, <2>1
    <2>2. CASE j # 1
      <3>1. j - 1 \in 1..Len(s) - k /\ 1 + (j - 1) = j /\ (j - 1) + k = (j + k) - 1
        BY <1>0, <2>2
      <3>2. r[1 + (j - 1)] = t[j - 1]
        BY <1>4, <3>1
      <3>3. t[j - 1] = s[(j - 1) + k]
        BY <1>1, <3>1
      <3> QED
        BY <1>2, <3>1, <3>2, <3>3
    <2> QED
      BY <2>1, <2>2
  <1> HIDE DEF r
  <1>6. r = u
    BY <1>0, <1>2, <1>4, <1>5, SMTT(40)
  <1> QED
    BY <1>6 DEF r, t, u

\* A Vector of PacketBuffers: packets that take all there is are read back.
LEMMA PacketsReadBack ==
    ASSUME NEW b \in Seq(Byte), NEW at \in Nat, NEW limit \in 0..Len(b),
           NEW ps \in Seq(Sized), Holds(b, at, FlattenSeq(ps)),
           at + Len(FlattenSeq(ps)) = limit
    PROVE  ReadPackets(b, at, limit) = [value |-> ps, at |-> limit]
  <1> DEFINE n == Len(ps)
             flat == FlattenSeq(ps)
             from == PacketsFrom(b, limit)
  <1>0. n \in Nat /\ limit \in Nat /\ Len(b) \in Nat /\ Word \in Nat /\ Word >= 2
    BY Sizes
  <1>1. \A k \in 1..n : /\ ps[k] \in Sized /\ ps[k] \in Seq(Byte) /\ Len(ps[k]) \in Nat
                        /\ Len(ps[k]) >= Word /\ Len(ps[k]) < Power[Word]
                        /\ \A j \in 1..Word : ps[k][j] = WriteInt(Len(ps[k]), Word)[j]
    <2>1. \A k \in 1..n : ps[k] \in Sized
      OBVIOUS
    <2> QED
      BY <2>1, SizedIs
  <1>2. ps \in Seq(Seq(Byte))
    BY <1>1
  <1>3. flat \in Seq(Byte) /\ \E ends : StandIn(ps, flat, ends)
    BY <1>2, FlattenIs
  <1> HIDE DEF flat
  <1>4. PICK ends : StandIn(ps, flat, ends)
    BY <1>3
  <1>5. /\ \A k \in 0..n : ends[k] \in Nat
        /\ ends[0] = 0 /\ ends[n] = Len(flat)
        /\ \A k \in 1..n : /\ ends[k] = ends[k - 1] + Len(ps[k])
                           /\ ends[k] <= Len(flat)
                           /\ \A j \in 1..Len(ps[k]) : flat[ends[k - 1] + j] = ps[k][j]
    BY <1>4 DEF StandIn
  <1>6. Len(flat) \in Nat /\ at + Len(flat) = limit
        /\ \A j \in 1..Len(flat) : b[at + j] = flat[j]
    BY <1>3 DEF Holds, flat
  <1>7. \A o \in 0..limit : from[o] = FromHere(b, limit, o, from)
    BY PacketsFromIs
  <1> HIDE DEF from, n
  <1>8. ASSUME NEW k \in 1..n
        PROVE  /\ at + ends[k - 1] \in 0..limit /\ at + ends[k - 1] # limit
               /\ PacketEnd(b, at + ends[k - 1], limit) = at + ends[k]
               /\ PacketEnd(b, at + ends[k - 1], limit) # at + ends[k - 1]
               /\ SubSeq(b, at + ends[k - 1] + 1, at + ends[k]) = ps[k]
    <2> DEFINE e == ends[k - 1]
               o == at + e
               len == Len(ps[k])
    <2>1. /\ e \in Nat /\ o \in Nat /\ len \in Nat /\ len >= Word /\ len < Power[Word]
          /\ ends[k] = e + len /\ o + len <= limit /\ e + len <= Len(flat)
      <3>1. k - 1 \in 0..n
        BY <1>0
      <3>2. e \in Nat
        BY <1>5, <3>1
      <3>3. ends[k] = e + len /\ ends[k] <= Len(flat)
        BY <1>5
      <3>4. len \in Nat /\ len >= Word /\ len < Power[Word]
        BY <1>1
      <3> HIDE DEF e, len
      <3> QED
        BY <1>0, <1>6, <3>2, <3>3, <3>4
    <2>2. \A j \in 1..len : b[o + j] = ps[k][j]
      <3> TAKE j \in 1..len
      <3>1. flat[e + j] = ps[k][j]
        BY <1>5
      <3> HIDE DEF e
      <3> DEFINE i == e + j
      <3>2. i \in 1..Len(flat) /\ at + i = o + j
        BY <1>6, <2>1
      <3> HIDE DEF i
      <3>3. b[at + i] = flat[i]
        BY <1>6, <3>2
      <3> QED
        BY <3>1, <3>2, <3>3 DEF i
    <2>3. Holds(b, o, ps[k])
      <3> HIDE DEF o
      <3> QED  BY <1>0, <2>1, <2>2 DEF Holds
    <2>4. ReadInt(b, o, limit, Word) = [value |-> len, at |-> o + Word]
      <3>1. \A j \in 1..Word : b[o + j] = WriteInt(len, Word)[j]
        <4>1. \A j \in 1..Word : j \in 1..len
          BY <1>0, <2>1
        <4>2. \A j \in 1..Word : ps[k][j] = WriteInt(len, Word)[j]
          BY <1>1
        <4> HIDE DEF o, len
        <4> QED
          BY <2>2, <4>1, <4>2
      <3> HIDE DEF o, len
      <3>2. Word \in 1..Word /\ o + Word <= limit
        BY <1>0, <2>1
      <3> QED
        BY <2>1, <3>1, <3>2, IntReadsBack, ZenonT(60)
    <2>5. SubSeq(b, o + 1, o + len) = ps[k]
      <3>1. ps[k] \in Seq(Byte) /\ o \in Nat
        BY <1>1, <2>1
      <3> DEFINE p == ps[k]
      <3> HIDE DEF o, p
      <3>2. SubSeq(b, o + 1, o + Len(p)) = p
        BY <2>3, <3>1, CutOut DEF p
      <3> QED
        BY <3>2 DEF p
    <2>6. PacketEnd(b, o, limit) = o + len
      <3>1. PacketEnd(b, o, limit) = Least(o + len, limit)
        BY <2>4 DEF PacketEnd
      <3> HIDE DEF o, len
      <3> QED
        BY <1>0, <2>1, <3>1 DEF Least
    <2>7. o \in 0..limit /\ o # limit /\ o + len # o /\ o + len = at + ends[k]
      <3>1. o = at + e
        OBVIOUS
      <3> HIDE DEF o, e, len
      <3> QED
        BY <1>0, <2>1, <3>1
    <2> HIDE DEF len
    <2> QED
      BY <2>5, <2>6, <2>7
  <1> DEFINE T == {m \in Nat : m <= n => from[at + ends[n - m]] = SubSeq(ps, n - m + 1, n)}
  <1>9. 0 \in T
    <2>1. from[limit] = <<>>
      <3>1. limit \in 0..limit
        BY <1>0
      <3> QED
        BY <1>7, <3>1 DEF FromHere
    <2>2. SubSeq(ps, n + 1, n) = <<>>
      BY <1>0 DEF n
    <2>3. n - 0 = n
      BY <1>0
    <2> QED
      BY <1>5, <1>6, <2>1, <2>2, <2>3
  <1>10. ASSUME NEW m \in T PROVE m + 1 \in T
    <2> SUFFICES ASSUME m + 1 <= n
                 PROVE  from[at + ends[n - (m + 1)]] = SubSeq(ps, n - (m + 1) + 1, n)
      BY <1>10
    <2> DEFINE k == n - m
    <2>1. m \in Nat /\ k \in 1..n /\ n - (m + 1) = k - 1 /\ n - (m + 1) + 1 = k /\ n - m + 1 = k + 1
      BY <1>0, <1>10
    <2>2. from[at + ends[k]] = SubSeq(ps, k + 1, n)
      <3>1. m <= n
        BY <1>0, <2>1
      <3> QED
        BY <1>10, <3>1, Zenon
    <2> DEFINE o == at + ends[k - 1]
    <2> HIDE DEF k
    <2>3. /\ o \in 0..limit /\ o # limit
          /\ PacketEnd(b, o, limit) = at + ends[k] /\ PacketEnd(b, o, limit) # o
          /\ SubSeq(b, o + 1, at + ends[k]) = ps[k]
      BY <1>8, <2>1
    <2> HIDE DEF o
    <2>4. from[o] = <<SubSeq(b, o + 1, PacketEnd(b, o, limit))>> \o from[PacketEnd(b, o, limit)]
      BY <1>7, <2>3 DEF FromHere
    <2>5. from[o] = <<ps[k]>> \o SubSeq(ps, k + 1, n)
      BY <2>2, <2>3, <2>4
    <2>6. <<ps[k]>> \o SubSeq(ps, k + 1, n) = SubSeq(ps, k, n)
      BY <2>1, FirstAndRest DEF n
    <2> QED
      BY <2>1, <2>5, <2>6 DEF o
  <1>11. from[at] = ps
    <2>1. T = Nat
      BY <1>9, <1>10, Induct
    <2>2. from[at + ends[n - n]] = SubSeq(ps, n - n + 1, n)
      <3>1. n \in T /\ n <= n
        <4> HIDE DEF T
        <4> QED  BY <1>0, <2>1
      <3> QED
        BY <3>1, Zenon
    <2>3. n - n = 0 /\ n - n + 1 = 1 /\ at + 0 = at
      BY <1>0
    <2>4. SubSeq(ps, 1, n) = ps
      BY DEF n
    <2> QED
      BY <1>5, <2>2, <2>3, <2>4
  <1>12. CASE at >= limit
    <2>1. at = limit /\ Len(flat) = 0
      BY <1>0, <1>6, <1>12
    <2>2. n = 0
      <3> SUFFICES ASSUME n # 0 PROVE FALSE
        OBVIOUS
      <3>1. 1 \in 1..n /\ 1 - 1 = 0 /\ 0 \in 0..n
        BY <1>0
      <3>2. ends[1] = ends[0] + Len(ps[1]) /\ ends[1] <= Len(flat) /\ Len(ps[1]) >= Word
            /\ Len(ps[1]) \in Nat
        BY <1>1, <1>5, <3>1
      <3> QED
        BY <1>0, <1>5, <2>1, <3>2
    <2>3. ps = <<>>
      BY <2>2 DEF n
    <2> QED
      BY <1>12, <2>1, <2>3, ReadPacketsIs
  <1>13. CASE ~(at >= limit)
    BY <1>11, <1>13, ReadPacketsIs DEF from
  <1> QED
    BY <1>12, <1>13

-----------------------------------------------------------------------------
(* Fields of a packet.                                                     *)

\* The packer of each kind of field.
LEMMA ReadIs ==
    ASSUME NEW b, NEW at, NEW limit
    PROVE  /\ Read("length", b, at, limit) = ReadInt(b, at, limit, Word)
           /\ Read("word", b, at, limit) = ReadInt(b, at, limit, Word)
           /\ Read("byte", b, at, limit) = ReadInt(b, at, limit, 1)
           /\ Read("long", b, at, limit) = ReadInt(b, at, limit, Long)
           /\ Read("string", b, at, limit) = ReadString(b, at, limit)
           /\ Read("ptpString", b, at, limit) = ReadPTPString(b, at, limit)
           /\ Read("ptpArray", b, at, limit) = ReadPTPArray(b, at, limit)
           /\ Read("rest", b, at, limit) =
                [value |-> SubSeq(b, at + 1, limit), at |-> IF at < limit THEN limit ELSE at]
           /\ Read("packets", b, at, limit) = ReadPackets(b, at, limit)
  BY DEF Read, Width

\* And what it writes.
LEMMA WriteIs ==
    ASSUME NEW v
    PROVE  /\ Write("length", v) = WriteInt(v, Word)
           /\ Write("word", v) = WriteInt(v, Word)
           /\ Write("byte", v) = WriteInt(v, 1)
           /\ Write("long", v) = WriteInt(v, Long)
           /\ Write("string", v) = WriteString(v)
           /\ Write("ptpString", v) = WritePTPString(v)
           /\ Write("ptpArray", v) = WriteInt(v.numElements, Word) \o WriteInts(v.array)
           /\ Write("rest", v) = v
           /\ Write("packets", v) = FlattenSeq(v)
  BY DEF Write, Width

\* The bytes w are the value v to the packer of a field, wherever they stand; one
\* that takes what is left has no other bytes behind it.
ReadsAs(field, w, v) ==
    /\ w \in Seq(Byte)
    /\ \A b \in Seq(Byte), at \in Nat : \A limit \in 0..Len(b) :
          /\ Holds(b, at, w)
          /\ at + Len(w) <= limit
          /\ field \in Greedy => at + Len(w) = limit
          => Read(field, b, at, limit) = [value |-> v, at |-> at + Len(w)]

\* Numbers of the width of a word, and their bound.
LEMMA WordsAre ==
    /\ Word \in Nat /\ Word \in 1..Word /\ Power[Word] \in Nat
    /\ Words \subseteq Nat /\ \A x \in Nat : x \in Words <=> x < Power[Word]
    /\ Byte \subseteq Nat /\ Power[1] = Base /\ 1 \in 1..Word
  <1>1. Word \in 0..Long /\ Word \in Nat /\ Word >= 2 /\ Base \in Nat /\ 1 \in 1..Long
    BY Sizes
  <1>2. Power[Word] \in Nat
    BY <1>1, PowerIs
  <1>3. Power[1] = Base
    <2>1. Power[1] = Base * Power[1 - 1] /\ 1 - 1 = 0 /\ Power[0] = 1
      BY <1>1, PowerIs
    <2>2. Power[1] = Base * Power[0]
      BY <2>1
    <2> QED
      BY <1>1, <2>1, <2>2
  <1> QED
    BY <1>1, <1>2, <1>3 DEF Words, Byte

\* Words, and the length among them.
LEMMA WordReads ==
    ASSUME NEW v \in Words
    PROVE  ReadsAs("word", WriteInt(v, Word), v) /\ ReadsAs("length", WriteInt(v, Word), v)
  <1> DEFINE w == WriteInt(v, Word)
  <1>1. v \in Nat /\ v < Power[Word]
    BY WordsAre
  <1>2. w \in Seq(Byte) /\ Len(w) = Word
    BY <1>1, WordsAre, WriteIntIs
  <1>3. ASSUME NEW b \in Seq(Byte), NEW at \in Nat, NEW limit \in 0..Len(b),
               Holds(b, at, w), at + Len(w) <= limit
        PROVE  ReadInt(b, at, limit, Word) = [value |-> v, at |-> at + Len(w)]
    <2>1. \A j \in 1..Word : b[at + j] = WriteInt(v, Word)[j]
      BY <1>2, <1>3 DEF Holds
    <2>2. at + Word <= limit
      BY <1>2, <1>3
    <2>3. ReadInt(b, at, limit, Word) = [value |-> v, at |-> at + Word]
      BY <1>1, <2>1, <2>2, WordsAre, IntReadsBack
    <2> QED
      BY <1>2, <2>3
  <1> HIDE DEF w
  <1>4. ReadsAs("word", w, v) /\ ReadsAs("length", w, v)
    BY <1>2, <1>3, ReadIs, SMTT(40) DEF ReadsAs
  <1> QED
    BY <1>4 DEF w

\* Bytes.
LEMMA ByteReads ==
    ASSUME NEW v \in Byte
    PROVE  ReadsAs("byte", WriteInt(v, 1), v)
  <1> DEFINE w == WriteInt(v, 1)
  <1>0. 1 \in Nat /\ 1 \in 1..Word /\ Power[1] = Base
    BY WordsAre
  <1>1. v \in Nat /\ v < Power[1]
    BY <1>0, Sizes DEF Byte
  <1>2. w \in Seq(Byte) /\ Len(w) = 1
    BY <1>0, <1>1, WriteIntIs, Zenon
  <1>3. ASSUME NEW b \in Seq(Byte), NEW at \in Nat, NEW limit \in 0..Len(b),
               Holds(b, at, w), at + Len(w) <= limit
        PROVE  ReadInt(b, at, limit, 1) = [value |-> v, at |-> at + Len(w)]
    <2>1. \A j \in 1..1 : b[at + j] = WriteInt(v, 1)[j]
      BY <1>2, <1>3 DEF Holds
    <2>2. at + 1 <= limit
      BY <1>2, <1>3
    <2>3. ReadInt(b, at, limit, 1) = [value |-> v, at |-> at + 1]
      BY <1>0, <1>1, <2>1, <2>2, IntReadsBack, Zenon
    <2> QED
      BY <1>2, <2>3
  <1> HIDE DEF w
  <1>4. ReadsAs("byte", w, v)
    BY <1>2, <1>3, ReadIs DEF ReadsAs
  <1> QED
    BY <1>4 DEF w

\* Integers of twice the width, below the sign of an int.
LEMMA LongReads ==
    ASSUME NEW v \in Nat, v < Power[Word] \div 2
    PROVE  ReadsAs("long", WriteInt(v, Long), v)
  <1> DEFINE w == WriteInt(v, Long)
  <1>1. Long \in Nat
    BY Sizes
  <1>2. w \in Seq(Byte) /\ Len(w) = Long
    BY <1>1, WriteIntIs
  <1>3. ASSUME NEW b \in Seq(Byte), NEW at \in Nat, NEW limit \in 0..Len(b),
               Holds(b, at, w), at + Len(w) <= limit
        PROVE  ReadInt(b, at, limit, Long) = [value |-> v, at |-> at + Len(w)]
    <2>1. \A j \in 1..Long : b[at + j] = WriteInt(v, Long)[j]
      BY <1>2, <1>3 DEF Holds
    <2>2. at + Long <= limit
      BY <1>2, <1>3
    <2>3. ReadInt(b, at, limit, Long) = [value |-> v, at |-> at + Long]
      BY <2>1, <2>2, LongReadsBack
    <2> QED
      BY <1>2, <2>3
  <1> HIDE DEF w
  <1>4. ReadsAs("long", w, v)
    BY <1>2, <1>3, ReadIs DEF ReadsAs
  <1> QED
    BY <1>4 DEF w

\* Texts that end with a terminator.
LEMMA StringReads ==
    ASSUME NEW s \in Text, NEW w, WideText(w, s)
    PROVE  ReadsAs("string", w, s)
  <1>1. w \in Seq(Byte)
    BY DEF WideText
  <1>2. \A b \in Seq(Byte), at \in Nat : \A limit \in 0..Len(b) :
            Holds(b, at, w) /\ at + Len(w) <= limit
              => ReadString(b, at, limit) = [value |-> s, at |-> at + Len(w)]
    BY StringReadsBack
  <1> QED
    BY <1>1, <1>2, ReadIs DEF ReadsAs

\* Texts that are counted.
LEMMA PTPStringReads ==
    ASSUME NEW s \in Text, NEW t, WideText(t, s), NEW c \in 1..(Base - 1)
    PROVE  ReadsAs("ptpString", WriteInt(c, 1) \o t, s)
  <1> DEFINE w == WriteInt(c, 1) \o t
  <1>1. w \in Seq(Byte)
    <2>1. c \in Nat /\ 1 \in Nat /\ t \in Seq(Byte)
      BY DEF WideText
    <2> DEFINE u == WriteInt(c, 1)
    <2>2. u \in Seq(Byte)
      BY <2>1, WriteIntIs, Zenon
    <2> HIDE DEF u
    <2> QED
      BY <2>1, <2>2, ConcatProperties DEF u
  <1>2. \A b \in Seq(Byte), at \in Nat : \A limit \in 0..Len(b) :
            Holds(b, at, w) /\ at + Len(w) <= limit
              => ReadPTPString(b, at, limit) = [value |-> s, at |-> at + Len(w)]
    BY CountedStringReadsBack
  <1> HIDE DEF w
  <1>3. ReadsAs("ptpString", w, s)
    BY <1>1, <1>2, ReadIs DEF ReadsAs
  <1> QED
    BY <1>3 DEF w

\* The single 0 of an empty text.
LEMMA EmptyReads == ReadsAs("ptpString", <<0>>, <<>>)
  <1> DEFINE w == <<0>>
  <1>1. w \in Seq(Byte) /\ Len(w) = 1 /\ w[1] = 0
    BY Sizes DEF Byte
  <1>2. ASSUME NEW b \in Seq(Byte), NEW at \in Nat, NEW limit \in 0..Len(b),
               Holds(b, at, w), at + Len(w) <= limit
        PROVE  ReadPTPString(b, at, limit) = [value |-> <<>>, at |-> at + Len(w)]
    <2>1. at < limit /\ limit \in Nat /\ b[at + 1] = 0
      BY <1>1, <1>2 DEF Holds
    <2> HIDE DEF w
    <2> QED
      BY <1>1, <2>1, EmptyStringReadsBack
  <1> DEFINE e == <<>>
  <1>3. \A b \in Seq(Byte), at \in Nat : \A limit \in 0..Len(b) :
            Holds(b, at, w) /\ at + Len(w) <= limit
              => Read("ptpString", b, at, limit) = [value |-> e, at |-> at + Len(w)]
    <2> HIDE DEF w
    <2> QED  BY <1>2, ReadIs
  <1> HIDE DEF w, e
  <1>4. ReadsAs("ptpString", w, e)
    BY <1>1, <1>3 DEF ReadsAs
  <1> QED
    BY <1>4 DEF w, e

\* Arrays with their count.
LEMMA ArrayReads ==
    ASSUME NEW a \in Seq(Words), Len(a) \in Words
    PROVE  ReadsAs("ptpArray", WriteInt(Len(a), Word) \o WriteInts(a),
                   [numElements |-> Len(a), array |-> a])
  <1> DEFINE w == WriteInt(Len(a), Word) \o WriteInts(a)
             v == [numElements |-> Len(a), array |-> a]
  <1>1. w \in Seq(Byte)
    <2> DEFINE u == WriteInt(Len(a), Word)
               t == WriteInts(a)
    <2>1. a \in Seq(Nat) /\ Len(a) \in Nat
      <3>1. \A x \in Words : x \in Nat
        BY WordsAre
      <3> QED
        BY <3>1
    <2>2. u \in Seq(Byte) /\ t \in Seq(Byte)
      BY <2>1, WordsAre, WriteIntIs, WriteIntsIs
    <2> HIDE DEF u, t
    <2> QED
      BY <2>2, ConcatProperties DEF u, t
  <1>2. \A b \in Seq(Byte), at \in Nat : \A limit \in 0..Len(b) :
            Holds(b, at, w) /\ at + Len(w) <= limit
              => ReadPTPArray(b, at, limit) = [value |-> v, at |-> at + Len(w)]
    BY ArrayReadsBack
  <1> HIDE DEF w, v
  <1>3. ReadsAs("ptpArray", w, v)
    BY <1>1, <1>2, ReadIs DEF ReadsAs
  <1> QED
    BY <1>3 DEF w, v

\* Whatever is left.
LEMMA RestReads ==
    ASSUME NEW w \in Seq(Byte)
    PROVE  ReadsAs("rest", w, w)
  <1>1. ASSUME NEW b \in Seq(Byte), NEW at \in Nat, NEW limit \in 0..Len(b),
               Holds(b, at, w), at + Len(w) = limit
        PROVE  Read("rest", b, at, limit) = [value |-> w, at |-> at + Len(w)]
    <2>1. SubSeq(b, at + 1, limit) = w
      BY <1>1, CutOut
    <2>2. (IF at < limit THEN limit ELSE at) = at + Len(w)
      BY <1>1
    <2>3. Read("rest", b, at, limit) =
            [value |-> SubSeq(b, at + 1, limit), at |-> IF at < limit THEN limit ELSE at]
      BY DEF Read
    <2> QED
      BY <2>1, <2>2, <2>3, Zenon
  <1>2. "rest" \in Greedy
    BY DEF Greedy
  <1> QED
    BY <1>1, <1>2 DEF ReadsAs

\* Packets up to the end.
LEMMA PacketsRead ==
    ASSUME NEW ps \in Seq(Sized)
    PROVE  ReadsAs("packets", FlattenSeq(ps), ps)
  <1> DEFINE w == FlattenSeq(ps)
  <1>1. ASSUME NEW b \in Seq(Byte), NEW at \in Nat, NEW limit \in 0..Len(b),
               Holds(b, at, w), at + Len(w) = limit
        PROVE  Read("packets", b, at, limit) = [value |-> ps, at |-> at + Len(w)]
    <2>1. ReadPackets(b, at, limit) = [value |-> ps, at |-> limit]
      BY <1>1, PacketsReadBack
    <2> QED
      BY <1>1, <2>1, ReadIs
  <1>2. w \in Seq(Byte)
    <2>1. ps \in Seq(Seq(Byte))
      BY SizedIs
    <2> QED
      BY <2>1, FlattenIs
  <1>3. "packets" \in Greedy
    BY DEF Greedy
  <1> HIDE DEF w
  <1>4. ReadsAs("packets", w, ps)
    BY <1>1, <1>2, <1>3 DEF ReadsAs
  <1> QED
    BY <1>4 DEF w

\* The kinds of fields.
Fields == {"length", "byte", "word", "long", "string", "ptpString", "ptpArray", "rest",
           "packets"}

\* At the limit every field is zero or empty.
LEMMA DefaultReads ==
    ASSUME NEW b, NEW at \in Nat, NEW field \in Fields
    PROVE  Read(field, b, at, at) = [value |-> Default(field), at |-> at]
  <1>1. ASSUME NEW width \in Nat
        PROVE  ReadInt(b, at, at, width) = [value |-> 0, at |-> at]
    <2>1. Taken(at, at, width) = 0
      BY DEF Taken
    <2>2. ~(0 >= Word) /\ at + 0 = at
      BY Sizes
    <2>3. Value(b, at, 0)[0] = 0
      BY NoValue
    <2> QED
      BY <2>1, <2>2, <2>3, ReadIntIs
  <1>2. \A width \in Nat : Starting(at, at, width) = 0
    BY DEF Starting
  <1>3. Read("string", b, at, at) = [value |-> <<>>, at |-> at]
    <2>1. Starting(at, at, 2) = 0
      BY DEF Starting
    <2>2. Zeros(b, at, at) = {}
      BY <2>1 DEF Zeros
    <2>3. Chars(b, at, at) = 0
      BY <2>1, <2>2 DEF Chars
    <2>4. ReadString(b, at, at) =
            [value |-> [k \in 1..0 |-> Char(b, at, at, k) % Base], at |-> at]
      BY <2>1, <2>3, ReadStringIs
    <2>5. [k \in 1..0 |-> Char(b, at, at, k) % Base] = <<>>
      OBVIOUS
    <2> QED
      BY <2>4, <2>5, ReadIs
  <1>4. Read("ptpString", b, at, at) = [value |-> <<>>, at |-> at]
    <2>1. at >= at
      OBVIOUS
    <2> QED
      BY <2>1, ReadIs DEF ReadPTPString
  <1>5. Read("ptpArray", b, at, at) =
          [value |-> [numElements |-> 0, array |-> <<>>], at |-> at]
    <2> DEFINE r == ReadInt(b, at, at, Word)
               n == Least(r.value, Starting(r.at, at, Word))
    <2>1. r.value = 0 /\ r.at = at
      BY <1>1, Sizes
    <2>2. n = 0
      <3> HIDE DEF r
      <3>1. Starting(at, at, Word) = 0
        BY <1>2, Sizes
      <3> QED
        BY <2>1, <3>1 DEF Least
    <2> HIDE DEF r, n
    <2>3. ReadPTPArray(b, at, at) =
            [value |-> [numElements |-> r.value,
                        array |-> [i \in 1..n |-> ReadInt(b, r.at + Word * (i - 1), at, Word).value]],
             at |-> IF n = 0 THEN r.at ELSE Least(r.at + Word * n, at)]
      BY Zenon DEF ReadPTPArray, r, n
    <2>4. [i \in 1..0 |-> ReadInt(b, r.at + Word * (i - 1), at, Word).value] = <<>>
      OBVIOUS
    <2> QED
      BY <2>1, <2>2, <2>3, <2>4, ReadIs
  <1>6. Read("rest", b, at, at) = [value |-> <<>>, at |-> at]
    <2>1. SubSeq(b, at + 1, at) = <<>>
      <3>1. SubSeq(b, at + 1, at) = [i \in 1..(at - (at + 1) + 1) |-> b[i + (at + 1) - 1]]
        BY DEF SubSeq
      <3>2. at - (at + 1) + 1 = 0
        OBVIOUS
      <3>3. [i \in 1..0 |-> b[i + (at + 1) - 1]] = <<>>
        OBVIOUS
      <3> QED
        BY <3>1, <3>2, <3>3
    <2>2. ~(at < at)
      OBVIOUS
    <2> QED
      BY <2>1, <2>2, ReadIs
  <1>7. Read("packets", b, at, at) = [value |-> <<>>, at |-> at]
    <2>1. at >= at
      OBVIOUS
    <2> QED
      BY <2>1, ReadPacketsIs, ReadIs
  <1>8. /\ Read("length", b, at, at) = [value |-> 0, at |-> at]
        /\ Read("word", b, at, at) = [value |-> 0, at |-> at]
        /\ Read("byte", b, at, at) = [value |-> 0, at |-> at]
        /\ Read("long", b, at, at) = [value |-> 0, at |-> at]
    <2>1. Word \in Nat /\ Long \in Nat /\ 1 \in Nat
      BY Sizes
    <2>2. /\ ReadInt(b, at, at, Word) = [value |-> 0, at |-> at]
          /\ ReadInt(b, at, at, Long) = [value |-> 0, at |-> at]
          /\ ReadInt(b, at, at, 1) = [value |-> 0, at |-> at]
      BY <1>1, <2>1
    <2> QED
      BY <2>2, ReadIs
  <1> QED
    BY <1>3, <1>4, <1>5, <1>6, <1>7, <1>8 DEF Fields, Default

-----------------------------------------------------------------------------
(* Packets.                                                                *)

\* What the proofs need of the fields of a packet: the length is the first, those
\* that take what is left are the last, and each kind of field is in the packets
\* it is in.
FieldsFit(class, layout) ==
    LET n == Len(layout)
    IN  /\ n \in Nat /\ n >= 1
        /\ layout = [k \in 1..n |-> layout[k]]
        /\ \A k \in 1..n :
              /\ layout[k] \in Fields
              /\ layout[k] = "length" => k = 1
              /\ layout[k] \in Greedy => k = n
              /\ layout[k] = "string" => class \notin FromCamera
              /\ layout[k] = "long" => class = "StartData"
              /\ layout[k] = "ptpString" => class = "DeviceInfo"
              /\ layout[k] = "ptpArray" => class \in {"DeviceInfo", "EOSDeviceInfo"}
              /\ class = "DeviceInfo" => layout[k] \in {"byte", "ptpString", "ptpArray"}
              /\ class = "StartData" => layout[k] \in {"length", "word", "long"}
        /\ layout[1] = "length" => n >= 2
        /\ layout[1] = "length" <=> class \notin {"DeviceInfo", "EOSEventData"}

\* The packets of the library are so.
LEMMA LayoutFacts ==
    ASSUME NEW class \in DOMAIN Layouts
    PROVE  FieldsFit(class, Layouts[class])
  <1>1. CASE class = "InitCommandRequest"
    <2>1. Layouts[class] = <<"length", "word", "string", "word">>
      BY <1>1 DEF Layouts
    <2> QED
      BY <1>1, <2>1 DEF FieldsFit, Fields, Greedy, FromCamera
  <1>2. CASE class = "OperationResponse"
    <2>1. Layouts[class] = <<"length", "word", "byte", "word">>
      BY <1>2 DEF Layouts
    <2> QED
      BY <1>2, <2>1 DEF FieldsFit, Fields, Greedy, FromCamera
  <1>3. CASE class = "StartData"
    <2>1. Layouts[class] = <<"length", "word", "long">>
      BY <1>3 DEF Layouts
    <2> QED
      BY <1>3, <2>1 DEF FieldsFit, Fields, Greedy, FromCamera
  <1>4. CASE class = "EndData"
    <2>1. Layouts[class] = <<"length", "word", "rest">>
      BY <1>4 DEF Layouts
    <2> QED
      BY <1>4, <2>1 DEF FieldsFit, Fields, Greedy, FromCamera
  <1>5. CASE class = "EventContainer"
    <2>1. Layouts[class] = <<"length", "word", "string", "packets">>
      BY <1>5 DEF Layouts
    <2> QED
      BY <1>5, <2>1 DEF FieldsFit, Fields, Greedy, FromCamera
  <1>6. CASE class = "DeviceInfo"
    <2>1. Layouts[class] = <<"byte", "ptpString", "ptpArray", "ptpString">>
      BY <1>6 DEF Layouts
    <2> QED
      BY <1>6, <2>1 DEF FieldsFit, Fields, Greedy, FromCamera
  <1>7. CASE class = "EOSDeviceInfo"
    <2>1. Layouts[class] = <<"length", "ptpArray", "ptpArray">>
      BY <1>7 DEF Layouts
    <2> QED
      BY <1>7, <2>1 DEF FieldsFit, Fields, Greedy, FromCamera
  <1>8. CASE class = "EOSEventData"
    <2>1. Layouts[class] = <<"packets">>
      BY <1>8 DEF Layouts
    <2> QED
      BY <1>8, <2>1 DEF FieldsFit, Fields, Greedy, FromCamera
  <1> QED
    BY <1>1, <1>2, <1>3, <1>4, <1>5, <1>6, <1>7, <1>8 DEF Layouts

\* Where Packet::unpack is after every field.
Progress(layout, b) ==
    CHOOSE f : f = [k \in 0..Len(layout) |->
        IF k = 0 THEN [at |-> 0, limit |-> Len(b), value |-> <<>>]
        ELSE LET before == f[k - 1]
                 r == Read(layout[k], b, before.at, before.limit)
             IN  [at |-> r.at, value |-> r.value,
                  limit |-> LimitAfter(layout[k], r.value, before.limit)]]

\* The members after Packet::unpack.
UnpackedAs(layout, b) == [k \in 1..Len(layout) |-> Progress(layout, b)[k].value]

\* Packet::unpack of the class at hand.
LEMMA UnpackedIs ==
    ASSUME NEW b
    PROVE  Unpacked(b) = UnpackedAs(Layout, b)
  BY DEF Unpacked, UnpackedAs, Progress

\* From each field of b the value v is read, up to where the next one starts.
ReadInTurn(layout, n, b, v, ends) ==
    /\ ends[0] = 0
    /\ \A k \in 1..n : /\ Read(layout[k], b, ends[k - 1], Len(b)) =
                              [value |-> v[k], at |-> ends[k]]
                       /\ layout[k] = "length" => v[k] = Len(b)

\* Packet::unpack reads the fields one after the other: when each is read from
\* where the one before it ended, and the length is that of the bytes, these are
\* the values it finds.
LEMMA FieldsRead ==
    ASSUME NEW layout, NEW n \in Nat, Len(layout) = n, NEW b, Len(b) \in Nat,
           NEW v, NEW ends, ReadInTurn(layout, n, b, v, ends)
    PROVE  UnpackedAs(layout, b) = [k \in 1..n |-> v[k]]
  <1> USE DEF ReadInTurn
  <1> DEFINE limit == Len(b)
             Next1(k, before) ==
                LET r == Read(layout[k], b, before.at, before.limit)
                IN  [at |-> r.at, value |-> r.value,
                     limit |-> LimitAfter(layout[k], r.value, before.limit)]
             start == [at |-> 0, limit |-> limit, value |-> <<>>]
             R(f) == f = [k \in 0..n |-> IF k = 0 THEN start ELSE Next1(k, f[k - 1])]
             A == [k \in 0..n |-> IF k = 0 THEN start
                                  ELSE [at |-> ends[k], value |-> v[k], limit |-> limit]]
  <1>1. ASSUME NEW k \in 1..n, NEW before, before.at = ends[k - 1], before.limit = limit
        PROVE  Next1(k, before) = [at |-> ends[k], value |-> v[k], limit |-> limit]
    <2> DEFINE r == Read(layout[k], b, before.at, before.limit)
    <2>1. r = [value |-> v[k], at |-> ends[k]]
      BY <1>1
    <2>2. LimitAfter(layout[k], v[k], limit) = limit
      BY DEF LimitAfter, Least
    <2>3. r.at = ends[k] /\ r.value = v[k]
      BY <2>1
    <2> HIDE DEF r
    <2>4. Next1(k, before) = [at |-> r.at, value |-> r.value,
                              limit |-> LimitAfter(layout[k], r.value, before.limit)]
      BY Zenon DEF r
    <2> QED
      BY <1>1, <2>2, <2>3, <2>4, Zenon
  <1>2. \A k \in 0..n : k = 0 \/ (k \in 1..n /\ k # 0 /\ k - 1 \in 0..n)
    OBVIOUS
  <1>3. /\ A[0] = start
        /\ \A k \in 1..n : A[k] = [at |-> ends[k], value |-> v[k], limit |-> limit]
        /\ \A k \in 0..n : A[k].at = ends[k] /\ A[k].limit = limit
    <2> HIDE DEF limit
    <2>1. 0 \in 0..n /\ \A k \in 1..n : k \in 0..n /\ k # 0
      OBVIOUS
    <2>2. /\ A[0] = start
          /\ \A k \in 1..n : A[k] = [at |-> ends[k], value |-> v[k], limit |-> limit]
      BY <2>1
    <2> HIDE DEF A
    <2>3. A[0].at = ends[0] /\ A[0].limit = limit
      BY <2>2
    <2>4. \A k \in 1..n : A[k].at = ends[k] /\ A[k].limit = limit
      <3> TAKE k \in 1..n
      <3> DEFINE a == A[k]
      <3>1. a = [at |-> ends[k], value |-> v[k], limit |-> limit]
        BY <2>2, Zenon
      <3> HIDE DEF a
      <3>2. a.at = ends[k] /\ a.limit = limit
        BY <3>1
      <3> QED
        BY <3>2 DEF a
    <2> HIDE DEF start
    <2> QED
      BY <1>2, <2>2, <2>3, <2>4, Zenon
  <1>4. R(A)
    <2>1. ASSUME NEW k \in 1..n PROVE A[k] = Next1(k, A[k - 1])
      <3>1. k - 1 \in 0..n
        OBVIOUS
      <3> DEFINE before == A[k - 1]
      <3>2. before.at = ends[k - 1] /\ before.limit = limit
        <4> HIDE DEF A
        <4> QED  BY <1>3, <3>1
      <3> HIDE DEF before, A, Next1
      <3>3. Next1(k, before) = [at |-> ends[k], value |-> v[k], limit |-> limit]
        BY <1>1, <3>2
      <3> QED
        BY <1>3, <3>3 DEF before
    <2>2. \A k \in 0..n : A[k] = IF k = 0 THEN start ELSE Next1(k, A[k - 1])
      <3> HIDE DEF A, start, Next1
      <3> QED  BY <1>2, <1>3, <2>1
    <2>3. A = [k \in 0..n |-> A[k]]
      <3> HIDE DEF start, limit
      <3> QED  OBVIOUS
    <2> HIDE DEF A, start, Next1
    <2> QED
      BY <2>2, <2>3
  <1> DEFINE after == Progress(layout, b)
  <1>5. R(after)
    <2>1. after = CHOOSE f : R(f)
      BY DEF Progress
    <2> HIDE DEF R, after, A
    <2> QED
      BY <1>4, <2>1
  <1> HIDE DEF after, A, Next1, start
  <1>6. \A k \in 0..n : after[k] = A[k]
    <2> DEFINE T == {k \in Nat : k <= n => after[k] = A[k]}
    <2>1. 0 \in T
      <3>1. 0 \in 0..n
        OBVIOUS
      <3> QED
        BY <1>3, <1>5, <3>1
    <2>2. ASSUME NEW k \in T PROVE k + 1 \in T
      <3> SUFFICES ASSUME k + 1 <= n PROVE after[k + 1] = A[k + 1]
        BY <2>2
      <3> DEFINE c == k + 1
      <3>1. c \in 0..n /\ c # 0 /\ c - 1 = k /\ after[k] = A[k]
        BY <2>2
      <3> HIDE DEF c
      <3>2. after[c] = Next1(c, after[c - 1])
        BY <1>5, <3>1
      <3>3. A[c] = Next1(c, A[c - 1])
        BY <1>4, <3>1
      <3> QED
        BY <3>1, <3>2, <3>3 DEF c
    <2>3. T = Nat
      BY <2>1, <2>2, Induct
    <2> QED
      BY <2>3
  <1>7. \A k \in 1..n : after[k].value = v[k]
    <2>1. \A k \in 1..n : k \in 0..n
      OBVIOUS
    <2>2. \A k \in 1..n : after[k] = [at |-> ends[k], value |-> v[k], limit |-> limit]
      BY <1>3, <1>6, <2>1, Zenon
    <2> TAKE k \in 1..n
    <2> DEFINE a == after[k]
    <2>3. a = [at |-> ends[k], value |-> v[k], limit |-> limit]
      BY <2>2, Zenon
    <2> HIDE DEF a
    <2>4. a.value = v[k]
      BY <2>3
    <2> QED
      BY <2>4 DEF a
  <1> QED
    BY <1>7 DEF UnpackedAs, after

\* The parts are the values v of the fields, and the length is theirs together.
PartsOf(layout, ws, v) ==
    /\ Len(ws) = Len(layout)
    /\ \A k \in 1..Len(layout) : ReadsAs(layout[k], ws[k], v[k])
    /\ layout[1] = "length" => v[1] = Len(FlattenSeq(ws))

\* A packet whose parts are the values of its fields is read back.
LEMMA PartsReadBack ==
    ASSUME NEW class \in DOMAIN Layouts, NEW layout, layout = Layouts[class],
           NEW ws \in Seq(Seq(Byte)), NEW v, PartsOf(layout, ws, v)
    PROVE  UnpackedAs(layout, FlattenSeq(ws)) = [k \in 1..Len(layout) |-> v[k]]
  <1> USE DEF PartsOf
  <1> DEFINE n == Len(layout)
             b == FlattenSeq(ws)
             limit == Len(b)
  <1>1. FieldsFit(class, layout)
    BY LayoutFacts
  <1>2. n \in Nat /\ n >= 1
        /\ \A k \in 1..n : /\ layout[k] = "length" => k = 1
                           /\ layout[k] \in Greedy => k = n
    BY <1>1 DEF FieldsFit
  <1>3. b \in Seq(Byte)
    BY FlattenIs
  <1>4. PICK ends : StandIn(ws, b, ends)
    BY FlattenIs
  <1> HIDE DEF b
  <1>5. limit \in Nat /\ limit \in 0..Len(b)
    BY <1>3
  <1>6. ASSUME NEW k \in 1..n
        PROVE  Read(layout[k], b, ends[k - 1], limit) = [value |-> v[k], at |-> ends[k]]
    <2> DEFINE w == ws[k]
               at == ends[k - 1]
               field == layout[k]
    <2>1. /\ ends \in [0..n -> Nat] /\ ends[n] = limit
          /\ ends[k] = ends[k - 1] + Len(w) /\ ends[k] <= limit
          /\ \A j \in 1..Len(w) : b[at + j] = w[j]
      BY <1>4 DEF StandIn
    <2>2. at \in Nat
      <3>1. k - 1 \in 0..n
        BY <1>2
      <3> QED
        BY <2>1, <3>1
    <2>3. field \in Greedy => k = n
      BY <1>2
    <2>4. ReadsAs(field, w, v[k])
      OBVIOUS
    <2> HIDE DEF w, at, field, n
    <2>5. Holds(b, at, w) /\ at + Len(w) <= limit /\ (field \in Greedy => at + Len(w) = limit)
      BY <1>5, <2>1, <2>2, <2>3 DEF Holds, at
    <2>6. Read(field, b, at, limit) = [value |-> v[k], at |-> at + Len(w)]
      BY <1>3, <1>5, <2>2, <2>4, <2>5 DEF ReadsAs
    <2>7. at + Len(w) = ends[k]
      BY <2>1 DEF at
    <2> QED
      BY <2>6, <2>7 DEF at, field
  <1>7. \A k \in 1..n : layout[k] = "length" => v[k] = limit
    BY <1>2 DEF b
  <1>8. ends[0] = 0
    BY <1>4 DEF StandIn
  <1>9. UnpackedAs(layout, b) = [k \in 1..n |-> v[k]]
    <2>1. ReadInTurn(layout, n, b, v, ends)
      BY <1>6, <1>7, <1>8 DEF ReadInTurn
    <2>2. Len(layout) = n /\ Len(b) \in Nat
      BY <1>5
    <2> HIDE DEF n
    <2> QED
      BY <1>2, <2>1, <2>2, FieldsRead
  <1> QED
    BY <1>9 DEF b

\* Parts of the same lengths are as long together.
LEMMA SameLengths ==
    ASSUME NEW S, NEW ps \in Seq(Seq(S)), NEW qs \in Seq(Seq(S)), Len(ps) = Len(qs),
           \A k \in 1..Len(ps) : Len(ps[k]) = Len(qs[k])
    PROVE  Len(FlattenSeq(ps)) = Len(FlattenSeq(qs))
  <1> DEFINE n == Len(ps)
             a == FlattenSeq(ps)
             b == FlattenSeq(qs)
  <1>0. n \in Nat
    OBVIOUS
  <1>1. PICK e : StandIn(ps, a, e)
    BY FlattenIs
  <1>2. PICK f : StandIn(qs, b, f)
    BY FlattenIs
  <1> HIDE DEF a, b
  <1>3. /\ e[0] = 0 /\ e[n] = Len(a) /\ \A k \in 1..n : e[k] = e[k - 1] + Len(ps[k])
        /\ f[0] = 0 /\ f[n] = Len(b) /\ \A k \in 1..n : f[k] = f[k - 1] + Len(qs[k])
    BY <1>1, <1>2 DEF StandIn
  <1> DEFINE T == {k \in Nat : k <= n => e[k] = f[k]}
  <1>4. 0 \in T
    BY <1>3
  <1>5. ASSUME NEW k \in T PROVE k + 1 \in T
    <2> HIDE DEF n
    <2> SUFFICES ASSUME k + 1 <= n PROVE e[k + 1] = f[k + 1]
      BY <1>5
    <2> DEFINE c == k + 1
    <2>0. k \in Nat /\ k <= n
      <3>1. k \in Nat
        BY <1>5
      <3> QED
        BY <1>0, <3>1
    <2>1. c \in 1..n /\ c - 1 = k /\ e[k] = f[k]
      <3>1. e[k] = f[k]
        BY <1>5, <2>0
      <3>2. \A x, y \in Nat : x + 1 <= y => x + 1 \in 1..y /\ (x + 1) - 1 = x
        OBVIOUS
      <3>3. k + 1 \in 1..n /\ (k + 1) - 1 = k
        BY <1>0, <2>0, <3>2, Zenon
      <3> QED
        BY <3>1, <3>3, Zenon
    <2> HIDE DEF c
    <2>2. e[c] = e[c - 1] + Len(ps[c]) /\ f[c] = f[c - 1] + Len(qs[c])
      BY <1>3, <2>1
    <2>3. Len(ps[c]) = Len(qs[c])
      BY <2>1 DEF n
    <2>4. e[c] = f[c]
      BY <2>1, <2>2, <2>3
    <2> QED
      BY <2>4 DEF c
  <1>6. e[n] = f[n]
    <2> HIDE DEF n
    <2>1. T = Nat
      BY <1>4, <1>5, Induct
    <2> QED
      BY <1>0, <2>1
  <1> QED
    BY <1>3, <1>6 DEF a, b

\* A sequence of elements of a set is one of elements of a wider set.
LEMMA WiderSeq ==
    ASSUME NEW S, NEW T, S \subseteq T, NEW s \in Seq(S)
    PROVE  s \in Seq(T)
  <1>1. s = [i \in 1..Len(s) |-> s[i]] /\ Len(s) \in Nat /\ \A i \in 1..Len(s) : s[i] \in T
    OBVIOUS
  <1> QED
    BY <1>1

\* Texts are bytes.
LEMMA TextsAreBytes == Text \subseteq Seq(Byte)
  <1>1. 1..(Base - 1) \subseteq Byte
    BY Sizes DEF Byte
  <1>2. ASSUME NEW s \in Text PROVE s \in Seq(Byte)
    <2>1. s \in Seq(1..(Base - 1))
      BY DEF Text
    <2> QED
      BY <1>1, <2>1, WiderSeq, Zenon
  <1> QED
    BY <1>2

\* Every member can be written.
LEMMA WritesBytes ==
    ASSUME NEW field \in Fields, NEW v \in Held(field)
    PROVE  Write(field, v) \in Seq(Byte)
  <1>1. \A x \in Nat : /\ WriteInt(x, Word) \in Seq(Byte) /\ WriteInt(x, 1) \in Seq(Byte)
                       /\ WriteInt(x, Long) \in Seq(Byte)
    <2>1. Word \in Nat /\ 1 \in Nat /\ Long \in Nat
      BY Sizes
    <2>2. \A x, width \in Nat : WriteInt(x, width) \in Seq(Byte)
      BY WriteIntIs
    <2> QED
      BY <2>1, <2>2
  <1>2. Words \subseteq Nat /\ Byte \subseteq Nat
    BY WordsAre
  <1>3. CASE field \in {"length", "word"}
    <2>1. v \in Nat
      BY <1>2, <1>3 DEF Held
    <2>2. Write(field, v) = WriteInt(v, Word)
      BY <1>3, WriteIs
    <2> QED
      BY <1>1, <2>1, <2>2
  <1>4. CASE field = "byte"
    <2>1. v \in Nat
      BY <1>2, <1>4 DEF Held
    <2> QED
      BY <1>1, <1>4, <2>1, WriteIs
  <1>5. CASE field = "long"
    <2>1. v \in Nat
      BY <1>5 DEF Held
    <2> QED
      BY <1>1, <1>5, <2>1, WriteIs
  <1>6. CASE field = "string"
    <2>1. v \in Seq(Byte)
      <3>1. v \in Text
        BY <1>6 DEF Held
      <3> QED
        BY <3>1, TextsAreBytes
    <2>2. WriteString(v) \in Seq(Byte)
      BY <2>1, WriteStringIs DEF WideText
    <2> QED
      BY <1>6, <2>2, WriteIs
  <1>7. CASE field = "ptpString"
    <2> DEFINE m == Least(Len(v), MaxChars)
               cut == SubSeq(v, 1, m)
    <2>1. v \in Seq(Byte) /\ Len(v) \in Nat
      BY <1>7 DEF Held
    <2>2. m \in 0..Len(v)
      BY <2>1, Sizes DEF Least
    <2>3. cut \in Seq(Byte) /\ Len(cut) \in Nat
      <3> HIDE DEF m
      <3> QED  BY <2>1, <2>2
    <2> HIDE DEF cut, m
    <2> DEFINE u == WriteInt(Len(cut) + 1, 1)
               t == WriteString(cut)
    <2>4. t \in Seq(Byte)
      BY <2>3, WriteStringIs DEF WideText
    <2>5. u \in Seq(Byte)
      <3>1. Len(cut) + 1 \in Nat
        BY <2>3
      <3> QED
        BY <1>1, <3>1
    <2> HIDE DEF u, t
    <2>6. u \o t \in Seq(Byte)
      BY <2>4, <2>5, ConcatProperties
    <2>7. WritePTPString(v) = u \o t
      BY Zenon DEF WritePTPString, u, t, cut, m
    <2> QED
      BY <1>7, <2>6, <2>7, WriteIs
  <1>8. CASE field = "ptpArray"
    <2>1. v \in [numElements : Words, array : Seq(Words)]
      BY <1>8 DEF Held
    <2>2. v.numElements \in Nat /\ v.array \in Seq(Words)
      BY <1>2, <2>1
    <2> DEFINE u == WriteInt(v.numElements, Word)
               a == v.array
               t == WriteInts(a)
    <2>3. u \in Seq(Byte)
      BY <1>1, <2>2
    <2>4. t \in Seq(Byte)
      <3>1. a \in Seq(Words)
        BY <2>2
      <3> HIDE DEF a
      <3>2. a \in Seq(Nat)
        BY <1>2, <3>1, WiderSeq, Zenon
      <3> QED
        BY <3>2, WriteIntsIs
    <2>5. Write(field, v) = u \o t
      BY <1>8, WriteIs
    <2> HIDE DEF u, t
    <2> QED
      BY <2>3, <2>4, <2>5, ConcatProperties
  <1>9. CASE field = "rest"
    BY <1>9, WriteIs DEF Held
  <1>10. CASE field = "packets"
    <2>1. v \in Seq(Sized)
      BY <1>10 DEF Held
    <2>2. FlattenSeq(v) \in Seq(Byte)
      BY <2>1, PacketsRead DEF ReadsAs
    <2> QED
      BY <1>10, <2>2, WriteIs
  <1> QED
    BY <1>3, <1>4, <1>5, <1>6, <1>7, <1>8, <1>9, <1>10 DEF Fields

\* A member is read back from what is written of it: when its count is right, its
\* text is no longer than can be counted and has no 0, and its sign is not that
\* of an int.
LEMMA FieldReadsBack ==
    ASSUME NEW field \in Fields, NEW v \in Held(field),
           field = "long" => v < Power[Word] \div 2,
           field \in {"string", "ptpString"} => v \in Text,
           field = "ptpString" => Len(v) <= MaxChars,
           field = "ptpArray" => v.numElements = Len(v.array)
    PROVE  ReadsAs(field, Write(field, v), v)
  <1>1. CASE field \in {"length", "word"}
    <2>1. v \in Words
      BY <1>1 DEF Held
    <2> QED
      BY <1>1, <2>1, WriteIs, WordReads
  <1>2. CASE field = "byte"
    <2>1. v \in Byte
      BY <1>2 DEF Held
    <2> QED
      BY <1>2, <2>1, WriteIs, ByteReads
  <1>3. CASE field = "long"
    <2>1. v \in Nat /\ v < Power[Word] \div 2
      BY <1>3 DEF Held
    <2> QED
      BY <1>3, <2>1, WriteIs, LongReads
  <1>4. CASE field = "string"
    <2>1. v \in Text /\ v \in Seq(Byte)
      BY <1>4, TextsAreBytes
    <2>2. WideText(WriteString(v), v)
      BY <2>1, WriteStringIs
    <2> QED
      BY <1>4, <2>1, <2>2, WriteIs, StringReads
  <1>5. CASE field = "ptpString"
    <2>1. v \in Text /\ v \in Seq(Byte) /\ Len(v) <= MaxChars
      BY <1>5, TextsAreBytes
    <2> DEFINE c == Len(v) + 1
               t == WriteString(v)
    <2>2. WideText(t, v)
      BY <2>1, WriteStringIs
    <2>3. WritePTPString(v) = WriteInt(c, 1) \o t /\ c \in 1..(Base - 1)
      BY <2>1, WritePTPStringIs
    <2> HIDE DEF c, t
    <2>4. ReadsAs("ptpString", WriteInt(c, 1) \o t, v)
      BY <2>1, <2>2, <2>3, PTPStringReads
    <2> QED
      BY <1>5, <2>3, <2>4, WriteIs
  <1>6. CASE field = "ptpArray"
    <2>1. v \in [numElements : Words, array : Seq(Words)] /\ v.numElements = Len(v.array)
      BY <1>6 DEF Held
    <2> DEFINE a == v.array
    <2>2. a \in Seq(Words) /\ Len(a) \in Words /\ v = [numElements |-> Len(a), array |-> a]
      BY <2>1
    <2>3. Write(field, v) = WriteInt(Len(a), Word) \o WriteInts(a)
      BY <1>6, <2>1, WriteIs
    <2> HIDE DEF a
    <2>4. ReadsAs("ptpArray", WriteInt(Len(a), Word) \o WriteInts(a),
                  [numElements |-> Len(a), array |-> a])
      BY <2>2, ArrayReads
    <2> QED
      BY <1>6, <2>2, <2>3, <2>4
  <1>7. CASE field = "rest"
    <2>1. v \in Seq(Byte)
      BY <1>7 DEF Held
    <2> QED
      BY <1>7, <2>1, WriteIs, RestReads
  <1>8. CASE field = "packets"
    <2>1. v \in Seq(Sized)
      BY <1>8 DEF Held
    <2> QED
      BY <1>8, <2>1, WriteIs, PacketsRead
  <1> QED
    BY <1>1, <1>2, <1>3, <1>4, <1>5, <1>6, <1>7, <1>8 DEF Fields

-----------------------------------------------------------------------------
(* What the application packs.                                             *)

\* The bytes of every field.
Parts(vs) == [i \in 1..Len(vs) |-> Write(Layout[i], vs[i])]

\* The fields of the packet at hand.
LEMMA FieldsAre ==
    ASSUME kind \in DOMAIN Layouts
    PROVE  FieldsFit(kind, Layout) /\ Len(Layout) \in Nat /\ Len(Layout) >= 1
           /\ \A k \in 1..Len(Layout) : Layout[k] \in Fields
  <1>1. FieldsFit(kind, Layout)
    BY LayoutFacts DEF Layout
  <1> QED
    BY <1>1 DEF FieldsFit

\* All members together can be written.
LEMMA PartsAre ==
    ASSUME kind \in DOMAIN Layouts, NEW vs, Holding(vs)
    PROVE  /\ Parts(vs) \in Seq(Seq(Byte)) /\ Len(Parts(vs)) = Len(Layout)
           /\ \A k \in 1..Len(Layout) : Parts(vs)[k] = Write(Layout[k], vs[k])
           /\ Bytes(vs) = FlattenSeq(Parts(vs)) /\ Bytes(vs) \in Seq(Byte)
  <1> DEFINE n == Len(Layout)
             ps == Parts(vs)
  <1>0. n \in Nat /\ Len(vs) = n /\ \A k \in 1..n : Layout[k] \in Fields /\ vs[k] \in Held(Layout[k])
    BY FieldsAre DEF Holding
  <1>1. \A k \in 1..n : Write(Layout[k], vs[k]) \in Seq(Byte)
    BY <1>0, WritesBytes
  <1>2. ps = [k \in 1..n |-> Write(Layout[k], vs[k])]
    BY <1>0 DEF Parts
  <1> HIDE DEF ps, n
  <1>3. ps \in Seq(Seq(Byte)) /\ Len(ps) = n /\ \A k \in 1..n : ps[k] = Write(Layout[k], vs[k])
    <2> DEFINE W(k) == Write(Layout[k], vs[k])
    <2>1. ps = [k \in 1..n |-> W(k)] /\ \A k \in 1..n : W(k) \in Seq(Byte)
      BY <1>1, <1>2
    <2> HIDE DEF W
    <2>2. ps \in Seq(Seq(Byte)) /\ Len(ps) = n /\ \A k \in 1..n : ps[k] = W(k)
      BY <1>0, <2>1
    <2> QED
      BY <2>2 DEF W
  <1>4. Bytes(vs) = FlattenSeq(ps)
    BY DEF Bytes, Parts, ps
  <1>5. FlattenSeq(ps) \in Seq(Byte)
    BY <1>3, FlattenIs
  <1> QED
    BY <1>3, <1>4, <1>5 DEF ps, n

\* Every part fits in the whole.
LEMMA PartFits ==
    ASSUME kind \in DOMAIN Layouts, NEW vs, Holding(vs), NEW k \in 1..Len(Layout)
    PROVE  Len(Write(Layout[k], vs[k])) \in Nat /\ Len(Write(Layout[k], vs[k])) <= Len(Bytes(vs))
  <1> DEFINE ps == Parts(vs)
             b == Bytes(vs)
             n == Len(Layout)
  <1>1. ps \in Seq(Seq(Byte)) /\ Len(ps) = n /\ ps[k] = Write(Layout[k], vs[k])
        /\ b = FlattenSeq(ps) /\ b \in Seq(Byte) /\ n \in Nat
    BY PartsAre, FieldsAre
  <1> HIDE DEF ps, b, n
  <1>2. PICK ends : StandIn(ps, b, ends)
    BY <1>1, FlattenIs
  <1>3. k \in 1..n /\ k - 1 \in 0..n
    BY <1>1 DEF n
  <1>4. ends[k] = ends[k - 1] + Len(ps[k]) /\ ends[k] <= Len(b) /\ ends[k - 1] \in Nat
    BY <1>1, <1>2, <1>3 DEF StandIn
  <1>5. Len(ps[k]) \in Nat /\ Len(b) \in Nat
    BY <1>1, <1>3
  <1> DEFINE e == ends[k - 1]
             l == Len(ps[k])
  <1>6. l \in Nat /\ e \in Nat /\ e + l <= Len(b)
    BY <1>4, <1>5
  <1> HIDE DEF e, l
  <1>7. l \in Nat /\ l <= Len(b)
    BY <1>5, <1>6
  <1> QED
    BY <1>1, <1>7 DEF l, b

\* A packet that fits its length has arrays that fit their counts.
LEMMA CountFits ==
    ASSUME kind \in DOMAIN Layouts, NEW vs, Holding(vs), Fits(Bytes(vs)),
           NEW k \in 1..Len(Layout), Layout[k] = "ptpArray"
    PROVE  /\ vs[k] \in [numElements : Words, array : Seq(Words)]
           /\ Len(vs[k].array) \in Words
  <1> DEFINE v == vs[k]
             a == v.array
             u == WriteInt(v.numElements, Word)
             t == WriteInts(a)
  <1>1. v \in [numElements : Words, array : Seq(Words)]
    <2>1. v \in Held("ptpArray")
      BY DEF Holding
    <2> QED
      BY <2>1 DEF Held
  <1>2. v.numElements \in Nat /\ a \in Seq(Nat)
    <2>1. v.numElements \in Words /\ a \in Seq(Words)
      BY <1>1
    <2> HIDE DEF v, a
    <2>2. Words \subseteq Nat
      BY WordsAre
    <2> QED
      BY <2>1, <2>2, WiderSeq, Zenon
  <1>3. Write("ptpArray", v) = u \o t
    BY WriteIs
  <1>4. Len(Write("ptpArray", v)) <= Len(Bytes(vs))
    BY PartFits
  <1>5. Len(Bytes(vs)) < Power[Word] /\ Len(Bytes(vs)) \in Nat /\ Power[Word] \in Nat
    BY PartsAre, WordsAre DEF Fits
  <1> HIDE DEF v
  <1>6. u \in Seq(Byte)
    BY <1>2, WordsAre, WriteIntIs
  <1>7. t \in Seq(Byte) /\ Len(t) = Word * Len(a) /\ Len(a) \in Nat
    <2> HIDE DEF a
    <2> QED  BY <1>2, WriteIntsIs
  <1> HIDE DEF u, t, a
  <1>8. Len(u \o t) = Len(u) + Len(t) /\ Len(u) \in Nat /\ Len(t) \in Nat
    BY <1>6, <1>7, ConcatProperties
  <1>9. Word * Len(a) >= Len(a)
    <2>1. \A x, y \in Nat : x >= 2 => x * y >= y
      OBVIOUS
    <2> QED
      BY <1>7, <2>1, Sizes
  <1>10. Len(a) < Power[Word]
    <2> DEFINE x == Word * Len(a)
    <2>1. Len(t) = x /\ x >= Len(a)
      BY <1>7, <1>9
    <2> HIDE DEF x
    <2>2. Len(u \o t) <= Len(Bytes(vs))
      BY <1>3, <1>4
    <2> QED
      BY <1>5, <1>7, <1>8, <2>1, <2>2
  <1>11. Len(a) \in Words
    BY <1>7, <1>10, WordsAre
  <1> QED
    BY <1>1, <1>11 DEF v, a

\* Cut to what can be counted.
Cut(s) == SubSeq(s, 1, Least(Len(s), MaxChars))

\* A cut string is short enough to be written whole, as it was before.
LEMMA CutIs ==
    ASSUME NEW s \in Seq(Byte)
    PROVE  /\ Cut(s) \in Seq(Byte) /\ Len(Cut(s)) <= MaxChars /\ Cut(Cut(s)) = Cut(s)
           /\ WritePTPString(Cut(s)) = WritePTPString(s)
  <1> DEFINE m == Least(Len(s), MaxChars)
             c == Cut(s)
  <1>1. Len(s) \in Nat /\ m \in 0..Len(s) /\ m <= MaxChars /\ MaxChars \in Nat
    BY Sizes DEF Least
  <1>2. c \in Seq(Byte) /\ Len(c) = m
    <2> HIDE DEF m
    <2>1. c = SubSeq(s, 1, m)
      BY DEF Cut, m
    <2> HIDE DEF c
    <2> QED
      BY <1>1, <2>1
  <1> HIDE DEF m, c
  <1>3. Least(Len(c), MaxChars) = Len(c)
    BY <1>1, <1>2 DEF Least
  <1>4. Cut(c) = c
    <2>1. SubSeq(c, 1, Len(c)) = c
      BY <1>2
    <2> QED
      BY <1>3, <2>1, Zenon DEF Cut
  <1>5. \A z : WritePTPString(z) = WriteInt(Len(Cut(z)) + 1, 1) \o WriteString(Cut(z))
    BY Zenon DEF WritePTPString, Cut
  <1>6. WritePTPString(c) = WritePTPString(s)
    BY <1>4, <1>5, Zenon DEF c
  <1> QED
    BY <1>1, <1>2, <1>4, <1>6 DEF c

\* The fields that packing changes.
LEMMA AfterPassIs ==
    ASSUME kind \in DOMAIN Layouts, NEW vs, Holding(vs), Fits(Bytes(vs)), NEW av,
           av = AfterPass(vs)
    PROVE  /\ Holding(av)
           /\ \A k \in 1..Len(Layout) :
                 /\ Layout[k] = "length" => av[k] = Len(Bytes(vs))
                 /\ Layout[k] = "ptpString" =>
                       av[k] = Cut(vs[k]) /\ vs[k] \in Seq(Byte) /\ Len(av[k]) <= MaxChars
                 /\ Layout[k] = "ptpArray" =>
                       /\ av[k] = [numElements |-> Len(vs[k].array), array |-> vs[k].array]
                       /\ vs[k] \in [numElements : Words, array : Seq(Words)]
                 /\ Layout[k] \notin {"length", "ptpString", "ptpArray"} => av[k] = vs[k]
  <1> DEFINE n == Len(Layout)
             New(k) == CASE Layout[k] = "ptpString" -> Cut(vs[k])
                         [] Layout[k] = "ptpArray" -> [vs[k] EXCEPT !.numElements = Len(vs[k].array)]
                         [] Layout[k] = "length" -> Len(Bytes(vs))
                         [] OTHER -> vs[k]
  <1>0. n \in Nat /\ Len(vs) = n /\ \A k \in 1..n : Layout[k] \in Fields /\ vs[k] \in Held(Layout[k])
    BY FieldsAre DEF Holding
  <1>1. av = [k \in 1..n |-> New(k)]
    BY <1>0 DEF AfterPass, Cut
  <1> HIDE DEF n, New
  <1>2. Len(av) = n /\ \A k \in 1..n : av[k] = New(k)
    BY <1>0, <1>1
  <1>3. ASSUME NEW k \in 1..n, Layout[k] = "length"
        PROVE  av[k] = Len(Bytes(vs)) /\ av[k] \in Held(Layout[k])
    <2>1. av[k] = Len(Bytes(vs))
      BY <1>2, <1>3 DEF New
    <2>2. Len(Bytes(vs)) \in Words
      BY PartsAre, WordsAre DEF Fits
    <2> QED
      BY <1>3, <2>1, <2>2 DEF Held
  <1>4. ASSUME NEW k \in 1..n, Layout[k] = "ptpString"
        PROVE  av[k] = Cut(vs[k]) /\ vs[k] \in Seq(Byte) /\ Len(av[k]) <= MaxChars
               /\ av[k] \in Held(Layout[k])
    <2>1. av[k] = Cut(vs[k])
      BY <1>2, <1>4 DEF New
    <2>2. vs[k] \in Seq(Byte)
      BY <1>0, <1>4 DEF Held
    <2>3. Cut(vs[k]) \in Seq(Byte) /\ Len(Cut(vs[k])) <= MaxChars
      BY <2>2, CutIs
    <2> QED
      BY <1>4, <2>1, <2>2, <2>3 DEF Held
  <1>5. ASSUME NEW k \in 1..n, Layout[k] = "ptpArray"
        PROVE  /\ av[k] = [numElements |-> Len(vs[k].array), array |-> vs[k].array]
               /\ vs[k] \in [numElements : Words, array : Seq(Words)]
               /\ av[k] \in Held(Layout[k])
    <2>1. av[k] = [vs[k] EXCEPT !.numElements = Len(vs[k].array)]
      BY <1>2, <1>5 DEF New
    <2>2. vs[k] \in [numElements : Words, array : Seq(Words)] /\ Len(vs[k].array) \in Words
      BY <1>5, CountFits DEF n
    <2> DEFINE v == vs[k]
    <2>3. v \in [numElements : Words, array : Seq(Words)] /\ Len(v.array) \in Words
      BY <2>2
    <2> HIDE DEF v
    <2>4. /\ [v EXCEPT !.numElements = Len(v.array)] =
                [numElements |-> Len(v.array), array |-> v.array]
          /\ [v EXCEPT !.numElements = Len(v.array)] \in [numElements : Words, array : Seq(Words)]
      BY <2>3
    <2>5. av[k] = [v EXCEPT !.numElements = Len(v.array)]
      BY <2>1 DEF v
    <2>6. av[k] \in Held(Layout[k])
      BY <1>5, <2>4, <2>5 DEF Held
    <2>7. av[k] = [numElements |-> Len(v.array), array |-> v.array]
      BY <2>4, <2>5
    <2> QED
      BY <2>2, <2>6, <2>7 DEF v
  <1>6. ASSUME NEW k \in 1..n, Layout[k] \notin {"length", "ptpString", "ptpArray"}
        PROVE  av[k] = vs[k] /\ av[k] \in Held(Layout[k])
    <2>1. av[k] = vs[k]
      BY <1>2, <1>6 DEF New
    <2> QED
      BY <1>0, <2>1
  <1>7. Holding(av)
    <2>1. \A k \in 1..n : av[k] \in Held(Layout[k])
      BY <1>3, <1>4, <1>5, <1>6, Zenon
    <2>2. av = [k \in 1..n |-> av[k]]
      BY <1>1
    <2> QED
      BY <1>2, <2>1, <2>2 DEF Holding, n
  <1> QED
    BY <1>3, <1>4, <1>5, <1>6, <1>7, Zenon DEF n

\* With a length there is a second pass, as long as the first.
LEMMA SecondPassFits ==
    ASSUME kind \in DOMAIN Layouts, NEW vs, Holding(vs), Fits(Bytes(vs)), HasLength
    PROVE  Len(Bytes(AfterPass(vs))) = Len(Bytes(vs))
  <1> DEFINE n == Len(Layout)
             av == AfterPass(vs)
  <1>0. FieldsFit(kind, Layout) /\ n \in Nat /\ n >= 1 /\ \A k \in 1..n : Layout[k] \in Fields
    BY FieldsAre
  <1>1. /\ Holding(av)
        /\ \A k \in 1..n :
                 /\ Layout[k] = "length" => av[k] = Len(Bytes(vs))
                 /\ Layout[k] = "ptpArray" =>
                       /\ av[k] = [numElements |-> Len(vs[k].array), array |-> vs[k].array]
                       /\ vs[k] \in [numElements : Words, array : Seq(Words)]
                 /\ Layout[k] \notin {"length", "ptpString", "ptpArray"} => av[k] = vs[k]
    BY AfterPassIs
  <1>2. kind # "DeviceInfo" /\ \A k \in 1..n : Layout[k] # "ptpString"
    BY <1>0 DEF FieldsFit, HasLength
  <1>3. \A k \in 1..n : av[k] \in Held(Layout[k]) /\ vs[k] \in Held(Layout[k])
    BY <1>1 DEF Holding
  <1>4. /\ Parts(vs) \in Seq(Seq(Byte)) /\ Len(Parts(vs)) = n
        /\ \A k \in 1..n : Parts(vs)[k] = Write(Layout[k], vs[k])
        /\ Bytes(vs) = FlattenSeq(Parts(vs))
    BY PartsAre
  <1>5. /\ Parts(av) \in Seq(Seq(Byte)) /\ Len(Parts(av)) = n
        /\ \A k \in 1..n : Parts(av)[k] = Write(Layout[k], av[k])
        /\ Bytes(av) = FlattenSeq(Parts(av))
    <2> HIDE DEF av, n
    <2>1. Holding(av)
      BY <1>1
    <2> QED
      BY <2>1, PartsAre DEF n
  <1>6. \A x \in Words : Len(WriteInt(x, Word)) = Word /\ WriteInt(x, Word) \in Seq(Byte)
    BY WordsAre, WriteIntIs
  <1> HIDE DEF av, n
  <1>7. ASSUME NEW k \in 1..n
        PROVE  Len(Write(Layout[k], vs[k])) = Len(Write(Layout[k], av[k]))
    <2>1. CASE Layout[k] = "length"
      <3>1. vs[k] \in Words /\ av[k] \in Words
        BY <1>3, <2>1 DEF Held
      <3>2. \A x : Write(Layout[k], x) = WriteInt(x, Word)
        BY <2>1, WriteIs
      <3> QED
        BY <1>6, <3>1, <3>2
    <2>2. CASE Layout[k] = "ptpArray"
      <3> DEFINE a == vs[k].array
                 x == vs[k].numElements
                 t == WriteInts(a)
      <3>1. x \in Words /\ a \in Seq(Words) /\ av[k] = [numElements |-> Len(a), array |-> a]
        BY <1>1, <2>2
      <3>2. Len(a) \in Words
        <4>1. av[k] \in [numElements : Words, array : Seq(Words)]
          BY <1>3, <2>2 DEF Held
        <4> HIDE DEF a
        <4> QED
          BY <3>1, <4>1
      <3>3. Write(Layout[k], vs[k]) = WriteInt(x, Word) \o t
        BY <2>2, WriteIs
      <3>4. Write(Layout[k], av[k]) = WriteInt(Len(a), Word) \o t
        <4>1. av[k].numElements = Len(a) /\ av[k].array = a
          <5> HIDE DEF a
          <5> QED  BY <3>1
        <4>2. Write(Layout[k], av[k]) = WriteInt(av[k].numElements, Word) \o WriteInts(av[k].array)
          BY <2>2, WriteIs
        <4> HIDE DEF a
        <4> QED
          BY <4>1, <4>2 DEF t
      <3>5. t \in Seq(Byte)
        <4>1. Words \subseteq Nat
          BY WordsAre
        <4> HIDE DEF a
        <4>2. a \in Seq(Nat)
          BY <3>1, <4>1, WiderSeq, Zenon
        <4> QED
          BY <4>2, WriteIntsIs
      <3> HIDE DEF a, x, t
      <3>6. \A y \in Words : Len(WriteInt(y, Word) \o t) = Word + Len(t)
        <4> TAKE y \in Words
        <4> DEFINE u == WriteInt(y, Word)
        <4>1. u \in Seq(Byte) /\ Len(u) = Word
          BY <1>6
        <4> HIDE DEF u
        <4>2. Len(u \o t) = Len(u) + Len(t)
          BY <3>5, <4>1, ConcatProperties
        <4> QED
          BY <4>1, <4>2 DEF u
      <3> QED
        BY <3>1, <3>2, <3>3, <3>4, <3>6
    <2>3. CASE Layout[k] \notin {"length", "ptpString", "ptpArray"}
      BY <1>1, <2>3
    <2> QED
      BY <1>2, <2>1, <2>2, <2>3
  <1> DEFINE ps == Parts(vs)
             qs == Parts(av)
  <1>8. \A k \in 1..Len(ps) : Len(ps[k]) = Len(qs[k])
    BY <1>4, <1>5, <1>7
  <1>9. ps \in Seq(Seq(Byte)) /\ qs \in Seq(Seq(Byte)) /\ Len(ps) = Len(qs)
    BY <1>4, <1>5
  <1> HIDE DEF ps, qs
  <1>10. Len(FlattenSeq(ps)) = Len(FlattenSeq(qs))
    BY <1>8, <1>9, SameLengths
  <1> QED
    BY <1>4, <1>5, <1>10 DEF ps, qs, av

\* Without a length the only pass is as good as a second one, if the counts are
\* right.
LEMMA OnePassIsEnough ==
    ASSUME kind \in DOMAIN Layouts, NEW vs, Holding(vs), Fits(Bytes(vs)), ~HasLength, Counted(vs)
    PROVE  Bytes(AfterPass(vs)) = Bytes(vs)
  <1> DEFINE n == Len(Layout)
             av == AfterPass(vs)
  <1>0. FieldsFit(kind, Layout) /\ n \in Nat /\ n >= 1 /\ Len(vs) = n
    BY FieldsAre DEF Holding
  <1>1. /\ Holding(av)
        /\ \A k \in 1..n :
                 /\ Layout[k] = "ptpString" => av[k] = Cut(vs[k]) /\ vs[k] \in Seq(Byte)
                 /\ Layout[k] = "ptpArray" =>
                       /\ av[k] = [numElements |-> Len(vs[k].array), array |-> vs[k].array]
                       /\ vs[k] \in [numElements : Words, array : Seq(Words)]
                 /\ Layout[k] \notin {"length", "ptpString", "ptpArray"} => av[k] = vs[k]
    BY AfterPassIs
  <1>2. \A k \in 1..n : Layout[k] # "length"
    BY <1>0 DEF FieldsFit, HasLength
  <1>3. Len(av) = n
    BY <1>1 DEF Holding
  <1> HIDE DEF av, n
  <1>4. ASSUME NEW k \in 1..n
        PROVE  Write(Layout[k], av[k]) = Write(Layout[k], vs[k])
    <2>1. CASE Layout[k] = "ptpString"
      <3>1. av[k] = Cut(vs[k]) /\ vs[k] \in Seq(Byte)
        BY <1>1, <2>1
      <3>2. WritePTPString(av[k]) = WritePTPString(vs[k])
        BY <3>1, CutIs
      <3> QED
        BY <2>1, <3>2, WriteIs
    <2>2. CASE Layout[k] = "ptpArray"
      <3>1. av[k] = [numElements |-> Len(vs[k].array), array |-> vs[k].array]
            /\ vs[k] \in [numElements : Words, array : Seq(Words)]
        BY <1>1, <2>2
      <3>2. vs[k].numElements = Len(vs[k].array)
        BY <1>0, <2>2 DEF Counted
      <3> DEFINE v == vs[k]
      <3>3. v \in [numElements : Words, array : Seq(Words)] /\ v.numElements = Len(v.array)
            /\ av[k] = [numElements |-> Len(v.array), array |-> v.array]
        BY <3>1, <3>2
      <3> HIDE DEF v
      <3>4. av[k] = v
        BY <3>3
      <3> QED
        BY <3>4 DEF v
    <2>3. CASE Layout[k] \notin {"length", "ptpString", "ptpArray"}
      BY <1>1, <2>3
    <2> QED
      BY <1>2, <2>1, <2>2, <2>3
  <1>5. Parts(av) = Parts(vs)
    BY <1>0, <1>3, <1>4 DEF Parts
  <1>6. \A zs : Bytes(zs) = FlattenSeq(Parts(zs))
    BY DEF Bytes, Parts
  <1> QED
    BY <1>5, <1>6 DEF av

\* The members that are read back, by the fields of a packet.
ReadableAs(layout, s) ==
    \A i \in 1..Len(s) :
        /\ layout[i] = "long" => s[i] < Power[Word] \div 2
        /\ layout[i] \in {"string", "ptpString"} => s[i] \in Text

\* Packet::pack and Packet::unpack: the members are read back as packing left
\* them.
LEMMA PackedReadsBack ==
    ASSUME kind \in DOMAIN Layouts, NEW vs, Holding(vs), Fits(Bytes(vs)),
           HasLength \/ Counted(vs), ReadableAs(Layout, AfterPass(vs))
    PROVE  UnpackedAs(Layout, Packed(vs)) = AfterPass(vs)
  <1> DEFINE n == Len(Layout)
             av == AfterPass(vs)
             ws == Parts(av)
  <1>0. FieldsFit(kind, Layout) /\ n \in Nat /\ n >= 1 /\ \A k \in 1..n : Layout[k] \in Fields
    BY FieldsAre
  <1>1. /\ Holding(av)
        /\ \A k \in 1..n :
                 /\ Layout[k] = "length" => av[k] = Len(Bytes(vs))
                 /\ Layout[k] = "ptpString" => Len(av[k]) <= MaxChars
                 /\ Layout[k] = "ptpArray" =>
                       av[k] = [numElements |-> Len(vs[k].array), array |-> vs[k].array]
    <2>1. av = AfterPass(vs)
      OBVIOUS
    <2> HIDE DEF av
    <2> QED
      BY <2>1, AfterPassIs
  <1>2. Packed(vs) = Bytes(av)
    BY OnePassIsEnough DEF Packed
  <1>3. HasLength => Len(Bytes(av)) = Len(Bytes(vs))
    BY SecondPassFits
  <1>4. ReadableAs(Layout, av)
    OBVIOUS
  <1> HIDE DEF av
  <1>5. Len(av) = n /\ av = [k \in 1..n |-> av[k]] /\ \A k \in 1..n : av[k] \in Held(Layout[k])
    BY <1>1 DEF Holding
  <1>6. /\ ws \in Seq(Seq(Byte)) /\ Len(ws) = n
        /\ \A k \in 1..n : ws[k] = Write(Layout[k], av[k])
        /\ Bytes(av) = FlattenSeq(ws)
    BY <1>1, PartsAre
  <1> HIDE DEF ws
  <1>7. ASSUME NEW k \in 1..n PROVE ReadsAs(Layout[k], ws[k], av[k])
    <2> DEFINE field == Layout[k]
               v == av[k]
    <2>1. field \in Fields /\ v \in Held(field)
      BY <1>0, <1>5
    <2>2. /\ field = "long" => v < Power[Word] \div 2
          /\ field \in {"string", "ptpString"} => v \in Text
      BY <1>4, <1>5 DEF ReadableAs
    <2>3. field = "ptpString" => Len(v) <= MaxChars
      BY <1>1
    <2>4. field = "ptpArray" => v.numElements = Len(v.array)
      <3> SUFFICES ASSUME field = "ptpArray" PROVE v.numElements = Len(v.array)
        OBVIOUS
      <3> DEFINE a == vs[k].array
      <3>1. v = [numElements |-> Len(a), array |-> a]
        BY <1>1
      <3> HIDE DEF a, v
      <3> QED
        BY <3>1
    <2>5. ws[k] = Write(field, v)
      BY <1>6
    <2> HIDE DEF field, v
    <2>6. ReadsAs(field, Write(field, v), v)
      BY <2>1, <2>2, <2>3, <2>4, FieldReadsBack
    <2> QED
      BY <2>5, <2>6 DEF field, v
  <1>8. Layout[1] = "length" => av[1] = Len(FlattenSeq(ws))
    <2>1. 1 \in 1..n
      BY <1>0
    <2> QED
      BY <1>1, <1>3, <1>6, <2>1 DEF HasLength
  <1>9. UnpackedAs(Layout, FlattenSeq(ws)) = [k \in 1..n |-> av[k]]
    <2>1. Layout = Layouts[kind]
      BY DEF Layout
    <2> DEFINE layout == Layout
    <2>2. layout = Layouts[kind]
      BY <2>1
    <2>3. PartsOf(layout, ws, av) /\ ws \in Seq(Seq(Byte))
      BY <1>6, <1>7, <1>8 DEF PartsOf
    <2> HIDE DEF layout
    <2>4. UnpackedAs(layout, FlattenSeq(ws)) = [k \in 1..Len(layout) |-> av[k]]
      BY <2>2, <2>3, PartsReadBack
    <2> QED
      BY <2>4 DEF layout
  <1> QED
    BY <1>2, <1>5, <1>6, <1>9 DEF av

\* A packet with a length starts with its own, however it was filled.
LEMMA PackedIsFramed ==
    ASSUME kind \in DOMAIN Layouts, NEW vs, Holding(vs), Fits(Bytes(vs))
    PROVE  Packed(vs) \in Seq(Byte) /\ (HasLength => Packed(vs) \in Sized)
  <1> DEFINE n == Len(Layout)
             av == AfterPass(vs)
             b == Bytes(av)
             ws == Parts(av)
             len == Len(Bytes(vs))
  <1>0. n \in Nat /\ n >= 1
    BY FieldsAre
  <1>1. Holding(av) /\ (HasLength => av[1] = len)
    <2>1. av = AfterPass(vs) /\ 1 \in 1..n
      BY <1>0
    <2> HIDE DEF av
    <2>2. /\ Holding(av)
          /\ \A k \in 1..n :
                 /\ Layout[k] = "length" => av[k] = Len(Bytes(vs))
                 /\ Layout[k] = "ptpString" => Len(av[k]) <= MaxChars
                 /\ Layout[k] = "ptpArray" =>
                       av[k] = [numElements |-> Len(vs[k].array), array |-> vs[k].array]
      <3>1. av = AfterPass(vs)
        BY <2>1
      <3> QED
        BY <3>1, AfterPassIs
    <2> QED
      BY <2>1, <2>2 DEF HasLength
  <1>2. Bytes(vs) \in Seq(Byte)
    BY PartsAre
  <1> HIDE DEF av
  <1>3. ws \in Seq(Seq(Byte)) /\ Len(ws) = n /\ ws[1] = Write(Layout[1], av[1])
        /\ b = FlattenSeq(ws) /\ b \in Seq(Byte)
    BY <1>0, <1>1, PartsAre
  <1>4. CASE ~HasLength
    BY <1>2, <1>4 DEF Packed
  <1>5. CASE HasLength
    <2> DEFINE w == WriteInt(len, Word)
    <2>1. Packed(vs) = b
      BY <1>5 DEF Packed, av
    <2>2. Len(b) = len
      BY <1>5, SecondPassFits DEF av
    <2>3. len \in Nat /\ len \in Words
      BY <1>2, WordsAre DEF Fits
    <2>4. ws[1] = w
      BY <1>1, <1>3, <1>5, WriteIs DEF HasLength
    <2> HIDE DEF ws, b, n, len
    <2>5. w \in Seq(Byte) /\ Len(w) = Word /\ Word \in Nat
      BY <2>3, WordsAre, WriteIntIs
    <2> HIDE DEF w
    <2>6. PICK ends : StandIn(ws, b, ends)
      BY <1>3, FlattenIs
    <2>7. 1 \in 1..Len(ws) /\ 1 - 1 = 0
      BY <1>0, <1>3
    <2>8. ends[0] = 0 /\ ends[1] = ends[0] + Len(ws[1]) /\ ends[1] <= Len(b)
          /\ \A j \in 1..Len(ws[1]) : b[ends[0] + j] = ws[1][j]
      BY <2>6, <2>7 DEF StandIn
    <2>9. Word <= Len(b) /\ \A j \in 1..Word : b[0 + j] = w[j]
      BY <2>4, <2>5, <2>8
    <2>10. Holds(b, 0, w)
      BY <2>5, <2>9 DEF Holds
    <2>11. SubSeq(b, 0 + 1, 0 + Len(w)) = w
      <3>1. 0 \in Nat
        OBVIOUS
      <3> QED
        BY <1>3, <2>5, <2>10, <3>1, CutOut, Zenon
    <2>12. SubSeq(b, 1, Word) = w
      <3>1. 0 + 1 = 1 /\ 0 + Len(w) = Word
        BY <2>5
      <3> QED
        BY <2>11, <3>1, Zenon
    <2>13. b \in Sized
      BY <1>3, <2>2, <2>3, <2>5, <2>9, <2>12 DEF Sized, w
    <2> QED
      BY <1>3, <2>1, <2>13
  <1> QED
    BY <1>4, <1>5

\* TCPPacket::recv: what follows a packet in its stream is left there.
LEMMA OwnBytesOnly ==
    ASSUME NEW p \in Sized
    PROVE  Received(IF IsFramed THEN p \o p ELSE p) = Unpacked(p)
  <1>1. CASE ~IsFramed
    BY <1>1 DEF Received
  <1>2. CASE IsFramed
    <2> DEFINE s == p \o p
               len == Len(p)
    <2>1. /\ p \in Seq(Byte) /\ len \in Nat /\ len >= Word /\ len < Power[Word]
          /\ \A j \in 1..Word : p[j] = WriteInt(len, Word)[j]
      BY SizedIs
    <2>2. s \in Seq(Byte) /\ Appended(p, p, s)
      BY <2>1, OneMorePart
    <2>3. Word \in Nat /\ Word \in 1..Word
      BY WordsAre
    <2> HIDE DEF s
    <2>4. Len(s) = len + len /\ \A j \in 1..len : s[j] = p[j]
      BY <2>2 DEF Appended
    <2> HIDE DEF len
    <2>5. ReadInt(s, 0, Len(s), Word) = [value |-> len, at |-> 0 + Word]
      <3>1. \A j \in 1..Word : s[0 + j] = WriteInt(len, Word)[j]
        <4>1. \A j \in 1..Word : j \in 1..len /\ 0 + j = j
          BY <2>1, <2>3
        <4> QED
          BY <2>1, <2>4, <4>1
      <3>2. 0 \in Nat /\ Len(s) \in 0..Len(s) /\ 0 + Word <= Len(s)
        BY <2>1, <2>3, <2>4
      <3> QED
        BY <2>1, <2>2, <2>3, <3>1, <3>2, IntReadsBack, Zenon
    <2>6. ReadInt(s, 0, Word, Word).value = len
      <3>1. \A j \in 1..Word : s[0 + j] = WriteInt(len, Word)[j]
        <4>1. \A j \in 1..Word : j \in 1..len /\ 0 + j = j
          BY <2>1, <2>3
        <4> QED
          BY <2>1, <2>4, <4>1
      <3>2. 0 \in Nat /\ Word \in 0..Len(s) /\ 0 + Word <= Word
        BY <2>1, <2>3, <2>4
      <3>3. ReadInt(s, 0, Word, Word) = [value |-> len, at |-> 0 + Word]
        BY <2>1, <2>2, <2>3, <3>1, <3>2, IntReadsBack, Zenon
      <3> QED
        BY <3>3
    <2>7. SubSeq(s, 1, len) = p
      <3>1. Holds(s, 0, p)
        BY <2>1, <2>4 DEF Holds, len
      <3>2. 0 \in Nat
        OBVIOUS
      <3>3. SubSeq(s, 0 + 1, 0 + Len(p)) = p
        BY <2>1, <2>2, <3>1, <3>2, CutOut, Zenon
      <3>4. 0 + 1 = 1 /\ 0 + Len(p) = len
        BY <2>1 DEF len
      <3> QED
        BY <3>3, <3>4, Zenon
    <2>8. Received(s) = Unpacked(SubSeq(s, 1, ReadInt(s, 0, Word, Word).value))
      BY <1>2 DEF Received
    <2>9. Received(s) = Unpacked(p)
      BY <2>6, <2>7, <2>8
    <2> QED
      BY <1>2, <2>9 DEF s
  <1> QED
    BY <1>1, <1>2

-----------------------------------------------------------------------------
(* What is read from any bytes at all.                                     *)

\* A count of elements is a number.
LEMMA StartingIs ==
    ASSUME NEW at \in Nat, NEW limit \in Nat, NEW w \in Nat, w >= 1
    PROVE  Starting(at, limit, w) \in Nat
  <1>1. CASE at < limit
    <2> DEFINE y == limit - at + w - 1
    <2>1. y \in Nat
      BY <1>1
    <2> HIDE DEF y
    <2>2. w * 0 = 0 /\ y >= w * 0
      BY <2>1
    <2>3. y \div w \in Nat
      BY <2>1
    <2> QED
      BY <1>1, <2>3 DEF Starting, y
  <1>2. CASE ~(at < limit)
    BY <1>2 DEF Starting
  <1> QED
    BY <1>1, <1>2

\* A string of bytes.
LEMMA StringIsTyped ==
    ASSUME NEW b \in Seq(Byte), NEW at \in Nat, NEW limit \in 0..Len(b)
    PROVE  ReadString(b, at, limit).value \in Seq(Byte) /\ ReadString(b, at, limit).at \in Nat
  <1> DEFINE N == Starting(at, limit, 2)
             zeros == Zeros(b, at, limit)
             n == Chars(b, at, limit)
  <1>0. limit \in Nat /\ N \in Nat /\ 2 \in 1..Long
    <2>1. limit \in Nat /\ 2 \in Nat /\ 2 >= 1 /\ 2 \in 1..Long
      BY Sizes
    <2> QED
      BY <2>1, StartingIs, Zenon
  <1>1. ASSUME NEW k \in Nat, k >= 1 PROVE Char(b, at, limit, k) % Base \in Byte
    <2> DEFINE o == at + 2 * (k - 1)
    <2>1. o \in Nat
      BY <1>1
    <2> HIDE DEF o
    <2>2. ReadInt(b, o, limit, 2).value \in Nat
      BY <1>0, <2>1, IntIsTyped, Zenon
    <2>3. ReadInt(b, o, limit, 2).value % Base \in Byte
      BY <2>2, Digits
    <2> QED
      BY <2>3 DEF Char, o
  <1>2. n \in Nat
    <2>1. zeros = {k \in 1..N : Char(b, at, limit, k) = 0}
      BY DEF Zeros
    <2> HIDE DEF N
    <2>2. zeros \in SUBSET Nat /\ \A k \in zeros : k >= 1
      BY <1>0, <2>1
    <2> HIDE DEF zeros
    <2>3. CASE zeros = {}
      BY <1>0, <2>3 DEF Chars, zeros, N
    <2>4. CASE zeros # {}
      <3>1. \E x \in zeros : \A y \in zeros : x <= y
        BY <2>2, <2>4, SmallestOf
      <3>2. Min(zeros) \in zeros
        BY <3>1 DEF Min
      <3> QED
        BY <2>2, <2>4, <3>2 DEF Chars, zeros
    <2> QED
      BY <2>3, <2>4
  <1> DEFINE v == [k \in 1..n |-> Char(b, at, limit, k) % Base]
             e == IF N = 0 THEN at ELSE Least(at + 2 * (n + 1), limit)
  <1>3. ReadString(b, at, limit) = [value |-> v, at |-> e]
    BY ReadStringIs
  <1> HIDE DEF n, N
  <1>4. v \in Seq(Byte)
    BY <1>1, <1>2
  <1>5. e \in Nat
    BY <1>0, <1>2 DEF Least
  <1> HIDE DEF v, e
  <1> QED
    BY <1>3, <1>4, <1>5

\* An array of words.
LEMMA ArrayIsTyped ==
    ASSUME NEW b \in Seq(Byte), NEW at \in Nat, NEW limit \in 0..Len(b)
    PROVE  /\ ReadPTPArray(b, at, limit).value \in [numElements : Words, array : Seq(Words)]
           /\ ReadPTPArray(b, at, limit).at \in Nat
  <1> DEFINE r == ReadInt(b, at, limit, Word)
             n == Least(r.value, Starting(r.at, limit, Word))
  <1>0. Word \in Nat /\ Word >= 2 /\ Word \in 1..Long /\ limit \in Nat
    BY Sizes
  <1>1. \A o \in Nat : /\ ReadInt(b, o, limit, Word).value \in Words
                       /\ ReadInt(b, o, limit, Word).at \in Nat
    <2> TAKE o \in Nat
    <2>1. /\ ReadInt(b, o, limit, Word).at \in Nat
          /\ ReadInt(b, o, limit, Word).value \in Nat
          /\ ReadInt(b, o, limit, Word).value < Power[Word]
      BY <1>0, IntIsTyped
    <2> QED
      BY <2>1, WordsAre
  <1>2. r.value \in Words /\ r.at \in Nat
    BY <1>1
  <1>3. r.value \in Nat
    BY <1>2, WordsAre
  <1> HIDE DEF r
  <1>4. n \in Nat
    <2>0. Word >= 1
      BY <1>0
    <2>1. Starting(r.at, limit, Word) \in Nat
      BY <1>0, <1>2, <2>0, StartingIs, Zenon
    <2> QED
      BY <1>3, <2>1 DEF Least
  <1> HIDE DEF n
  <1> DEFINE a == [i \in 1..n |-> ReadInt(b, r.at + Word * (i - 1), limit, Word).value]
             e == IF n = 0 THEN r.at ELSE Least(r.at + Word * n, limit)
  <1>5. ReadPTPArray(b, at, limit) =
            [value |-> [numElements |-> r.value, array |-> a], at |-> e]
    BY Zenon DEF ReadPTPArray, r, n
  <1>6. a \in Seq(Words)
    <2>1. \A i \in 1..n : ReadInt(b, r.at + Word * (i - 1), limit, Word).value \in Words
      <3> TAKE i \in 1..n
      <3>1. i - 1 \in Nat
        BY <1>4
      <3>2. Word * (i - 1) \in Nat
        BY <1>0, <3>1
      <3> DEFINE x == Word * (i - 1)
      <3> HIDE DEF x
      <3>3. r.at + x \in Nat
        BY <1>2, <3>2 DEF x
      <3> QED
        BY <1>1, <3>3 DEF x
    <2> QED
      BY <1>4, <2>1
  <1>7. e \in Nat
    <2>1. Word * n \in Nat
      BY <1>0, <1>4
    <2> DEFINE x == Word * n
    <2>2. x \in Nat
      BY <2>1
    <2> HIDE DEF x
    <2>3. Least(r.at + x, limit) \in Nat
      BY <1>0, <1>2, <2>2 DEF Least
    <2> QED
      BY <1>2, <2>3 DEF x
  <1> HIDE DEF a, e
  <1> QED
    BY <1>2, <1>5, <1>6, <1>7

\* Every such field holds what it can hold, whatever the bytes are.
LEMMA FieldIsTyped ==
    ASSUME NEW b \in Seq(Byte), NEW at \in Nat, NEW limit \in 0..Len(b),
           NEW field \in {"length", "word", "byte", "long", "ptpString", "ptpArray"}
    PROVE  Read(field, b, at, limit).value \in Held(field) /\ Read(field, b, at, limit).at \in Nat
  <1>0. Word \in 1..Long /\ Long \in 1..Long /\ 1 \in 1..Long /\ limit \in Nat
    BY Sizes
  <1>1. CASE field \in {"length", "word"}
    <2> DEFINE r == ReadInt(b, at, limit, Word)
    <2>1. r.at \in Nat /\ r.value \in Nat /\ r.value < Power[Word]
      BY <1>0, IntIsTyped, WordsAre
    <2>2. Read(field, b, at, limit) = r
      BY <1>1, ReadIs
    <2> HIDE DEF r
    <2>3. r.value \in Words
      BY <2>1, WordsAre
    <2> QED
      BY <1>1, <2>1, <2>2, <2>3 DEF Held
  <1>2. CASE field = "byte"
    <2> DEFINE r == ReadInt(b, at, limit, 1)
    <2>1. r.at \in Nat /\ r.value \in Nat /\ (1 <= Word => r.value < Power[1])
      BY <1>0, IntIsTyped, Zenon
    <2>2. Read(field, b, at, limit) = r
      BY <1>2, ReadIs
    <2> HIDE DEF r
    <2>3. r.value < Base
      BY <2>1, WordsAre
    <2>4. r.value \in Byte
      BY <2>1, <2>3, Sizes DEF Byte
    <2> QED
      BY <1>2, <2>1, <2>2, <2>4 DEF Held
  <1>3. CASE field = "long"
    <2> DEFINE r == ReadInt(b, at, limit, Long)
    <2>1. r.at \in Nat /\ r.value \in Nat
      BY <1>0, IntIsTyped
    <2>2. Read(field, b, at, limit) = r
      BY <1>3, ReadIs
    <2> HIDE DEF r
    <2> QED
      BY <1>3, <2>1, <2>2 DEF Held
  <1>4. CASE field = "ptpString"
    <2> DEFINE r == ReadPTPString(b, at, limit)
    <2>1. CASE at >= limit \/ b[at + 1] = 0
      <3> DEFINE e == <<>>
      <3>1. r = [value |-> e, at |-> at] \/ r = [value |-> e, at |-> at + 1]
        BY <2>1 DEF ReadPTPString
      <3>2. e \in Seq(Byte)
        BY EmptySeq, Zenon
      <3> HIDE DEF r, e
      <3>3. r.value \in Seq(Byte) /\ r.at \in Nat
        BY <3>1, <3>2
      <3>4. Read(field, b, at, limit) = r
        BY <1>4, ReadIs DEF r
      <3> QED
        BY <1>4, <3>3, <3>4 DEF Held
    <2>2. CASE ~(at >= limit) /\ b[at + 1] # 0
      <3> DEFINE o == ReadInt(b, at, limit, 1).at
      <3>1. o \in Nat
        BY <1>0, IntIsTyped, Zenon
      <3>2. r = ReadString(b, o, limit)
        BY <2>2 DEF ReadPTPString
      <3> HIDE DEF o
      <3>3. ReadString(b, o, limit).value \in Seq(Byte) /\ ReadString(b, o, limit).at \in Nat
        BY <3>1, StringIsTyped
      <3> HIDE DEF r
      <3>4. Read(field, b, at, limit) = r
        BY <1>4, ReadIs DEF r
      <3> QED
        BY <1>4, <3>2, <3>3, <3>4 DEF Held
    <2> QED
      BY <2>1, <2>2
  <1>5. CASE field = "ptpArray"
    BY <1>5, ReadIs, ArrayIsTyped DEF Held
  <1> QED
    BY <1>1, <1>2, <1>3, <1>4, <1>5

\* In the two packets whose bytes may stand for nothing or for a value that is
\* not read back, the members still hold what they can hold.
LEMMA GarbageIsHeld ==
    ASSUME NEW class \in {"DeviceInfo", "StartData"}, NEW layout, layout = Layouts[class],
           NEW b \in Seq(Byte)
    PROVE  \A k \in 1..Len(layout) : UnpackedAs(layout, b)[k] \in Held(layout[k])
  <1> DEFINE n == Len(layout)
             U == UNION {Held(layout[k]) : k \in 1..n}
             V == U \cup {<<>>}
             D == [at : Nat, limit : 0..Len(b), value : V]
             Step(k, before) ==
                LET r == Read(layout[k], b, before.at, before.limit)
                IN  [at |-> r.at, value |-> r.value,
                     limit |-> LimitAfter(layout[k], r.value, before.limit)]
             start == [at |-> 0, limit |-> Len(b), value |-> <<>>]
             step == [k \in 1..n |-> [d \in D |-> Step(k, d)]]
             R(f) == f = [k \in 0..n |-> IF k = 0 THEN start ELSE Step(k, f[k - 1])]
             after == Progress(layout, b)
  <1>0. class \in DOMAIN Layouts /\ Len(b) \in Nat
    BY DEF Layouts
  <1>1. FieldsFit(class, layout)
    BY <1>0, LayoutFacts
  <1>2. n \in Nat /\ \A k \in 1..n :
            layout[k] \in {"length", "word", "byte", "long", "ptpString", "ptpArray"}
    BY <1>1 DEF FieldsFit
  <1>3. ASSUME NEW k \in 1..n, NEW d \in D
        PROVE  Step(k, d) \in D /\ Step(k, d).value \in Held(layout[k])
    <2> DEFINE field == layout[k]
               r == Read(field, b, d.at, d.limit)
    <2>0. d.at \in Nat /\ d.limit \in 0..Len(b)
      <3> HIDE DEF V
      <3> QED  OBVIOUS
    <2>1. field \in {"length", "word", "byte", "long", "ptpString", "ptpArray"}
      BY <1>2
    <2>2. r.value \in Held(field) /\ r.at \in Nat
      <3> HIDE DEF field
      <3> QED  BY <2>0, <2>1, FieldIsTyped
    <2>3. LimitAfter(field, r.value, d.limit) \in 0..Len(b)
      <3>1. CASE field = "length"
        <4>1. r.value \in Nat
          <5> HIDE DEF r
          <5>1. r.value \in Words
            BY <2>2, <3>1 DEF Held
          <5> QED
            BY <5>1, WordsAre
        <4> HIDE DEF r
        <4> QED
          BY <1>0, <2>0, <4>1 DEF LimitAfter, Least
      <3>2. CASE field # "length"
        BY <2>0, <3>2 DEF LimitAfter
      <3> QED
        BY <3>1, <3>2
    <2>4. r.value \in V
      BY <2>2
    <2> DEFINE l == LimitAfter(field, r.value, d.limit)
    <2>5. Step(k, d) = [at |-> r.at, value |-> r.value, limit |-> l]
      BY Zenon
    <2> HIDE DEF r, l, V, Step
    <2> QED
      BY <2>2, <2>3, <2>4, <2>5 DEF l
  <1>4. start \in D
    <2> DEFINE e == <<>>
    <2>1. e \in V
      <3> HIDE DEF U
      <3> QED  BY Zenon
    <2>2. 0 \in Nat /\ Len(b) \in 0..Len(b)
      BY <1>0
    <2>3. start = [at |-> 0, limit |-> Len(b), value |-> e]
      OBVIOUS
    <2> HIDE DEF V, e, start
    <2> QED
      BY <2>1, <2>2, <2>3
  <1> HIDE DEF V, D, Step, start
  <1>5. PICK f : Iterates(f, D, start, n, step)
    <2>1. step \in [1..n -> [D -> D]]
      BY <1>3
    <2> HIDE DEF step, n
    <2> QED
      BY <1>2, <1>4, <2>1, IterationExists, Zenon
  <1>6. /\ f \in [0..n -> D] /\ f[0] = start
        /\ \A k \in 1..n : k - 1 \in 0..n /\ k \in 0..n /\ f[k] = Step(k, f[k - 1])
    <2>1. f \in [0..n -> D] /\ f[0] = start /\ \A k \in 1..n : f[k] = step[k][f[k - 1]]
      <3> HIDE DEF step, n
      <3> QED  BY <1>5 DEF Iterates
    <2>2. \A k \in 1..n : k - 1 \in 0..n /\ k \in 0..n
      BY <1>2
    <2>3. \A k \in 1..n : f[k - 1] \in D
      BY <2>1, <2>2
    <2> QED
      BY <2>1, <2>2, <2>3
  <1> HIDE DEF step, n
  <1>7. R(f)
    <2>1. \A k \in 0..n : k = 0 \/ (k \in 1..n /\ k # 0)
      BY <1>2
    <2> QED
      BY <1>6, <2>1
  <1>8. R(after)
    <2>1. after = CHOOSE g : R(g)
      BY DEF Progress, Step, start, n
    <2> HIDE DEF R, after
    <2> QED
      BY <1>7, <2>1
  <1> HIDE DEF after
  <1> DEFINE T == {k \in Nat : k <= n => after[k] \in D}
  <1>9. 0 \in T
    <2>1. 0 \in 0..n
      BY <1>2
    <2>2. after[0] = start
      BY <1>8, <2>1
    <2> QED
      BY <1>4, <2>2
  <1>10. ASSUME NEW k \in T PROVE k + 1 \in T
    <2> SUFFICES ASSUME k + 1 <= n PROVE after[k + 1] \in D
      BY <1>10
    <2> DEFINE c == k + 1
    <2>1. c \in 0..n /\ c \in 1..n /\ c # 0 /\ c - 1 = k /\ after[k] \in D
      BY <1>2, <1>10
    <2> HIDE DEF c
    <2>2. after[c] = Step(c, after[c - 1])
      BY <1>8, <2>1
    <2>3. after[c] \in D
      BY <1>3, <2>1, <2>2
    <2> QED
      BY <2>3 DEF c
  <1>11. T = Nat
    BY <1>9, <1>10, Induct
  <1>12. ASSUME NEW k \in 1..n PROVE after[k].value \in Held(layout[k])
    <2>1. k \in 0..n /\ k # 0 /\ k - 1 \in Nat /\ k - 1 <= n
      BY <1>2
    <2>2. after[k] = Step(k, after[k - 1])
      BY <1>8, <2>1
    <2>3. after[k - 1] \in D
      BY <1>11, <2>1
    <2> QED
      BY <1>3, <2>2, <2>3
  <1>13. UnpackedAs(layout, b) = [k \in 1..n |-> after[k].value]
    BY DEF UnpackedAs, after, n
  <1> QED
    BY <1>12, <1>13 DEF n

-----------------------------------------------------------------------------
(* What the application assigns and the camera sends.                      *)

\* One input per field.
LEMMA AssignmentsAre ==
    ASSUME kind \in DOMAIN Layouts, NEW c \in Assignments
    PROVE  \A i \in 1..Len(Layout) : c[i] \in Inputs[Layout[i]]
  <1> DEFINE n == Len(Layout)
             U == UNION {Inputs[Layout[k]] : k \in 1..n}
             D == SUBSET Seq(U)
             Step(k, d) == {Append(s, v) : s \in d, v \in Inputs[Layout[k]]}
             R(f) == f = [k \in 0..n |-> IF k = 0 THEN {<<>>} ELSE Step(k, f[k - 1])]
             step == [k \in 1..n |-> [d \in D |-> Step(k, d)]]
             start == {<<>>}
             chosen == CHOOSE f : R(f)
  <1>0. n \in Nat /\ n >= 1
    BY FieldsAre
  <1>1. c \in chosen[n]
    BY DEF Assignments
  <1> HIDE DEF chosen
  <1>2. start \in D
    <2>1. <<>> \in Seq(U)
      BY EmptySeq, Zenon
    <2> HIDE DEF U
    <2> QED
      BY <2>1
  <1>3. ASSUME NEW k \in 1..n, NEW d \in D PROVE Step(k, d) \in D
    <2>1. Inputs[Layout[k]] \subseteq U
      OBVIOUS
    <2> HIDE DEF U
    <2>2. ASSUME NEW s \in d, NEW v \in Inputs[Layout[k]] PROVE Append(s, v) \in Seq(U)
      <3>1. s \in Seq(U) /\ v \in U
        BY <2>1
      <3> QED
        BY <3>1, AppendProperties
    <2> QED
      BY <2>2
  <1> HIDE DEF n, U, D, Step, start
  <1>4. PICK f : Iterates(f, D, start, n, step)
    <2>1. step \in [1..n -> [D -> D]]
      BY <1>3
    <2> HIDE DEF step
    <2> QED
      BY <1>0, <1>2, <2>1, IterationExists, Zenon
  <1>5. /\ f \in [0..n -> D] /\ f[0] = start
        /\ \A k \in 1..n : k - 1 \in 0..n /\ k \in 0..n /\ f[k] = Step(k, f[k - 1])
    <2>1. f \in [0..n -> D] /\ f[0] = start /\ \A k \in 1..n : f[k] = step[k][f[k - 1]]
      <3> HIDE DEF step
      <3> QED  BY <1>4 DEF Iterates
    <2>2. \A k \in 1..n : k - 1 \in 0..n /\ k \in 0..n
      BY <1>0
    <2>3. \A k \in 1..n : f[k - 1] \in D
      BY <2>1, <2>2
    <2> QED
      BY <2>1, <2>2, <2>3
  <1> HIDE DEF step
  <1>6. R(f)
    <2>1. \A k \in 0..n : k = 0 \/ (k \in 1..n /\ k # 0)
      BY <1>0
    <2> QED
      BY <1>5, <2>1 DEF start
  <1>7. R(chosen)
    <2>1. chosen = CHOOSE g : R(g)
      BY DEF chosen, Step, n
    <2> HIDE DEF R
    <2> QED
      BY <1>6, <2>1
  <1> DEFINE Right(k) == \A s \in chosen[k] :
                 /\ s \in Seq(U) /\ Len(s) = k
                 /\ \A i \in 1..k : s[i] \in Inputs[Layout[i]]
             T == {k \in Nat : k <= n => Right(k)}
  <1>8. 0 \in T
    <2>1. 0 \in 0..n
      BY <1>0
    <2>2. chosen[0] = {<<>>}
      BY <1>7, <2>1
    <2>3. <<>> \in Seq(U) /\ Len(<<>>) = 0 /\ 1..0 = {}
      BY EmptySeq
    <2>4. Right(0)
      BY <2>2, <2>3
    <2> QED
      BY <2>4
  <1>9. ASSUME NEW k \in T PROVE k + 1 \in T
    <2> SUFFICES ASSUME k + 1 <= n PROVE Right(k + 1)
      <3> HIDE DEF Right
      <3> QED  BY <1>9
    <2> DEFINE m == k + 1
    <2>1. k \in Nat /\ m \in 0..n /\ m \in 1..n /\ m # 0 /\ m - 1 = k /\ m = k + 1
      BY <1>0, <1>9
    <2>2. Right(k)
      <3> HIDE DEF Right
      <3> QED  BY <1>0, <1>9, <2>1
    <2> HIDE DEF m
    <2>3. chosen[m] = Step(m, chosen[k])
      BY <1>7, <2>1
    <2>4. ASSUME NEW z \in chosen[m]
          PROVE  z \in Seq(U) /\ Len(z) = m /\ \A i \in 1..m : z[i] \in Inputs[Layout[i]]
      <3>1. PICK s \in chosen[k], v \in Inputs[Layout[m]] : z = Append(s, v)
        BY <2>3 DEF Step
      <3>2. s \in Seq(U) /\ Len(s) = k /\ \A i \in 1..k : s[i] \in Inputs[Layout[i]]
        BY <2>2
      <3>3. v \in U
        BY <2>1 DEF U
      <3>4. /\ Append(s, v) \in Seq(U) /\ Len(Append(s, v)) = k + 1
            /\ \A i \in 1..k : Append(s, v)[i] = s[i]
            /\ Append(s, v)[k + 1] = v
        BY <3>2, <3>3, AppendProperties
      <3>5. \A i \in 1..m : i \in 1..k \/ i = k + 1
        BY <2>1
      <3>6. ASSUME NEW i \in 1..m PROVE z[i] \in Inputs[Layout[i]]
        <4>1. CASE i \in 1..k
          BY <3>1, <3>2, <3>4, <4>1
        <4>2. CASE i = k + 1
          BY <2>1, <3>1, <3>4, <4>2
        <4> QED
          BY <3>5, <4>1, <4>2
      <3> QED
        BY <2>1, <3>1, <3>4, <3>6
    <2> QED
      BY <2>4 DEF m
  <1>10. Right(n)
    <2> HIDE DEF Right
    <2>1. T = Nat
      BY <1>8, <1>9, Induct
    <2>2. \A k \in Nat : k <= n => Right(k)
      BY <2>1
    <2> QED
      BY <1>0, <2>2
  <1> QED
    BY <1>1, <1>10 DEF n

\* What is assigned is of the kind of its field.
LEMMA InputsAre ==
    ASSUME NEW field \in Fields, field # "length", NEW v \in Inputs[field]
    PROVE  IF field = "ptpArray" THEN v \in Seq(Words)
           ELSE v \in Held(field) /\ (field \in {"string", "ptpString"} => v \in Text)
  <1>1. CASE field = "ptpArray"
    BY <1>1, InputsAssumption
  <1>2. CASE field = "byte"
    BY <1>2, InputsAssumption DEF Held
  <1>3. CASE field = "word"
    BY <1>3, InputsAssumption DEF Held
  <1>4. CASE field = "long"
    <2>1. v \in 0..(Power[Long] - 1)
      BY <1>4, InputsAssumption
    <2>2. v \in Nat
      <3>1. Power[Long] \in Nat
        BY Sizes, PowerIs
      <3> QED
        BY <2>1, <3>1
    <2> QED
      BY <1>4, <2>2 DEF Held
  <1>5. CASE field = "string"
    BY <1>5, InputsAssumption DEF Held
  <1>6. CASE field = "ptpString"
    <2>1. v \in Text
      BY <1>6, InputsAssumption
    <2> QED
      BY <1>6, <2>1, TextsAreBytes DEF Held
  <1>7. CASE field = "rest"
    BY <1>7, InputsAssumption DEF Held
  <1>8. CASE field = "packets"
    BY <1>8, InputsAssumption DEF Held
  <1> QED
    BY <1>1, <1>2, <1>3, <1>4, <1>5, <1>6, <1>7, <1>8 DEF Fields

\* What a member holds when what was sent is read.
Taking(field, v) == IF field = "ptpArray" THEN [numElements |-> Len(v), array |-> v] ELSE v

\* A text as the camera writes it.
LEMMA CameraTextIs ==
    ASSUME NEW s \in Text, Len(s) <= MaxChars
    PROVE  ReadsAs("ptpString", CameraWrites("ptpString", s), s)
  <1>1. CASE s = <<>>
    <2>1. CameraWrites("ptpString", s) = <<0>>
      BY <1>1 DEF CameraWrites
    <2> QED
      BY <1>1, <2>1, EmptyReads, Zenon
  <1>2. CASE s # <<>>
    <2> DEFINE h == [i \in 1..Len(s) |-> 0]
               flat == FlattenSeq([i \in 1..Len(s) |-> <<s[i], h[i]>>])
               end == <<0, 0>>
               c == Len(s) + 1
               u == WriteInt(c, 1)
    <2>1. s \in Seq(Byte) /\ Len(s) \in Nat
      BY TextsAreBytes
    <2>2. h \in [1..Len(s) -> Byte]
      BY Sizes DEF Byte
    <2>3. [i \in 1..Len(s) |-> <<s[i], h[i]>>] = [i \in 1..Len(s) |-> <<s[i], 0>>]
      OBVIOUS
    <2>4. CameraWrites("ptpString", s) = (u \o flat) \o end
      <3> DEFINE f == [i \in 1..Len(s) |-> <<s[i], 0>>]
      <3>1. CameraWrites("ptpString", s) = (u \o FlattenSeq(f)) \o end
        BY <1>2 DEF CameraWrites
      <3>2. FlattenSeq(f) = flat
        BY <2>3, Zenon
      <3> HIDE DEF f, flat, u, end
      <3> QED
        BY <3>1, <3>2, Zenon
    <2>5. c \in 1..(Base - 1)
      BY <2>1, Sizes
    <2> HIDE DEF h, c
    <2>6. WideText(flat \o end, s)
      BY <2>1, <2>2, WideTextIs
    <2>7. u \in Seq(Byte)
      <3>1. c \in Nat /\ 1 \in Nat
        BY <2>5
      <3> QED
        BY <3>1, WriteIntIs, Zenon
    <2>8. flat \in Seq(Byte)
      <3> DEFINE f == [i \in 1..Len(s) |-> <<s[i], h[i]>>]
      <3>1. f \in Seq(Seq(Byte))
        BY <2>1, <2>2
      <3> HIDE DEF f
      <3> QED
        BY <3>1, FlattenIs DEF f
    <2>9. end \in Seq(Byte)
      BY Sizes DEF Byte
    <2> HIDE DEF u, flat, end
    <2>10. (u \o flat) \o end = u \o (flat \o end)
      BY <2>7, <2>8, <2>9, ConcatAssociative, SMTT(40)
    <2> DEFINE t == flat \o end
    <2>11. WideText(t, s) /\ CameraWrites("ptpString", s) = WriteInt(c, 1) \o t
      BY <2>4, <2>6, <2>10 DEF u
    <2> HIDE DEF t
    <2>12. ReadsAs("ptpString", WriteInt(c, 1) \o t, s)
      BY <2>5, <2>11, PTPStringReads
    <2> QED
      BY <2>11, <2>12
  <1> QED
    BY <1>1, <1>2

\* Whatever a camera sends of a field is bytes, no fewer than the elements.
LEMMA CameraWritesBytes ==
    ASSUME NEW field \in Fields, field # "length", NEW v \in Inputs[field],
           field = "ptpString" => Len(v) <= MaxChars
    PROVE  /\ CameraWrites(field, v) \in Seq(Byte)
           /\ field = "ptpArray" => Len(v) \in Nat /\ Len(v) <= Len(CameraWrites(field, v))
  <1>1. CASE field = "ptpString"
    <2>1. v \in Text
      BY <1>1, InputsAre
    <2> QED
      BY <1>1, <2>1, CameraTextIs DEF ReadsAs
  <1>2. CASE field = "ptpArray"
    <2> DEFINE u == WriteInt(Len(v), Word)
               t == WriteInts(v)
    <2>1. v \in Seq(Words) /\ Words \subseteq Nat /\ Word \in Nat
      BY <1>2, InputsAre, WordsAre
    <2>2. v \in Seq(Nat) /\ Len(v) \in Nat
      <3>1. v \in Seq(Nat)
        BY <2>1, WiderSeq, Zenon
      <3> QED
        BY <3>1
    <2>3. u \in Seq(Byte)
      BY <2>1, <2>2, WriteIntIs
    <2>4. t \in Seq(Byte) /\ Len(t) = Word * Len(v)
      BY <2>2, WriteIntsIs
    <2>5. CameraWrites(field, v) = u \o t
      BY <1>2 DEF CameraWrites
    <2> HIDE DEF u, t
    <2>6. t \in Seq(Byte)
      BY <2>4
    <2>7. Len(u \o t) = Len(u) + Len(t) /\ Len(u) \in Nat /\ Len(t) \in Nat
      BY <2>3, <2>6, ConcatProperties
    <2>8. u \o t \in Seq(Byte)
      BY <2>3, <2>6, ConcatProperties
    <2>9. Word * Len(v) >= Len(v)
      <3>1. \A x, y \in Nat : x >= 2 => x * y >= y
        OBVIOUS
      <3> QED
        BY <2>2, <3>1, Sizes
    <2> DEFINE x == Word * Len(v)
    <2>10. Len(t) = x /\ x >= Len(v)
      BY <2>4, <2>9
    <2> HIDE DEF x
    <2>11. Len(v) <= Len(u \o t)
      BY <2>2, <2>7, <2>10
    <2> QED
      BY <2>2, <2>5, <2>11, <2>8
  <1>3. CASE field \notin {"ptpString", "ptpArray"}
    <2>1. v \in Held(field)
      BY <1>3, InputsAre
    <2>2. CameraWrites(field, v) = Write(field, v)
      BY <1>3 DEF CameraWrites
    <2> QED
      BY <1>3, <2>1, <2>2, WritesBytes
  <1> QED
    BY <1>1, <1>2, <1>3

\* Each field a camera sends is read as it was sent.
LEMMA CameraFieldReads ==
    ASSUME NEW field \in Fields, field # "length", NEW v \in Inputs[field],
           field = "ptpString" => Len(v) <= MaxChars,
           field = "long" => v < Power[Word] \div 2,
           field = "ptpArray" => Len(v) \in Words
    PROVE  ReadsAs(field, CameraWrites(field, v), Taking(field, v))
  <1>1. CASE field = "ptpString"
    <2>1. v \in Text
      BY <1>1, InputsAre
    <2> QED
      BY <1>1, <2>1, CameraTextIs DEF Taking
  <1>2. CASE field = "ptpArray"
    <2>1. v \in Seq(Words) /\ Len(v) \in Words
      BY <1>2, InputsAre
    <2>2. CameraWrites(field, v) = WriteInt(Len(v), Word) \o WriteInts(v)
      BY <1>2 DEF CameraWrites
    <2>3. ReadsAs("ptpArray", WriteInt(Len(v), Word) \o WriteInts(v),
                  [numElements |-> Len(v), array |-> v])
      BY <2>1, ArrayReads
    <2> QED
      BY <1>2, <2>2, <2>3 DEF Taking
  <1>3. CASE field \notin {"ptpString", "ptpArray"}
    <2>1. v \in Held(field) /\ (field = "string" => v \in Text)
      BY <1>3, InputsAre
    <2>2. CameraWrites(field, v) = Write(field, v) /\ Taking(field, v) = v
      BY <1>3 DEF CameraWrites, Taking
    <2>3. ReadsAs(field, Write(field, v), v)
      BY <1>3, <2>1, FieldReadsBack
    <2> QED
      BY <2>2, <2>3
  <1> QED
    BY <1>1, <1>2, <1>3

-----------------------------------------------------------------------------
(* What a camera sends is read back.                                       *)

\* A member that nothing was assigned to holds what it can hold.
LEMMA DefaultIsHeld ==
    ASSUME NEW field \in Fields
    PROVE  Default(field) \in Held(field)
  <1> DEFINE e == <<>>
  <1>1. 0 \in Byte /\ 0 \in Words
    <2>1. 0 < Power[Word]
      BY Sizes, PowerIs
    <2> QED
      BY <2>1, Sizes, WordsAre DEF Byte
  <1>2. e \in Text /\ e \in Seq(Byte) /\ e \in Seq(Words) /\ e \in Seq(Sized)
    BY EmptySeq, Zenon DEF Text
  <1>3. CASE field = "byte"
    BY <1>1, <1>3 DEF Default, Held
  <1>4. CASE field \in {"length", "word"}
    BY <1>1, <1>4 DEF Default, Held
  <1>5. CASE field = "long"
    BY <1>5 DEF Default, Held
  <1>6. CASE field = "ptpArray"
    <2>1. Default(field) = [numElements |-> 0, array |-> e]
      BY <1>6 DEF Default
    <2> HIDE DEF e
    <2> QED
      BY <1>1, <1>2, <1>6, <2>1 DEF Held
  <1>7. CASE field \in {"string", "ptpString", "rest", "packets"}
    <2>1. Default(field) = e
      BY <1>7 DEF Default
    <2> HIDE DEF e
    <2> QED
      BY <1>2, <1>7, <2>1 DEF Held
  <1> QED
    BY <1>3, <1>4, <1>5, <1>6, <1>7 DEF Fields

\* In b the parts stand one after the other, after a head and before a tail.
StandBetween(head, ps, tail, b, ends) ==
    /\ ends \in [0..Len(ps) -> Nat]
    /\ ends[0] = Len(head) /\ ends[Len(ps)] + Len(tail) = Len(b)
    /\ Holds(b, 0, head)
    /\ \A k \in 1..Len(ps) :
          ends[k] = ends[k - 1] + Len(ps[k]) /\ ends[k] <= Len(b) /\ Holds(b, ends[k - 1], ps[k])

\* So do they when they are put together.
LEMMA BodyStands ==
    ASSUME NEW S, NEW head \in Seq(S), NEW ps \in Seq(Seq(S)), NEW tail \in Seq(S)
    PROVE  LET b == head \o (FlattenSeq(ps) \o tail)
           IN  b \in Seq(S) /\ \E ends : StandBetween(head, ps, tail, b, ends)
  <1> DEFINE flat == FlattenSeq(ps)
             body == flat \o tail
             b == head \o body
             h == Len(head)
             n == Len(ps)
  <1>1. flat \in Seq(S) /\ \E e : StandIn(ps, flat, e)
    BY FlattenIs
  <1>2. PICK e : StandIn(ps, flat, e)
    BY <1>1
  <1> HIDE DEF flat
  <1>3. body \in Seq(S) /\ Appended(flat, tail, body)
    BY <1>1, OneMorePart
  <1> HIDE DEF body
  <1>4. b \in Seq(S) /\ Appended(head, body, b)
    BY <1>3, OneMorePart
  <1> HIDE DEF b
  <1>5. /\ h \in Nat /\ n \in Nat /\ Len(flat) \in Nat /\ Len(tail) \in Nat
        /\ Len(body) = Len(flat) + Len(tail) /\ Len(b) = h + Len(body)
    BY <1>1, <1>3, <1>4 DEF Appended
  <1> DEFINE ends == [k \in 0..n |-> h + e[k]]
  <1>6. e \in [0..n -> Nat] /\ e[0] = 0 /\ e[n] = Len(flat)
    BY <1>2 DEF StandIn
  <1>7. ends \in [0..n -> Nat] /\ ends[0] = h /\ ends[n] + Len(tail) = Len(b)
    <2>1. 0 \in 0..n /\ n \in 0..n
      BY <1>5
    <2>2. \A k \in 0..n : h + e[k] \in Nat
      BY <1>5, <1>6, SMTT(40)
    <2>3. ends[0] = h + e[0] /\ ends[n] = h + e[n]
      BY <2>1
    <2>4. ends \in [0..n -> Nat]
      BY <2>2
    <2> HIDE DEF ends, h, n
    <2> QED
      BY <1>5, <1>6, <2>3, <2>4
  <1>8. Holds(b, 0, head)
    <2>1. 0 + Len(head) <= Len(b)
      BY <1>5
    <2>2. \A j \in 1..h : b[0 + j] = head[j]
      <3>1. \A j \in 1..h : 0 + j = j
        BY <1>5
      <3> QED
        BY <1>4, <3>1 DEF Appended
    <2> QED
      BY <2>1, <2>2 DEF Holds
  <1>9. ASSUME NEW k \in 1..n
        PROVE  /\ ends[k] = ends[k - 1] + Len(ps[k]) /\ ends[k] <= Len(b)
               /\ Holds(b, ends[k - 1], ps[k])
    <2> DEFINE l == Len(ps[k])
               o == e[k - 1]
    <2>1. e[k] = o + l /\ e[k] <= Len(flat) /\ \A j \in 1..l : flat[o + j] = ps[k][j]
      BY <1>2 DEF StandIn
    <2>2. k \in 0..n /\ k - 1 \in 0..n
      BY <1>5
    <2>3. ends[k] = h + e[k] /\ ends[k - 1] = h + o
      BY <2>2
    <2>4. o \in Nat /\ l \in Nat /\ e[k] \in Nat
      <3>1. ps[k] \in Seq(S)
        OBVIOUS
      <3>2. l \in Nat
        BY <3>1
      <3> HIDE DEF n
      <3>3. \A x \in 0..n : e[x] \in Nat
        BY <1>6
      <3> QED
        BY <2>2, <3>2, <3>3
    <2> HIDE DEF l, o, ends, n, h
    <2>5. ends[k] = ends[k - 1] + l /\ ends[k] <= Len(b)
      BY <1>5, <2>1, <2>3, <2>4
    <2>6. ASSUME NEW j \in 1..l PROVE b[ends[k - 1] + j] = ps[k][j]
      <3> DEFINE i == o + j
      <3>1. i \in 1..Len(flat) /\ i \in 1..Len(body) /\ ends[k - 1] + j = h + i
        BY <1>5, <2>1, <2>3, <2>4
      <3>2. flat[i] = ps[k][j]
        BY <2>1
      <3> HIDE DEF i
      <3>3. body[i] = flat[i]
        BY <1>3, <3>1 DEF Appended
      <3>4. b[h + i] = body[i]
        BY <1>4, <3>1 DEF Appended, h
      <3> QED
        BY <3>1, <3>2, <3>3, <3>4
    <2>7. ends[k - 1] + Len(ps[k]) <= Len(b)
      BY <2>5 DEF l
    <2>8. Holds(b, ends[k - 1], ps[k])
      BY <2>6, <2>7 DEF Holds, l
    <2> QED
      BY <2>5, <2>8 DEF l
  <1>10. StandBetween(head, ps, tail, b, ends)
    <2>1. /\ ends \in [0..Len(ps) -> Nat]
          /\ ends[0] = Len(head) /\ ends[Len(ps)] + Len(tail) = Len(b)
      BY <1>7
    <2>2. \A k \in 1..Len(ps) : /\ ends[k] = ends[k - 1] + Len(ps[k]) /\ ends[k] <= Len(b)
                                /\ Holds(b, ends[k - 1], ps[k])
      BY <1>9
    <2> HIDE DEF ends
    <2> QED
      BY <1>8, <2>1, <2>2 DEF StandBetween
  <1> QED
    BY <1>4, <1>10 DEF b, body, flat

\* What a camera may send: the first k of the fields that are chosen, and what
\* it knows of more than the library does.
CameraSends(c, k, more) ==
    /\ kind \in FromCamera
    /\ c \in Assignments
    /\ k \in (IF HasLength THEN 2 ELSE 1)..Len(Layout)
    /\ more \in {<<>>, WriteInt(1, Word)}
    /\ more # <<>> => k = Len(Layout) /\ ~IsGreedy
    /\ \A i \in 1..k : Layout[i] = "ptpString" => Len(c[i]) <= MaxChars

CameraParts(c, k) ==
    [i \in 1..k |-> IF Layout[i] = "length" THEN <<>> ELSE CameraWrites(Layout[i], c[i])]

CameraBody(c, k, more) == FlattenSeq(CameraParts(c, k)) \o more

CameraHead(length) == IF HasLength THEN WriteInt(length, Word) ELSE <<>>

\* What that stands for.
CameraMeans(c, k, length) ==
    [i \in 1..Len(Layout) |->
        IF i > k THEN Default(Layout[i])
        ELSE CASE Layout[i] = "length" -> length
               [] Layout[i] = "ptpArray" -> [numElements |-> Len(c[i]), array |-> c[i]]
               [] OTHER -> c[i]]

\* The bytes of the fields, one by one.
LEMMA CameraPartsAre ==
    ASSUME kind \in DOMAIN Layouts, NEW c, NEW k, NEW more, CameraSends(c, k, more)
    PROVE  LET ps == CameraParts(c, k)
           IN  /\ ps \in Seq(Seq(Byte)) /\ Len(ps) = k /\ k \in 1..Len(Layout)
               /\ more \in Seq(Byte)
               /\ \A i \in 1..k : /\ Layout[i] = "length" => ps[i] = <<>>
                                  /\ Layout[i] # "length" =>
                                        /\ ps[i] = CameraWrites(Layout[i], c[i])
                                        /\ c[i] \in Inputs[Layout[i]]
                                        /\ Layout[i] = "ptpArray" =>
                                              Len(c[i]) \in Nat /\ Len(c[i]) <= Len(ps[i])
  <1> DEFINE n == Len(Layout)
             ps == CameraParts(c, k)
  <1>0. n \in Nat /\ n >= 1 /\ \A i \in 1..n : Layout[i] \in Fields
    BY FieldsAre
  <1>1. k \in 1..n
    <2> HIDE DEF n
    <2> QED  BY <1>0 DEF CameraSends, n
  <1>2. more \in Seq(Byte)
    <2>1. <<>> \in Seq(Byte)
      BY EmptySeq, Zenon
    <2>2. WriteInt(1, Word) \in Seq(Byte)
      <3>1. 1 \in Nat
        OBVIOUS
      <3> QED
        BY <3>1, WordsAre, WriteIntIs, Zenon
    <2>3. more = <<>> \/ more = WriteInt(1, Word)
      BY DEF CameraSends
    <2> QED
      BY <2>1, <2>2, <2>3, Zenon
  <1>3. \A i \in 1..n : c[i] \in Inputs[Layout[i]]
    BY AssignmentsAre DEF CameraSends
  <1> HIDE DEF n
  <1>4. \A i \in 1..k : i \in 1..n
    BY <1>0, <1>1
  <1>5. ASSUME NEW i \in 1..k, Layout[i] # "length"
        PROVE  /\ CameraWrites(Layout[i], c[i]) \in Seq(Byte)
               /\ c[i] \in Inputs[Layout[i]]
               /\ Layout[i] = "ptpArray" =>
                     Len(c[i]) \in Nat /\ Len(c[i]) <= Len(CameraWrites(Layout[i], c[i]))
    <2>1. Layout[i] \in Fields /\ c[i] \in Inputs[Layout[i]]
      BY <1>0, <1>3, <1>4
    <2>2. Layout[i] = "ptpString" => Len(c[i]) <= MaxChars
      BY DEF CameraSends
    <2> QED
      BY <1>5, <2>1, <2>2, CameraWritesBytes
  <1> DEFINE none == <<>>
  <1>6. none \in Seq(Byte)
    BY EmptySeq, Zenon
  <1>7. ps = [i \in 1..k |-> IF Layout[i] = "length" THEN none
                             ELSE CameraWrites(Layout[i], c[i])]
    BY DEF CameraParts
  <1> HIDE DEF none, ps
  <1>8. \A i \in 1..k : (IF Layout[i] = "length" THEN none ELSE CameraWrites(Layout[i], c[i]))
                            \in Seq(Byte)
    BY <1>5, <1>6
  <1>9. ps \in Seq(Seq(Byte)) /\ Len(ps) = k
    BY <1>0, <1>1, <1>7, <1>8
  <1>10. ASSUME NEW i \in 1..k
         PROVE  /\ Layout[i] = "length" => ps[i] = none
                /\ Layout[i] # "length" =>
                      /\ ps[i] = CameraWrites(Layout[i], c[i])
                      /\ c[i] \in Inputs[Layout[i]]
                      /\ Layout[i] = "ptpArray" =>
                            Len(c[i]) \in Nat /\ Len(c[i]) <= Len(ps[i])
    <2>1. ps[i] = IF Layout[i] = "length" THEN none ELSE CameraWrites(Layout[i], c[i])
      BY <1>7
    <2>2. CASE Layout[i] = "length"
      BY <2>1, <2>2
    <2>3. CASE Layout[i] # "length"
      <3>1. ps[i] = CameraWrites(Layout[i], c[i])
        BY <2>1, <2>3, Zenon
      <3> QED
        BY <1>5, <2>3, <3>1
    <2> QED
      BY <2>2, <2>3
  <1> QED
    BY <1>1, <1>2, <1>9, <1>10 DEF ps, none, n

\* The bytes a camera sends: with a length, it is that of all of them.
CameraStream(c, k, more, length, b) ==
    /\ CameraSends(c, k, more)
    /\ length = Word + Len(CameraBody(c, k, more))
    /\ length < Power[Word]
    /\ b = IF HasLength THEN WriteInt(length, Word) \o CameraBody(c, k, more)
           ELSE CameraBody(c, k, more)

\* They stand one after the other, and a packet with a length starts with its own.
LEMMA CameraStreamIs ==
    ASSUME kind \in DOMAIN Layouts,
           NEW c, NEW k, NEW more, NEW length, NEW b, CameraStream(c, k, more, length, b)
    PROVE  /\ b \in Seq(Byte) /\ length \in Words
           /\ HasLength => b \in Sized /\ Len(b) = length
           /\ \E ends : StandBetween(CameraHead(length), CameraParts(c, k), more, b, ends)
  <1> DEFINE head == CameraHead(length)
             ps == CameraParts(c, k)
             body == CameraBody(c, k, more)
             none == <<>>
  <1>0. Word \in Nat
    BY WordsAre
  <1>1. ps \in Seq(Seq(Byte)) /\ more \in Seq(Byte)
    <2>1. CameraSends(c, k, more)
      BY DEF CameraStream
    <2> QED
      BY <2>1, CameraPartsAre
  <1>2. body = FlattenSeq(ps) \o more
    BY DEF CameraBody
  <1>3. body \in Seq(Byte)
    <2> HIDE DEF ps, body
    <2>1. FlattenSeq(ps) \in Seq(Byte)
      BY <1>1, FlattenIs
    <2> DEFINE f == FlattenSeq(ps)
    <2> HIDE DEF f
    <2>2. f \o more \in Seq(Byte)
      BY <1>1, <2>1, OneMorePart DEF f
    <2> QED
      BY <1>2, <2>2 DEF f
  <1>4. length = Word + Len(body) /\ length < Power[Word]
    BY DEF CameraStream
  <1>5. b = IF HasLength THEN WriteInt(length, Word) \o body ELSE body
    BY Zenon DEF CameraStream
  <1> HIDE DEF ps, body
  <1>6. length \in Nat /\ length \in Words /\ Len(body) \in Nat
    BY <1>0, <1>3, <1>4, WordsAre
  <1>7. head = IF HasLength THEN WriteInt(length, Word) ELSE none
    BY DEF CameraHead
  <1>8. none \in Seq(Byte) /\ none \o body = body
    <2>1. none \in Seq(Byte)
      BY EmptySeq, Zenon
    <2>2. none \o body = body
      BY <1>3, ConcatEmptySeq
    <2> QED
      BY <2>1, <2>2
  <1>9. WriteInt(length, Word) \in Seq(Byte) /\ Len(WriteInt(length, Word)) = Word
    BY <1>0, <1>6, WriteIntIs
  <1> HIDE DEF head, none
  <1>10. head \in Seq(Byte) /\ b = head \o body
    <2>1. CASE HasLength
      <3>1. head = WriteInt(length, Word) /\ b = WriteInt(length, Word) \o body
        BY <1>5, <1>7, <2>1, Zenon
      <3> QED
        BY <1>9, <3>1, Zenon
    <2>2. CASE ~HasLength
      <3>1. head = none /\ b = body
        BY <1>5, <1>7, <2>2, Zenon
      <3> QED
        BY <1>8, <3>1, Zenon
    <2> QED
      BY <2>1, <2>2
  <1>11. b \in Seq(Byte) /\ \E ends : StandBetween(head, ps, more, b, ends)
    <2>1. b = head \o (FlattenSeq(ps) \o more)
      BY <1>2, <1>10, Zenon
    <2> DEFINE t == head \o (FlattenSeq(ps) \o more)
    <2>2. t \in Seq(Byte) /\ \E ends : StandBetween(head, ps, more, t, ends)
      BY <1>1, <1>10, BodyStands
    <2>3. b = t
      BY <2>1
    <2> HIDE DEF t
    <2> QED
      BY <2>2, <2>3
  <1>12. CASE HasLength
    <2> DEFINE w == WriteInt(length, Word)
    <2>1. head = w /\ w \in Seq(Byte) /\ Len(w) = Word
      BY <1>7, <1>9, <1>12
    <2> HIDE DEF w
    <2>2. Len(head \o body) = Len(head) + Len(body)
      BY <1>3, <1>10, ConcatProperties
    <2>3. Len(b) = length
      <3>1. Len(b) = Len(head) + Len(body)
        BY <1>10, <2>2, Zenon
      <3> QED
        BY <1>4, <2>1, <3>1
    <2>4. PICK ends : StandBetween(head, ps, more, b, ends)
      BY <1>11
    <2>5. Holds(b, 0, w)
      BY <2>1, <2>4 DEF StandBetween
    <2>6. SubSeq(b, 0 + 1, 0 + Len(w)) = w
      <3>1. 0 \in Nat
        OBVIOUS
      <3> QED
        BY <1>11, <2>1, <2>5, <3>1, CutOut, Zenon
    <2>7. SubSeq(b, 1, Word) = w
      <3>1. 0 + 1 = 1 /\ 0 + Len(w) = Word
        BY <1>0, <2>1
      <3> QED
        BY <2>6, <3>1, Zenon
    <2>8. Len(b) >= Word /\ Len(b) \in Words
      BY <1>0, <1>4, <1>6, <2>3
    <2>9. SubSeq(b, 1, Word) = WriteInt(Len(b), Word)
      BY <2>3, <2>7 DEF w
    <2>10. b \in Sized
      BY <1>11, <2>8, <2>9 DEF Sized
    <2> QED
      BY <1>6, <1>11, <2>3, <2>10 DEF head, ps
  <1>13. CASE ~HasLength
    BY <1>6, <1>11, <1>13 DEF head, ps
  <1> QED
    BY <1>12, <1>13

\* Each member, by the case it is.
LEMMA CameraMeansIs ==
    ASSUME NEW c, NEW k \in Nat, NEW length, NEW i \in 1..Len(Layout)
    PROVE  /\ i > k => CameraMeans(c, k, length)[i] = Default(Layout[i])
           /\ ~(i > k) /\ Layout[i] = "length" => CameraMeans(c, k, length)[i] = length
           /\ ~(i > k) /\ Layout[i] # "length" =>
                 CameraMeans(c, k, length)[i] = Taking(Layout[i], c[i])
  <1> DEFINE v == CameraMeans(c, k, length)[i]
             field == Layout[i]
             rec == [numElements |-> Len(c[i]), array |-> c[i]]
             given == CASE field = "length" -> length
                        [] field = "ptpArray" -> rec
                        [] OTHER -> c[i]
  <1>1. v = IF i > k THEN Default(field) ELSE given
    BY DEF CameraMeans
  <1>2. field = "length" => given = length
    <2> SUFFICES ASSUME field = "length" PROVE given = length
      OBVIOUS
    <2>1. ~(field = "ptpArray")
      OBVIOUS
    <2> HIDE DEF field, rec
    <2> QED
      BY <2>1
  <1>3. field # "length" => given = Taking(field, c[i])
    <2>1. Taking(field, c[i]) = IF field = "ptpArray" THEN rec ELSE c[i]
      BY DEF Taking
    <2> DEFINE x == c[i]
    <2> HIDE DEF field, rec, x
    <2> QED
      BY <2>1 DEF x
  <1> HIDE DEF given, v
  <1>4. ~(i > k) => v = given
    BY <1>1, Zenon
  <1>5. i > k => v = Default(field)
    BY <1>1, Zenon
  <1> QED
    BY <1>2, <1>3, <1>4, <1>5 DEF v

\* It stands for members that hold what they can hold.
LEMMA CameraMeansHeld ==
    ASSUME kind \in DOMAIN Layouts,
           NEW c, NEW k, NEW more, NEW length, NEW b, CameraStream(c, k, more, length, b)
    PROVE  Holding(CameraMeans(c, k, length))
  <1> DEFINE n == Len(Layout)
             vs == CameraMeans(c, k, length)
  <1>0. n \in Nat /\ n >= 1 /\ \A i \in 1..n : Layout[i] \in Fields
    BY FieldsAre
  <1>1. CameraSends(c, k, more) /\ length = Word + Len(CameraBody(c, k, more))
        /\ length < Power[Word]
    BY DEF CameraStream
  <1>2. length \in Words
    BY CameraStreamIs
  <1>3. k \in 1..n /\ k \in Nat
    BY <1>0, <1>1, CameraPartsAre
  <1>4. ASSUME NEW i \in 1..n PROVE vs[i] \in Held(Layout[i])
    <2> DEFINE field == Layout[i]
               v == vs[i]
    <2>1. field \in Fields
      BY <1>0
    <2>2. /\ i > k => v = Default(field)
          /\ ~(i > k) /\ field = "length" => v = length
          /\ ~(i > k) /\ field # "length" => v = Taking(field, c[i])
      BY <1>3, CameraMeansIs
    <2>3. ~(i > k) => i \in 1..k
      BY <1>3
    <2>4. field # "length" /\ i \in 1..k =>
              c[i] \in Inputs[field] /\ (field = "ptpArray" => Len(c[i]) \in Words)
      <3> SUFFICES ASSUME field # "length", i \in 1..k
                   PROVE  c[i] \in Inputs[field] /\ (field = "ptpArray" => Len(c[i]) \in Words)
        OBVIOUS
      <3> DEFINE ps == CameraParts(c, k)
      <3>1. /\ ps \in Seq(Seq(Byte)) /\ Len(ps) = k
            /\ c[i] \in Inputs[field]
            /\ field = "ptpArray" => Len(c[i]) \in Nat /\ Len(c[i]) <= Len(ps[i])
        BY <1>1, CameraPartsAre
      <3>2. PICK ends : StandBetween(CameraHead(length), ps, more, b, ends)
        BY CameraStreamIs
      <3>3. b \in Seq(Byte) /\ Len(b) \in Nat /\ Len(b) < Power[Word]
        <4>1. b \in Seq(Byte) /\ (HasLength => Len(b) = length)
          BY CameraStreamIs
        <4>2. ~HasLength => b = CameraBody(c, k, more)
          BY DEF CameraStream
        <4>3. Len(b) \in Nat /\ Word \in Nat /\ Power[Word] \in Nat
          BY <4>1, WordsAre
        <4>4. CASE HasLength
          BY <1>1, <4>1, <4>3, <4>4
        <4>5. CASE ~HasLength
          <5>1. length = Word + Len(b)
            BY <1>1, <4>2, <4>5
          <5>2. length < Power[Word]
            BY <1>1
          <5> QED
            BY <4>1, <4>3, <5>1, <5>2
        <4> QED
          BY <4>4, <4>5
      <3> HIDE DEF ps
      <3>4. Holds(b, ends[i - 1], ps[i]) /\ ends \in [0..k -> Nat]
        BY <3>1, <3>2 DEF StandBetween
      <3>5. ends[i - 1] \in Nat /\ Len(ps[i]) \in Nat
        <4>1. i - 1 \in 0..k
          BY <1>3
        <4>2. ps[i] \in Seq(Byte)
          BY <3>1
        <4>3. Len(ps[i]) \in Nat
          BY <4>2
        <4>4. \A x \in 0..k : ends[x] \in Nat
          BY <3>4
        <4> QED
          BY <4>1, <4>3, <4>4
      <3>6. ends[i - 1] + Len(ps[i]) <= Len(b)
        BY <3>4 DEF Holds
      <3>7. field = "ptpArray" => Len(c[i]) \in Words
        <4> SUFFICES ASSUME field = "ptpArray" PROVE Len(c[i]) \in Words
          OBVIOUS
        <4> DEFINE m == Len(c[i])
                   p == Len(ps[i])
                   e == ends[i - 1]
        <4>1. m \in Nat /\ m <= p /\ p \in Nat /\ e \in Nat /\ e + p <= Len(b)
          BY <3>1, <3>5, <3>6
        <4> HIDE DEF m, p, e
        <4>2. m < Power[Word]
          BY <3>3, <4>1, WordsAre
        <4> QED
          BY <4>1, <4>2, WordsAre DEF m
      <3> QED
        BY <3>1, <3>7
    <2> HIDE DEF field, v, vs
    <2>5. CASE i > k
      BY <2>1, <2>2, <2>5, DefaultIsHeld DEF field, v
    <2>6. CASE ~(i > k) /\ field = "length"
      BY <1>2, <2>2, <2>6 DEF Held, field, v
    <2>7. CASE ~(i > k) /\ field # "length"
      <3> DEFINE x == c[i]
      <3>1. /\ x \in Inputs[field] /\ (field = "ptpArray" => Len(x) \in Words)
            /\ v = Taking(field, x)
        BY <2>2, <2>3, <2>4, <2>7
      <3> HIDE DEF x
      <3>2. IF field = "ptpArray" THEN x \in Seq(Words) ELSE x \in Held(field)
        BY <2>1, <2>7, <3>1, InputsAre
      <3>3. CASE field = "ptpArray"
        <4>1. v = [numElements |-> Len(x), array |-> x]
          BY <3>1, <3>3 DEF Taking
        <4>2. v \in [numElements : Words, array : Seq(Words)]
          BY <3>1, <3>2, <3>3, <4>1
        <4> QED
          BY <3>3, <4>2 DEF Held, field, v
      <3>4. CASE field # "ptpArray"
        BY <3>1, <3>2, <3>4 DEF Taking, field, v
      <3> QED
        BY <3>3, <3>4
    <2> QED
      BY <2>5, <2>6, <2>7
  <1>5. Len(vs) = n /\ vs = [i \in 1..n |-> vs[i]]
    BY <1>0 DEF CameraMeans
  <1> HIDE DEF vs
  <1> QED
    BY <1>4, <1>5 DEF Holding, vs, n

\* Packet::unpack reads what a camera sent as it was sent, what it left out as
\* zero or empty.
LEMMA CameraReadsBack ==
    ASSUME kind \in DOMAIN Layouts,
           NEW c, NEW k, NEW more, NEW length, NEW b, CameraStream(c, k, more, length, b),
           ReadableAs(Layout, CameraMeans(c, k, length))
    PROVE  UnpackedAs(Layout, b) = CameraMeans(c, k, length)
  <1> DEFINE n == Len(Layout)
             vs == CameraMeans(c, k, length)
             ps == CameraParts(c, k)
             head == CameraHead(length)
             limit == Len(b)
  <1>0. /\ n \in Nat /\ n >= 1 /\ \A i \in 1..n : Layout[i] \in Fields
        /\ \A i \in 1..n : /\ Layout[i] = "length" => i = 1
                           /\ Layout[i] \in Greedy => i = n
    BY FieldsAre DEF FieldsFit
  <1>1. /\ b \in Seq(Byte) /\ length \in Words
        /\ HasLength => Len(b) = length
        /\ \E ends : StandBetween(head, ps, more, b, ends)
    BY CameraStreamIs
  <1>2. CameraSends(c, k, more)
    BY DEF CameraStream
  <1>3. /\ ps \in Seq(Seq(Byte)) /\ Len(ps) = k /\ k \in 1..n
        /\ \A i \in 1..k : /\ Layout[i] = "length" => ps[i] = <<>>
                           /\ Layout[i] # "length" =>
                                 /\ ps[i] = CameraWrites(Layout[i], c[i])
                                 /\ c[i] \in Inputs[Layout[i]]
                                 /\ Layout[i] = "ptpArray" =>
                                       Len(c[i]) \in Nat /\ Len(c[i]) <= Len(ps[i])
    BY <1>2, CameraPartsAre
  <1>4. k \in Nat /\ limit \in Nat /\ k <= n /\ k >= 1
    BY <1>0, <1>1, <1>3
  <1>5. /\ Holding(vs) /\ vs = [i \in 1..n |-> vs[i]]
        /\ \A i \in 1..n : vs[i] \in Held(Layout[i])
    BY CameraMeansHeld DEF Holding
  <1>6. PICK ends : StandBetween(head, ps, more, b, ends)
    BY <1>1
  <1> HIDE DEF ps
  <1>7. /\ ends \in [0..k -> Nat] /\ ends[0] = Len(head) /\ ends[k] + Len(more) = limit
        /\ Holds(b, 0, head)
        /\ \A i \in 1..k :
              ends[i] = ends[i - 1] + Len(ps[i]) /\ ends[i] <= limit /\ Holds(b, ends[i - 1], ps[i])
    BY <1>3, <1>6 DEF StandBetween
  <1> DEFINE E == [j \in 0..n |-> IF j = 0 THEN 0 ELSE IF j <= k THEN ends[j] ELSE limit]
  <1>8. HasLength <=> Layout[1] = "length"
    BY DEF HasLength
  <1>9. Word \in Nat
    BY WordsAre
  <1>10. IF HasLength THEN head = WriteInt(length, Word) /\ Len(head) = Word
         ELSE head = <<>> /\ Len(head) = 0
    <2>1. CASE HasLength
      <3>1. head = WriteInt(length, Word)
        BY <2>1 DEF CameraHead
      <3>2. Len(WriteInt(length, Word)) = Word
        BY <1>1, <1>9, WordsAre, WriteIntIs
      <3> QED
        BY <2>1, <3>1, <3>2
    <2>2. CASE ~HasLength
      BY <2>2 DEF CameraHead
    <2> QED
      BY <2>1, <2>2
  <1>11. k < n => more = <<>>
    BY <1>2, <1>4 DEF CameraSends
  <1>12. more = <<>> => ends[k] = limit
    <2> SUFFICES ASSUME more = <<>> PROVE ends[k] = limit
      OBVIOUS
    <2>1. Len(more) = 0
      OBVIOUS
    <2>2. ends[k] \in Nat
      BY <1>4, <1>7
    <2> QED
      BY <1>7, <2>1, <2>2
  <1>13. E[0] = 0 /\ \A j \in 1..n : E[j] = IF j <= k THEN ends[j] ELSE limit
    <2>1. 0 \in 0..n /\ \A j \in 1..n : j \in 0..n /\ j # 0
      BY <1>0
    <2> QED
      BY <2>1
  <1> HIDE DEF E, head, vs, limit, n
  <1>14. ASSUME NEW i \in 1..n
         PROVE  /\ Read(Layout[i], b, E[i - 1], limit) = [value |-> vs[i], at |-> E[i]]
                /\ Layout[i] = "length" => vs[i] = limit
    <2> DEFINE field == Layout[i]
    <2>1. field \in Fields /\ (field = "length" => i = 1) /\ (field \in Greedy => i = n)
      BY <1>0
    <2>2. /\ i > k => vs[i] = Default(field)
          /\ ~(i > k) /\ field = "length" => vs[i] = length
          /\ ~(i > k) /\ field # "length" => vs[i] = Taking(field, c[i])
      BY <1>4, CameraMeansIs DEF vs, n
    <2>3. limit \in 0..Len(b)
      BY <1>4 DEF limit
    <2>4. i \in Nat /\ i >= 1 /\ i <= n /\ n \in Nat
      BY <1>0
    <2>5. E[i] = IF i <= k THEN ends[i] ELSE limit
      BY <1>13
    <2> HIDE DEF field
    <2>6. CASE i > k
      <3>1. k < n /\ more = <<>> /\ ends[k] = limit
        BY <1>4, <1>11, <1>12, <2>4, <2>6
      <3>2. E[i - 1] = limit
        <4>1. i - 1 \in 1..n /\ (i - 1 <= k => i - 1 = k)
          BY <1>4, <2>4, <2>6
        <4>2. E[i - 1] = IF i - 1 <= k THEN ends[i - 1] ELSE limit
          BY <1>13, <4>1
        <4> QED
          BY <3>1, <4>1, <4>2
      <3>3. E[i] = limit
        BY <1>4, <2>4, <2>5, <2>6
      <3>4. field # "length"
        BY <1>4, <2>1, <2>6
      <3>5. Read(field, b, limit, limit) = [value |-> Default(field), at |-> limit]
        BY <1>4, <2>1, DefaultReads
      <3> QED
        BY <2>2, <2>6, <3>2, <3>3, <3>4, <3>5 DEF field
    <2>7. CASE ~(i > k) /\ field = "length"
      <3>1. i = 1 /\ HasLength /\ i \in 1..k
        BY <1>4, <1>8, <2>1, <2>7 DEF field
      <3>2. head = WriteInt(length, Word) /\ Len(head) = Word /\ length = limit
        BY <1>1, <1>10, <3>1 DEF limit
      <3>3. E[i - 1] = 0
        <4>1. i - 1 = 0
          BY <3>1
        <4> QED
          BY <1>13, <4>1
      <3>4. E[i] = Word
        <4>1. ps[i] = <<>> /\ Len(ps[i]) = 0
          BY <1>3, <2>7, <3>1 DEF field
        <4>2. ends[i] = ends[i - 1] + Len(ps[i]) /\ i - 1 = 0
          BY <1>7, <3>1
        <4>3. ends[i] = Word
          BY <1>7, <1>9, <3>2, <4>1, <4>2
        <4> QED
          BY <1>4, <2>5, <3>1, <4>3
      <3>5. ReadsAs("length", head, length)
        BY <1>1, <3>2, WordReads
      <3>6. Holds(b, 0, head) /\ 0 + Len(head) <= limit
        BY <1>7 DEF Holds, limit
      <3>7. "length" \notin Greedy /\ 0 \in Nat
        BY DEF Greedy
      <3>8. Read("length", b, 0, limit) = [value |-> length, at |-> 0 + Len(head)]
        BY <1>1, <2>3, <3>5, <3>6, <3>7 DEF ReadsAs
      <3>9. 0 + Len(head) = Word
        BY <1>9, <3>2
      <3>10. vs[i] = length
        BY <2>2, <2>7
      <3> QED
        BY <2>7, <3>2, <3>3, <3>4, <3>8, <3>9, <3>10 DEF field
    <2>8. CASE ~(i > k) /\ field # "length"
      <3> DEFINE at == ends[i - 1]
                 w == ps[i]
                 x == c[i]
      <3>1. i \in 1..k /\ i <= k
        BY <1>4, <2>4, <2>8
      <3>2. /\ w = CameraWrites(field, x) /\ x \in Inputs[field]
            /\ field = "ptpArray" => Len(x) \in Nat /\ Len(x) <= Len(w)
        BY <1>3, <2>8, <3>1 DEF field
      <3>3. /\ ends[i] = at + Len(w) /\ ends[i] <= limit /\ Holds(b, at, w)
        BY <1>7, <3>1
      <3>4. at \in Nat
        <4>1. i - 1 \in 0..k
          BY <1>4, <3>1
        <4> QED
          BY <1>7, <4>1
      <3>5. vs[i] = Taking(field, x)
        BY <2>2, <2>8
      <3>6. E[i - 1] = at
        <4>1. CASE i = 1
          <5>1. ~HasLength /\ i - 1 = 0
            BY <1>8, <2>8, <4>1 DEF field
          <5> QED
            BY <1>7, <1>10, <1>13, <5>1
        <4>2. CASE i # 1
          <5>1. i - 1 \in 1..n /\ i - 1 <= k
            BY <1>4, <2>4, <3>1, <4>2
          <5>2. E[i - 1] = IF i - 1 <= k THEN ends[i - 1] ELSE limit
            BY <1>13, <5>1
          <5> QED
            BY <5>1, <5>2
        <4> QED
          BY <4>1, <4>2
      <3>7. E[i] = at + Len(w)
        BY <2>5, <3>1, <3>3
      <3>8. field \in Greedy => ends[i] = limit
        <4> SUFFICES ASSUME field \in Greedy PROVE ends[i] = limit
          OBVIOUS
        <4>1. i = n /\ i = k
          BY <1>4, <2>1, <3>1
        <4>2. IsGreedy
          BY <4>1 DEF IsGreedy, field, n
        <4>3. more = <<>>
          BY <1>2, <4>2 DEF CameraSends
        <4> QED
          BY <1>12, <4>1, <4>3
      <3>9. field = "ptpString" => Len(x) <= MaxChars
        BY <1>2, <3>1 DEF CameraSends, field
      <3>10. field = "long" => x < Power[Word] \div 2
        <4> SUFFICES ASSUME field = "long" PROVE x < Power[Word] \div 2
          OBVIOUS
        <4>1. i \in 1..Len(vs)
          BY <1>5 DEF Holding, n
        <4>2. vs[i] < Power[Word] \div 2
          BY <4>1 DEF ReadableAs, vs, field
        <4>3. vs[i] = x
          BY <3>5 DEF Taking
        <4> HIDE DEF x
        <4> QED
          BY <4>2, <4>3
      <3>11. field = "ptpArray" => Len(x) \in Words
        <4> SUFFICES ASSUME field = "ptpArray" PROVE Len(x) \in Words
          OBVIOUS
        <4>1. vs[i] = [numElements |-> Len(x), array |-> x]
          BY <3>5 DEF Taking
        <4>2. vs[i] \in [numElements : Words, array : Seq(Words)]
          BY <1>5 DEF Held, field
        <4> DEFINE m == Len(x)
                   v == vs[i]
        <4>3. v = [numElements |-> m, array |-> x] /\ v \in [numElements : Words, array : Seq(Words)]
          BY <4>1, <4>2
        <4> HIDE DEF m, v
        <4>4. m \in Words
          BY <4>3
        <4> QED
          BY <4>4 DEF m
      <3> HIDE DEF at, w, x
      <3>12. ReadsAs(field, CameraWrites(field, x), Taking(field, x))
        BY <2>1, <2>8, <3>2, <3>9, <3>10, <3>11, CameraFieldReads
      <3>13. ReadsAs(field, w, Taking(field, x))
        BY <3>2, <3>12
      <3>14. at + Len(w) <= limit /\ (field \in Greedy => at + Len(w) = limit)
        BY <3>3, <3>8
      <3>15. Read(field, b, at, limit) = [value |-> Taking(field, x), at |-> at + Len(w)]
        BY <1>1, <2>3, <3>3, <3>4, <3>13, <3>14 DEF ReadsAs
      <3> QED
        BY <2>8, <3>5, <3>6, <3>7, <3>15 DEF field
    <2> QED
      BY <2>6, <2>7, <2>8
  <1>15. UnpackedAs(Layout, b) = [i \in 1..n |-> vs[i]]
    <2> DEFINE layout == Layout
    <2>1. ReadInTurn(layout, n, b, vs, E)
      BY <1>13, <1>14 DEF ReadInTurn, limit
    <2>2. Len(layout) = n /\ Len(b) \in Nat
      BY <1>4 DEF n, limit
    <2> HIDE DEF layout
    <2>3. UnpackedAs(layout, b) = [i \in 1..n |-> vs[i]]
      BY <1>0, <2>1, <2>2, FieldsRead
    <2> QED
      BY <2>3 DEF layout
  <1> QED
    BY <1>5, <1>15 DEF vs

-----------------------------------------------------------------------------
(* The inductive invariant.                                                *)

\* The conjuncts of IInv for given members, bytes and history.
Stable(vs, b, by, s, from) ==
    /\ Holding(vs)
    /\ b \in Seq(Byte)
    /\ by \in {"nobody", "application", "camera"}
    /\ s # <<>> => Holding(s)
    /\ from \in BOOLEAN
    /\ by # "nobody" /\ HasLength => b \in Sized
    /\ by = "camera" \/ (by = "application" /\ kind # "DeviceInfo") => s # <<>>
    /\ by # "nobody" /\ s # <<>> /\ ReadableAs(Layout, s) => UnpackedAs(Layout, b) = s
    /\ from => by # "nobody" /\ vs = UnpackedAs(Layout, b)

\* They are IInv.
LEMMA StableIs ==
    IInv <=> kind \in DOMAIN Layouts /\ Stable(values, buffer, packedBy, sent, fromBytes)
  <1>1. Unpacked(buffer) = UnpackedAs(Layout, buffer)
    BY UnpackedIs
  <1>2. Readable <=> ReadableAs(Layout, sent)
    BY DEF Readable, ReadableAs
  <1> QED
    BY <1>1, <1>2 DEF IInv, TypeOK, Framed, Stands, ReadBack, Current, Stable

\* The packet stays of its class: no step changes what a field is.
LEMMA StableNext ==
    ASSUME kind' = kind, kind \in DOMAIN Layouts,
           Stable(values', buffer', packedBy', sent', fromBytes')
    PROVE  IInv'
  <1>1. Layout' = Layout /\ (HasLength' <=> HasLength)
    BY DEF Layout, HasLength
  <1>2. Unpacked(buffer)' = UnpackedAs(Layout, buffer')
    <2>1. Unpacked(buffer)' = UnpackedAs(Layout', buffer')
      BY DEF Unpacked, UnpackedAs, Progress
    <2> QED
      BY <1>1, <2>1, Zenon
  <1>3. Readable' <=> ReadableAs(Layout, sent')
    BY <1>1 DEF Readable, ReadableAs
  <1>4. /\ Holding(values)' <=> Holding(values')
        /\ Holding(sent)' <=> Holding(sent')
    BY <1>1 DEF Holding
  <1>5. /\ TypeOK' <=> /\ kind' \in DOMAIN Layouts
                       /\ Holding(values)'
                       /\ buffer' \in Seq(Byte)
                       /\ packedBy' \in {"nobody", "application", "camera"}
                       /\ sent' # <<>> => Holding(sent)'
                       /\ fromBytes' \in BOOLEAN
        /\ Framed' <=> (packedBy' # "nobody" /\ HasLength' => buffer' \in Sized)
        /\ Stands' <=> (packedBy' = "camera" \/ (packedBy' = "application" /\ kind' # "DeviceInfo")
                            => sent' # <<>>)
        /\ ReadBack' <=> (packedBy' # "nobody" /\ sent' # <<>> /\ Readable'
                              => Unpacked(buffer)' = sent')
        /\ Current' <=> (fromBytes' => packedBy' # "nobody" /\ values' = Unpacked(buffer)')
    BY DEF TypeOK, Framed, Stands, ReadBack, Current
  <1> QED
    BY <1>1, <1>2, <1>3, <1>4, <1>5 DEF IInv, Stable

\* At first the members are zero or empty, and nothing is packed.
LEMMA InitStable ==
    ASSUME Init
    PROVE  IInv
  <1> DEFINE n == Len(Layout)
             vs == [i \in 1..n |-> Default(Layout[i])]
             none == <<>>
  <1>1. /\ kind \in DOMAIN Layouts /\ values = vs /\ buffer = none
        /\ packedBy = "nobody" /\ sent = <<>> /\ fromBytes = FALSE
    BY DEF Init
  <1>2. Holding(vs)
    <2>1. n \in Nat /\ \A i \in 1..n : Layout[i] \in Fields
      BY <1>1, FieldsAre
    <2>2. \A i \in 1..n : vs[i] \in Held(Layout[i])
      BY <2>1, DefaultIsHeld
    <2>3. Len(vs) = n /\ vs = [i \in 1..n |-> vs[i]]
      BY <2>1
    <2> HIDE DEF vs
    <2> QED
      BY <2>2, <2>3 DEF Holding
  <1>3. none \in Seq(Byte)
    BY EmptySeq, Zenon
  <1> HIDE DEF vs, none
  <1>4. Stable(vs, none, "nobody", <<>>, FALSE)
    BY <1>2, <1>3 DEF Stable
  <1>5. Stable(values, buffer, packedBy, sent, fromBytes)
    BY <1>1, <1>4
  <1> QED
    BY <1>1, <1>5, StableIs

\* The application assigns what the fields can hold.
LEMMA AssignStable ==
    ASSUME IInv, Assign
    PROVE  IInv'
  <1> DEFINE n == Len(Layout)
  <1>0. kind \in DOMAIN Layouts /\ Stable(values, buffer, packedBy, sent, fromBytes)
    BY StableIs
  <1>1. PICK chosen \in Assignments :
            values' = [i \in 1..n |->
                          CASE Layout[i] = "length" -> values[i]
                            [] Layout[i] = "ptpArray" -> [values[i] EXCEPT !.array = chosen[i]]
                            [] OTHER -> chosen[i]]
    BY DEF Assign
  <1>2. fromBytes' = FALSE /\ kind' = kind /\ buffer' = buffer /\ packedBy' = packedBy
        /\ sent' = sent
    BY DEF Assign
  <1>3. n \in Nat /\ \A i \in 1..n : Layout[i] \in Fields
    BY <1>0, FieldsAre
  <1>4. ASSUME NEW i \in 1..n PROVE values'[i] \in Held(Layout[i])
    <2> DEFINE field == Layout[i]
               x == chosen[i]
               v == values[i]
    <2>1. field \in Fields /\ v \in Held(field) /\ x \in Inputs[field]
      BY <1>0, <1>3, AssignmentsAre DEF Stable, Holding
    <2>2. values'[i] = CASE field = "length" -> v
                         [] field = "ptpArray" -> [v EXCEPT !.array = x]
                         [] OTHER -> x
      BY <1>1
    <2> HIDE DEF field, x, v
    <2>3. CASE field = "length"
      <3>1. values'[i] = v
        <4>1. field # "ptpArray"
          BY <2>3
        <4> QED
          BY <2>2, <2>3, <4>1
      <3> QED
        BY <2>1, <3>1 DEF field
    <2>4. CASE field = "ptpArray"
      <3> DEFINE m == v.numElements
      <3>1. v \in [numElements : Words, array : Seq(Words)] /\ x \in Seq(Words)
        <4>1. field # "length"
          BY <2>4
        <4> QED
          BY <2>1, <2>4, <4>1, InputsAre DEF Held
      <3>2. values'[i] = [v EXCEPT !.array = x]
        BY <2>2, <2>4
      <3>3. [v EXCEPT !.array = x] \in [numElements : Words, array : Seq(Words)]
        BY <3>1
      <3> QED
        BY <2>4, <3>2, <3>3 DEF Held, field
    <2>5. CASE field # "length" /\ field # "ptpArray"
      <3>1. values'[i] = x
        BY <2>2, <2>5
      <3>2. x \in Held(field)
        BY <2>1, <2>5, InputsAre
      <3> QED
        BY <3>1, <3>2 DEF field
    <2> QED
      BY <2>3, <2>4, <2>5
  <1>5. Holding(values')
    <2>1. Len(values') = n /\ values' = [i \in 1..n |-> values'[i]]
      BY <1>1, <1>3
    <2> QED
      BY <1>4, <2>1 DEF Holding
  <1>6. Stable(values', buffer', packedBy', sent', fromBytes')
    BY <1>0, <1>2, <1>5 DEF Stable
  <1> QED
    BY <1>0, <1>2, <1>6, StableNext

\* Members that hold what they can hold are not none.
LEMMA HoldingIsSome ==
    ASSUME kind \in DOMAIN Layouts, NEW vs, Holding(vs)
    PROVE  vs # <<>>
  <1>1. Len(vs) >= 1
    BY FieldsAre DEF Holding
  <1>2. Len(<<>>) = 0
    OBVIOUS
  <1> QED
    BY <1>1, <1>2

\* The application packs: but for the counts of a DeviceInfo written too early the
\* bytes stand for what packing leaves in the members.
LEMMA PackStable ==
    ASSUME IInv, Pack
    PROVE  IInv'
  <1> DEFINE vs == values
             av == AfterPass(vs)
             b == Packed(vs)
             s == IF HasLength \/ Counted(vs) THEN av ELSE <<>>
  <1>0. kind \in DOMAIN Layouts /\ Stable(values, buffer, packedBy, sent, fromBytes)
    BY StableIs
  <1>1. /\ Fits(Bytes(vs)) /\ buffer' = b /\ values' = av /\ sent' = s
        /\ packedBy' = "application" /\ fromBytes' = FALSE /\ kind' = kind
    BY DEF Pack
  <1>2. Holding(vs)
    BY <1>0 DEF Stable
  <1> HIDE DEF vs
  <1>3. Holding(av)
    <2>1. av = AfterPass(vs)
      OBVIOUS
    <2> HIDE DEF av
    <2> QED
      BY <1>0, <1>1, <1>2, <2>1, AfterPassIs
  <1>4. b \in Seq(Byte) /\ (HasLength => b \in Sized)
    BY <1>0, <1>1, <1>2, PackedIsFramed
  <1>5. kind # "DeviceInfo" => HasLength \/ Counted(vs)
    <2> SUFFICES ASSUME kind # "DeviceInfo", ~HasLength PROVE Counted(vs)
      OBVIOUS
    <2>1. kind = "EOSEventData"
      BY <1>0, FieldsAre DEF FieldsFit, HasLength
    <2>2. Layout = <<"packets">>
      BY <2>1 DEF Layout, Layouts
    <2>3. Len(vs) = 1
      BY <1>2, <2>2 DEF Holding
    <2>4. \A i \in 1..Len(vs) : Layout[i] # "ptpArray"
      BY <2>2, <2>3
    <2> QED
      BY <2>4 DEF Counted
  <1>6. av # <<>>
    BY <1>0, <1>3, HoldingIsSome
  <1>7. HasLength \/ Counted(vs) => (ReadableAs(Layout, av) => UnpackedAs(Layout, b) = av)
    BY <1>0, <1>1, <1>2, PackedReadsBack
  <1> HIDE DEF av, b
  <1>8. Stable(av, b, "application", s, FALSE)
    <2>1. CASE HasLength \/ Counted(vs)
      <3>1. s = av
        BY <2>1
      <3> HIDE DEF s
      <3> QED
        BY <1>3, <1>4, <1>6, <1>7, <2>1, <3>1 DEF Stable
    <2>2. CASE ~(HasLength \/ Counted(vs))
      <3>1. s = <<>>
        BY <2>2
      <3> HIDE DEF s
      <3> QED
        BY <1>3, <1>4, <1>5, <2>2, <3>1 DEF Stable
    <2> QED
      BY <2>1, <2>2
  <1>9. Stable(values', buffer', packedBy', sent', fromBytes')
    BY <1>1, <1>8
  <1> QED
    BY <1>0, <1>1, <1>9, StableNext

\* Unpacking finds what the bytes stand for, or at least what the fields can hold.
LEMMA UnpackStable ==
    ASSUME IInv, Unpack
    PROVE  IInv'
  <1> DEFINE stream == IF IsFramed THEN buffer \o buffer ELSE buffer
             read == UnpackedAs(Layout, buffer)
  <1>0. kind \in DOMAIN Layouts /\ Stable(values, buffer, packedBy, sent, fromBytes)
    BY StableIs
  <1>1. /\ packedBy # "nobody" /\ values' = Received(stream) /\ fromBytes' = TRUE
        /\ kind' = kind /\ buffer' = buffer /\ packedBy' = packedBy /\ sent' = sent
    BY DEF Unpack
  <1>2. IsFramed => HasLength
    BY <1>0, FieldsAre DEF FieldsFit, HasLength, IsFramed
  <1>3. values' = read
    <2>1. CASE IsFramed
      <3>1. buffer \in Sized
        BY <1>0, <1>1, <1>2, <2>1 DEF Stable
      <3>2. Received(stream) = Unpacked(buffer)
        BY <3>1, OwnBytesOnly
      <3> QED
        BY <1>1, <3>2, UnpackedIs
    <2>2. CASE ~IsFramed
      <3>1. Received(buffer) = Unpacked(buffer)
        BY <2>2 DEF Received
      <3>2. stream = buffer
        BY <2>2
      <3> QED
        BY <1>1, <3>1, <3>2, UnpackedIs
    <2> QED
      BY <2>1, <2>2
  <1>4. Holding(read)
    <2>1. CASE sent # <<>> /\ ReadableAs(Layout, sent)
      <3>1. read = sent /\ Holding(sent)
        BY <1>0, <1>1, <2>1 DEF Stable
      <3> QED
        BY <3>1
    <2>2. CASE ~(sent # <<>> /\ ReadableAs(Layout, sent))
      <3>1. kind \in {"DeviceInfo", "StartData"}
        <4> SUFFICES ASSUME kind \notin {"DeviceInfo", "StartData"} PROVE FALSE
          OBVIOUS
        <4>1. sent # <<>>
          BY <1>0, <1>1 DEF Stable
        <4>2. Holding(sent)
          BY <1>0, <4>1 DEF Stable
        <4>3. \A i \in 1..Len(Layout) : Layout[i] # "long" /\ Layout[i] # "ptpString"
          BY <1>0, FieldsAre DEF FieldsFit
        <4>4. ASSUME NEW i \in 1..Len(sent), Layout[i] = "string" PROVE sent[i] \in Text
          BY <4>2, <4>4 DEF Holding, Held
        <4>5. \A i \in 1..Len(sent) : i \in 1..Len(Layout)
          BY <4>2 DEF Holding
        <4>6. ReadableAs(Layout, sent)
          BY <4>3, <4>4, <4>5 DEF ReadableAs
        <4> QED
          BY <2>2, <4>1, <4>6
      <3>2. buffer \in Seq(Byte)
        BY <1>0 DEF Stable
      <3> DEFINE layout == Layout
                 n == Len(layout)
      <3>3. layout = Layouts[kind] /\ n \in Nat
        BY <1>0, FieldsAre DEF Layout
      <3> HIDE DEF layout
      <3>4. \A k \in 1..Len(layout) : UnpackedAs(layout, buffer)[k] \in Held(layout[k])
        BY <3>1, <3>2, <3>3, GarbageIsHeld
      <3>5. Len(UnpackedAs(layout, buffer)) = n
            /\ UnpackedAs(layout, buffer) = [k \in 1..n |-> UnpackedAs(layout, buffer)[k]]
        BY <3>3 DEF UnpackedAs
      <3> QED
        BY <3>4, <3>5 DEF Holding, layout
    <2> QED
      BY <2>1, <2>2
  <1> HIDE DEF read, stream
  <1>5. Stable(values', buffer', packedBy', sent', fromBytes')
    BY <1>0, <1>1, <1>3, <1>4 DEF Stable, read
  <1> QED
    BY <1>0, <1>1, <1>5, StableNext

\* A camera sends what is read back.
LEMMA CameraStable ==
    ASSUME IInv, CameraPacks
    PROVE  IInv'
  <1>0. kind \in DOMAIN Layouts /\ Stable(values, buffer, packedBy, sent, fromBytes)
    BY StableIs
  <1>1. /\ packedBy' = "camera" /\ fromBytes' = FALSE /\ kind' = kind /\ values' = values
        /\ kind \in FromCamera
    BY DEF CameraPacks
  <1>2. PICK c \in Assignments, k \in (IF HasLength THEN 2 ELSE 1)..Len(Layout),
             more \in {<<>>, WriteInt(1, Word)} :
            LET body == FlattenSeq([i \in 1..k |-> IF Layout[i] = "length" THEN <<>>
                                       ELSE CameraWrites(Layout[i], c[i])]) \o more
                length == Word + Len(body)
            IN  /\ more # <<>> => k = Len(Layout) /\ ~IsGreedy
                /\ \A i \in 1..k : Layout[i] = "ptpString" => Len(c[i]) <= MaxChars
                /\ length < Power[Word]
                /\ buffer' = IF HasLength THEN WriteInt(length, Word) \o body ELSE body
                /\ sent' = [i \in 1..Len(Layout) |->
                        IF i > k THEN Default(Layout[i])
                        ELSE CASE Layout[i] = "length" -> length
                               [] Layout[i] = "ptpArray" ->
                                     [numElements |-> Len(c[i]), array |-> c[i]]
                               [] OTHER -> c[i]]
    BY DEF CameraPacks
  <1> DEFINE body == CameraBody(c, k, more)
             length == Word + Len(body)
             s == CameraMeans(c, k, length)
  <1>3. body = FlattenSeq([i \in 1..k |-> IF Layout[i] = "length" THEN <<>>
                              ELSE CameraWrites(Layout[i], c[i])]) \o more
    BY DEF CameraBody, CameraParts
  <1>4. /\ more # <<>> => k = Len(Layout) /\ ~IsGreedy
        /\ \A i \in 1..k : Layout[i] = "ptpString" => Len(c[i]) <= MaxChars
        /\ length < Power[Word]
        /\ buffer' = IF HasLength THEN WriteInt(length, Word) \o body ELSE body
        /\ sent' = s
    BY <1>2 DEF CameraBody, CameraParts, CameraMeans
  <1>5. CameraSends(c, k, more)
    BY <1>1, <1>4 DEF CameraSends
  <1>6. CameraStream(c, k, more, length, buffer')
    <2> HIDE DEF body
    <2> QED
      BY <1>4, <1>5 DEF CameraStream, body
  <1> HIDE DEF length
  <1>7. buffer' \in Seq(Byte) /\ (HasLength => buffer' \in Sized)
    BY <1>0, <1>6, CameraStreamIs
  <1>8. Holding(s)
    BY <1>0, <1>6, CameraMeansHeld
  <1>9. ReadableAs(Layout, s) => UnpackedAs(Layout, buffer') = s
    BY <1>0, <1>6, CameraReadsBack
  <1>10. s # <<>>
    BY <1>0, <1>8, HoldingIsSome
  <1> HIDE DEF s
  <1>11. Stable(values', buffer', packedBy', sent', fromBytes')
    BY <1>0, <1>1, <1>4, <1>7, <1>8, <1>9, <1>10 DEF Stable
  <1> QED
    BY <1>0, <1>1, <1>11, StableNext

\* TypeOK, Framed, Stands, ReadBack and Current hold in every reachable state, for
\* every width of byte and word, both signs of a char, and every input that the
\* fields can hold: whatever was assigned, packed, received and unpacked before, the
\* bytes of a packet read as what they stand for.
THEOREM Invariance == Spec => []IInv
  <1>1. Init => IInv
    BY InitStable
  <1>2. IInv /\ [Next]_vars => IInv'
    <2> SUFFICES ASSUME IInv, [Next]_vars PROVE IInv'
      OBVIOUS
    <2>1. CASE Assign
      BY <2>1, AssignStable
    <2>2. CASE Pack
      BY <2>2, PackStable
    <2>3. CASE Unpack
      BY <2>3, UnpackStable
    <2>4. CASE CameraPacks
      BY <2>4, CameraStable
    <2>5. CASE UNCHANGED vars
      <3>1. kind \in DOMAIN Layouts /\ Stable(values, buffer, packedBy, sent, fromBytes)
        BY StableIs
      <3>2. /\ kind' = kind /\ values' = values /\ buffer' = buffer /\ packedBy' = packedBy
            /\ sent' = sent /\ fromBytes' = fromBytes
        BY <2>5 DEF vars
      <3>3. Stable(values', buffer', packedBy', sent', fromBytes')
        BY <3>1, <3>2
      <3> QED
        BY <3>1, <3>2, <3>3, StableNext
    <2> QED
      BY <2>1, <2>2, <2>3, <2>4, <2>5 DEF Next
  <1> QED
    BY <1>1, <1>2, PTL DEF Spec

\* What an object packs is read back as the values it has then, by itself and by
\* the other end of a connection (Packet::pack, Packet::unpack, TCPPacket::recv).
THEOREM BytesReadBack == Spec => []RoundTrip
  <1>1. IInv => RoundTrip
    BY DEF IInv, Current, ReadBack, RoundTrip
  <1> QED
    BY <1>1, Invariance, PTL

\* What a camera sends is understood, whatever the object held before
\* (Packet::unpack, PTPString::unpack, Array::unpack).
THEOREM CamerasUnderstood == Spec => []CameraUnderstood
  <1>1. IInv => CameraUnderstood
    BY DEF IInv, Stands, Current, ReadBack, CameraUnderstood
  <1> QED
    BY <1>1, Invariance, PTL
=============================================================================
