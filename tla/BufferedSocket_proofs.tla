------------------------ MODULE BufferedSocket_proofs -------------------------
(***************************************************************************)
(* BufferedSocket: packets come out of the byte stream whole and in order  *)
(* and a packet cut off while it was sent is the last, for packets of any  *)
(* sizes, any size of the block buffer and any number of packets.          *)
(***************************************************************************)
EXTENDS BufferedSocket, SequenceTheorems, WellFoundedInduction, TLAPS

(***************************************************************************)
(* Induction on the naturals, for sets.                                    *)
(***************************************************************************)

\* A set of naturals that is not empty has a least element.
LEMMA SmallestOf ==
    ASSUME NEW S \in SUBSET Nat, S # {}
    PROVE  \E x \in S : \A y \in S : x <= y
  <1>1. \E x \in S : \A y \in S : <<y, x>> \notin OpToRel(<, Nat)
    BY NatLessThanWellFounded, WFMin, Zenon
  <1>2. PICK x \in S : \A y \in S : <<y, x>> \notin OpToRel(<, Nat)
    BY <1>1
  <1>3. \A y \in S : ~(y < x) /\ y \in Nat /\ x \in Nat
    BY <1>2 DEF OpToRel
  <1>4. \A y \in S : x <= y
    BY <1>3
  <1> QED
    BY <1>4

\* A set that holds 0 and with every natural the next holds them all.
LEMMA Induct ==
    ASSUME NEW S \in SUBSET Nat, 0 \in S, \A n \in S : n + 1 \in S
    PROVE  S = Nat
  <1> SUFFICES ASSUME Nat \ S # {} PROVE FALSE
    OBVIOUS
  <1>1. PICK m \in Nat \ S : \A y \in Nat \ S : m <= y
    BY SmallestOf
  <1>2. m - 1 \in S
    BY <1>1
  <1> QED
    BY <1>1, <1>2

(***************************************************************************)
(* Where packets end.                                                      *)
(***************************************************************************)

\* The running sums of a sequence of naturals exist, up to any length.
LEMMA SumsExist ==
    ASSUME NEW s \in Seq(Nat), NEW n \in 0..Len(s)
    PROVE  \E f \in [0..n -> Nat] :
               f[0] = 0 /\ \A k \in 1..n : f[k] = f[k - 1] + s[k]
  <1> DEFINE P(m) == \E f \in [0..m -> Nat] :
                         f[0] = 0 /\ \A k \in 1..m : f[k] = f[k - 1] + s[k]
             S == {m \in Nat : m <= Len(s) => P(m)}
  <1>1. P(0)
    <2> DEFINE f == [k \in 0..0 |-> 0]
    <2>1. f \in [0..0 -> Nat] /\ f[0] = 0 /\ \A k \in 1..0 : f[k] = f[k - 1] + s[k]
      OBVIOUS
    <2> QED
      BY <2>1
  <1>2. ASSUME NEW m \in S PROVE m + 1 \in S
    <2> SUFFICES ASSUME m + 1 <= Len(s) PROVE P(m + 1)
      <3> HIDE DEF P
      <3> QED  BY <1>2
    <2>1. m \in Nat /\ m <= Len(s) /\ m + 1 \in 1..Len(s) /\ Len(s) \in Nat
      BY <1>2
    <2>2. PICK f \in [0..m -> Nat] : f[0] = 0 /\ \A k \in 1..m : f[k] = f[k - 1] + s[k]
      BY <1>2, <2>1
    <2> DEFINE g == [k \in 0..m + 1 |-> IF k = m + 1 THEN f[m] + s[k] ELSE f[k]]
    <2>3. f[m] \in Nat /\ s[m + 1] \in Nat
      BY <2>1, <2>2
    <2>4. \A k \in 0..m + 1 : k = m + 1 \/ k \in 0..m
      BY <2>1
    <2>5. g \in [0..m + 1 -> Nat]
      BY <2>2, <2>3, <2>4
    <2>6. g[0] = 0
      BY <2>1, <2>2
    <2>7. ASSUME NEW k \in 1..m + 1
          PROVE  g[k] = g[k - 1] + s[k]
      <3>1. k \in 0..m + 1 /\ k - 1 \in 0..m + 1 /\ k - 1 # m + 1
        BY <2>1
      <3>2. CASE k = m + 1
        <4>1. k - 1 = m
          BY <2>1, <3>2
        <4> QED
          BY <3>1, <3>2, <4>1
      <3>3. CASE k # m + 1
        <4>1. k \in 1..m
          BY <2>1, <3>3
        <4> QED
          BY <2>2, <3>1, <3>3, <4>1
      <3> QED
        BY <3>2, <3>3
    <2> HIDE DEF g
    <2> QED
      BY <2>5, <2>6, <2>7
  <1> HIDE DEF P
  <1>3. S = Nat
    <2>1. S \in SUBSET Nat /\ 0 \in S
      BY <1>1
    <2> HIDE DEF S
    <2> QED
      BY <2>1, <1>2, Induct
  <1>4. P(n)
    BY <1>3
  <1> QED
    BY <1>4 DEF P

\* Ends is that function: no packet is before the first, and each ends its
\* size behind the one before it.
LEMMA EndsIs ==
    ASSUME NEW s \in Seq(Nat)
    PROVE  /\ Ends(s) \in [0..Len(s) -> Nat]
           /\ Ends(s)[0] = 0
           /\ \A k \in 1..Len(s) : Ends(s)[k] = Ends(s)[k - 1] + s[k]
  <1> DEFINE R(f) == f = [k \in 0..Len(s) |-> IF k = 0 THEN 0 ELSE f[k - 1] + s[k]]
  <1>1. PICK f \in [0..Len(s) -> Nat] :
            f[0] = 0 /\ \A k \in 1..Len(s) : f[k] = f[k - 1] + s[k]
    BY SumsExist
  <1>2. \A k \in 0..Len(s) : k = 0 \/ k \in 1..Len(s)
    OBVIOUS
  <1>3. R(f)
    BY <1>1, <1>2
  <1> DEFINE e == Ends(s)
  <1>4. e = CHOOSE g : R(g)
    BY DEF Ends
  <1>5. R(e)
    <2> HIDE DEF R, e
    <2> QED  BY <1>3, <1>4
  <1>6. e[0] = 0 /\ \A k \in 1..Len(s) : e[k] = e[k - 1] + s[k]
    <2>1. 0 \in 0..Len(s) /\ \A k \in 1..Len(s) : k \in 0..Len(s) /\ k # 0
      OBVIOUS
    <2> HIDE DEF e
    <2> QED  BY <1>5, <2>1
  <1>7. \A k \in 0..Len(s) : e[k] \in Nat
    <2> DEFINE S == {m \in Nat : m <= Len(s) => e[m] \in Nat}
    <2> HIDE DEF e
    <2>1. 0 \in S
      BY <1>6
    <2>2. ASSUME NEW m \in S PROVE m + 1 \in S
      <3> SUFFICES ASSUME m + 1 <= Len(s) PROVE e[m + 1] \in Nat
        BY <2>2
      <3>1. m \in Nat /\ m + 1 \in 1..Len(s) /\ m <= Len(s) /\ m + 1 - 1 = m
        BY <2>2
      <3>2. e[m] \in Nat /\ s[m + 1] \in Nat
        BY <2>2, <3>1
      <3> QED
        BY <1>6, <3>1, <3>2
    <2>3. S \in SUBSET Nat
      OBVIOUS
    <2>4. S = Nat
      <3> HIDE DEF S
      <3> QED  BY <2>1, <2>2, <2>3, Induct
    <2> QED
      BY <2>4
  <1>8. e \in [0..Len(s) -> Nat]
    <2> HIDE DEF e
    <2>1. e = [k \in 0..Len(s) |-> e[k]]
      BY <1>5
    <2> QED
      BY <1>7, <2>1
  <1> QED
    BY <1>6, <1>8

\* Packets that are sent later do not move the ends of the first.
LEMMA EndsPrefix ==
    ASSUME NEW s \in Seq(Nat), NEW t \in Seq(Nat), Len(s) <= Len(t),
           \A k \in 1..Len(s) : s[k] = t[k]
    PROVE  \A k \in 0..Len(s) : Ends(s)[k] = Ends(t)[k]
  <1> DEFINE S == {m \in Nat : m <= Len(s) => Ends(s)[m] = Ends(t)[m]}
  <1>1. 0 \in S
    BY EndsIs
  <1>2. ASSUME NEW m \in S PROVE m + 1 \in S
    <2> SUFFICES ASSUME m + 1 <= Len(s) PROVE Ends(s)[m + 1] = Ends(t)[m + 1]
      BY <1>2
    <2>1. /\ m \in Nat /\ m + 1 \in 1..Len(s) /\ m + 1 \in 1..Len(t)
          /\ m <= Len(s) /\ m + 1 - 1 = m
      BY <1>2
    <2>2. Ends(s)[m] = Ends(t)[m]
      BY <1>2, <2>1
    <2> QED
      BY <2>1, <2>2, EndsIs
  <1>3. S \in SUBSET Nat
    OBVIOUS
  <1>4. S = Nat
    <2> HIDE DEF S
    <2> QED  BY <1>1, <1>2, <1>3, Induct
  <1> QED
    BY <1>4

\* Packets are not empty: each ends after the one before it.
LEMMA EndsGrow ==
    ASSUME NEW s \in Seq(Nat \ {0}), NEW j \in 0..Len(s), NEW k \in 0..Len(s), j < k
    PROVE  Ends(s)[j] < Ends(s)[k]
  <1> DEFINE S == {m \in Nat : j < m /\ m <= Len(s) => Ends(s)[j] < Ends(s)[m]}
  <1>1. /\ s \in Seq(Nat) /\ Ends(s) \in [0..Len(s) -> Nat]
        /\ \A i \in 1..Len(s) : Ends(s)[i] = Ends(s)[i - 1] + s[i]
    <2>1. s \in Seq(Nat)
      OBVIOUS
    <2> QED
      BY <2>1, EndsIs
  <1>2. 0 \in S
    OBVIOUS
  <1>3. ASSUME NEW m \in S PROVE m + 1 \in S
    <2> SUFFICES ASSUME j < m + 1, m + 1 <= Len(s)
                 PROVE  Ends(s)[j] < Ends(s)[m + 1]
      BY <1>3
    <2>1. /\ m \in 0..Len(s) /\ m + 1 \in 1..Len(s) /\ m + 1 - 1 = m
          /\ j = m \/ j < m
      BY <1>3
    <2>2. /\ Ends(s)[m + 1] = Ends(s)[m] + s[m + 1]
          /\ Ends(s)[m] \in Nat /\ Ends(s)[j] \in Nat
          /\ s[m + 1] \in Nat \ {0}
      <3>1. s[m + 1] \in Nat \ {0}
        BY <2>1
      <3>2. Ends(s)[m + 1] = Ends(s)[m + 1 - 1] + s[m + 1]
        BY <1>1, <2>1
      <3>3. Ends(s)[m] \in Nat /\ Ends(s)[j] \in Nat
        BY <1>1, <2>1
      <3> QED
        BY <2>1, <3>1, <3>2, <3>3
    <2>3. j < m => Ends(s)[j] < Ends(s)[m]
      BY <1>3, <2>1
    <2> QED
      BY <2>1, <2>2, <2>3
  <1>4. S \in SUBSET Nat
    OBVIOUS
  <1>5. S = Nat
    <2> HIDE DEF S
    <2> QED  BY <1>2, <1>3, <1>4, Induct
  <1>6. k \in S
    <2> HIDE DEF S
    <2> QED  BY <1>5
  <1> QED
    BY <1>6

\* A sum grows by what is appended.
LEMMA TotalIs ==
    /\ Total(<<>>) = 0
    /\ \A s \in Seq(Nat) : Total(s) \in Nat
    /\ \A s \in Seq(Nat), n \in Nat : Total(Append(s, n)) = Total(s) + n
  <1>1. Total(<<>>) = 0
    <2>1. <<>> \in Seq(Nat) /\ Len(<<>>) = 0
      OBVIOUS
    <2> QED
      BY <2>1, EndsIs DEF Total
  <1>2. ASSUME NEW s \in Seq(Nat) PROVE Total(s) \in Nat
    <2>1. Len(s) \in 0..Len(s)
      OBVIOUS
    <2> QED
      BY <2>1, EndsIs DEF Total
  <1>3. ASSUME NEW s \in Seq(Nat), NEW n \in Nat
        PROVE  Total(Append(s, n)) = Total(s) + n
    <2> DEFINE t == Append(s, n)
    <2>1. /\ t \in Seq(Nat) /\ Len(t) = Len(s) + 1 /\ t[Len(s) + 1] = n
          /\ \A k \in 1..Len(s) : s[k] = t[k]
      OBVIOUS
    <2>2. Len(s) \in Nat /\ Len(s) <= Len(s) + 1 /\ Len(s) \in 0..Len(s)
          /\ Len(s) + 1 \in 1..Len(s) + 1 /\ Len(s) + 1 - 1 = Len(s)
      OBVIOUS
    <2> HIDE DEF t
    <2>3. Ends(s)[Len(s)] = Ends(t)[Len(s)]
      BY <2>1, <2>2, EndsPrefix
    <2>4. Ends(t)[Len(s) + 1] = Ends(t)[Len(s)] + n
      <3>1. \A k \in 1..Len(t) : Ends(t)[k] = Ends(t)[k - 1] + t[k]
        BY <2>1, EndsIs
      <3>2. Len(s) + 1 \in 1..Len(t)
        BY <2>1, <2>2
      <3>3. Ends(t)[Len(s) + 1] = Ends(t)[Len(s) + 1 - 1] + t[Len(s) + 1]
        BY <3>1, <3>2
      <3> QED
        BY <2>1, <2>2, <3>3
    <2> QED
      BY <2>1, <2>3, <2>4 DEF Total, t
  <1> QED
    BY <1>1, <1>2, <1>3

\* The sizes of packets are positive naturals.
LEMMA SizesArePositive ==
    /\ Sizes \subseteq Nat \ {0} /\ LengthField \in Nat \ {0}
    /\ \A s \in Seq(Sizes) : s \in Seq(Nat \ {0}) /\ s \in Seq(Nat)
  <1>1. Sizes \subseteq Nat \ {0} /\ LengthField \in Nat \ {0}
    BY SocketAssumption
  <1>2. ASSUME NEW s \in Seq(Sizes)
        PROVE  s \in Seq(Nat \ {0}) /\ s \in Seq(Nat)
    <2>1. Sizes \subseteq Nat
      BY <1>1
    <2> QED
      BY <1>1, <2>1, SeqMonotonic
  <1> QED
    BY <1>1, <1>2

\* At the end of the last packet received, before the end of the last sent, the
\* length field read is that of the next packet.
LEMMA NextPacket ==
    ASSUME TypeOK, PrefixInv, Total(packets) < Total(peer)
    PROVE  /\ Len(packets) < Len(peer)
           /\ SizesReadAt(Total(packets)) = {peer[Len(packets) + 1]}
  <1> DEFINE p == Len(packets)
             q == Len(peer)
  <1>1. /\ packets \in Seq(Nat) /\ peer \in Seq(Nat) /\ peer \in Seq(Nat \ {0})
        /\ p \in Nat /\ q \in Nat /\ p <= q
        /\ \A k \in 1..p : packets[k] = peer[k]
    BY SMTT(40), SizesArePositive DEF TypeOK, PrefixInv
  <1>2. Total(packets) = Ends(peer)[p] /\ Total(peer) = Ends(peer)[q]
    <2>1. p \in 0..p
      BY <1>1
    <2> QED
      BY <2>1, <1>1, EndsPrefix DEF Total
  <1>3. Ends(peer) \in [0..q -> Nat]
    BY <1>1, EndsIs
  <1> HIDE DEF p, q
  <1>4. p < q
    <2>1. p # q
      <3>1. p \in 0..q
        BY <1>1
      <3>2. Ends(peer)[p] \in Nat
        BY <1>3, <3>1
      <3> QED
        BY <1>2, <3>2
    <2> QED
      BY <1>1, <2>1
  <1>5. ASSUME NEW k \in 1..q, Ends(peer)[k - 1] = Ends(peer)[p]
        PROVE  k = p + 1
    <2>1. k - 1 \in 0..q /\ p \in 0..q /\ k \in Nat /\ k - 1 \in Nat
          /\ p \in Nat
      BY <1>1
    <2>2. Ends(peer)[k - 1] \in Nat /\ Ends(peer)[p] \in Nat
      BY <1>3, <2>1
    <2>3. ~(k - 1 < p) /\ ~(p < k - 1)
      <3>1. k - 1 < p => Ends(peer)[k - 1] < Ends(peer)[p]
        BY <1>1, <2>1, EndsGrow DEF q
      <3>2. p < k - 1 => Ends(peer)[p] < Ends(peer)[k - 1]
        BY <1>1, <2>1, EndsGrow DEF q
      <3> QED
        BY <1>5, <2>2, <3>1, <3>2
    <2> QED
      BY <2>1, <2>3
  <1>6. \E r \in 1..q : r = p + 1 /\ r - 1 = p
    BY <1>1, <1>4
  <1>7. {k \in 1..q : Ends(peer)[k - 1] = Ends(peer)[p]} = {p + 1}
    <2>1. PICK r \in 1..q : r = p + 1 /\ r - 1 = p
      BY <1>6
    <2>2. \A k \in 1..q : Ends(peer)[k - 1] = Ends(peer)[p] => k = r
      BY <1>5, <2>1
    <2>3. Ends(peer)[r - 1] = Ends(peer)[p]
      BY <2>1
    <2>4. {k \in 1..q : Ends(peer)[k - 1] = Ends(peer)[p]} = {r}
      BY <2>2, <2>3
    <2> QED
      BY <2>1, <2>4
  <1> QED
    BY SMTT(40), <1>2, <1>4, <1>7 DEF SizesReadAt, p, q

(***************************************************************************)
(* Steps of the reader.                                                    *)
(***************************************************************************)

\* However recv() returns: short of its target the socket is closed; with the
\* length field, the rest of that packet is next; with the rest, the packet is
\* the next one of the peer.
LEMMA FinishKeeps ==
    ASSUME IInv, pc \in {"wait", "read"}, NEW n \in 0..target, Finish(n),
           position' \in 0..arrived, position' = position - totalReceived + n,
           UNCHANGED <<peer, arrived, peerClosed, outVars>>
    PROVE  /\ IInv'
           /\ Channel!Receive \/ Channel!Close \/ UNCHANGED <<packets, isOpen>>
  <1>1. /\ target \in Nat /\ totalReceived \in 0..target /\ position \in Nat
        /\ arrived \in 0..Total(peer) /\ n \in Nat /\ n <= target
        /\ isOpen /\ stage \in {"length", "rest"}
        /\ packets \in Seq(Sizes) /\ peer \in Seq(Sizes)
        /\ packets \in Seq(Nat) /\ peer \in Seq(Nat)
    BY SizesArePositive DEF IInv, TypeOK, PositionInv
  <1>2. Total(packets) \in Nat /\ Total(peer) \in Nat /\ LengthField \in Nat \ {0}
    BY <1>1, TotalIs, SizesArePositive
  <1>3. CASE n < target
    <2>1. pc' = "idle" /\ isOpen' = FALSE /\ UNCHANGED <<packets, recvVars>>
      BY <1>3 DEF Finish
    <2>2. Channel!Close
      BY <2>1 DEF Channel!Close
    <2> QED
      BY <2>1, <2>2 DEF IInv, TypeOK, PrefixInv, PositionInv, SentInv, recvVars, outVars
  <1>4. CASE n = target /\ stage = "length"
    <2>1. target = LengthField /\ position = Total(packets) + totalReceived
      BY <1>4 DEF IInv, PositionInv
    <2>2. position' - n = Total(packets) /\ position' = Total(packets) + LengthField
          /\ position' \in Nat
      BY <2>1, <1>1, <1>2, <1>4
    <2>3. Total(packets) < Total(peer)
      BY <2>2, <1>1, <1>2
    <2>4. Len(packets) < Len(peer)
          /\ SizesReadAt(Total(packets)) = {peer[Len(packets) + 1]}
      BY <2>3, NextPacket DEF IInv
    <2>5. /\ StartRecv("rest", peer[Len(packets) + 1] - LengthField)
          /\ UNCHANGED <<isOpen, packets>>
      <3>1. ~(n < target)
        BY <1>1, <1>4
      <3>2. /\ \E size \in SizesReadAt(position' - n) :
                    StartRecv("rest", size - LengthField)
            /\ UNCHANGED <<isOpen, packets>>
        BY <3>1, <1>4 DEF Finish
      <3> QED
        BY <2>2, <2>4, <3>2
    <2> DEFINE size == peer[Len(packets) + 1]
    <2>6. size \in Nat /\ size >= LengthField
      <3>1. Len(packets) + 1 \in 1..Len(peer)
        BY <2>4, <1>1
      <3>2. size \in Sizes
        BY <3>1, <1>1
      <3> QED
        BY <3>2, SocketAssumption
    <2> HIDE DEF size
    <2>7. /\ pc' = "wait" /\ stage' = "rest" /\ target' = size - LengthField
          /\ totalReceived' = 0 /\ expired' = FALSE
      BY <2>5 DEF StartRecv, size
    <2>8. target' \in Nat /\ target' + LengthField = size
          /\ totalReceived' \in 0..target'
      BY <2>6, <2>7, <1>2
    <2>9. TypeOK'
      BY <2>5, <2>7, <2>8 DEF IInv, TypeOK, outVars
    <2>10. PrefixInv' /\ SentInv'
      BY <2>5, <2>7 DEF IInv, PrefixInv, SentInv, outVars, PositionInv
    <2>11. PositionInv'
      <3>1. position' = Total(packets) + LengthField + totalReceived'
        BY <2>2, <2>7, <1>2
      <3> QED
        BY <3>1, <2>4, <2>5, <2>7, <2>8, <1>1 DEF PositionInv, size
    <2> QED
      BY <2>5, <2>9, <2>10, <2>11 DEF IInv
  <1>5. CASE n = target /\ stage = "rest"
    <2>1. /\ Len(packets) < Len(peer)
          /\ target + LengthField = peer[Len(packets) + 1]
          /\ position = Total(packets) + LengthField + totalReceived
      BY <1>5 DEF IInv, PositionInv
    <2> DEFINE size == peer[Len(packets) + 1]
    <2>2. size \in Sizes /\ size \in Nat
      <3>1. Len(packets) + 1 \in 1..Len(peer)
        BY SMTT(40), <2>1, <1>1
      <3> QED
        BY <3>1, <1>1
    <2>3. /\ pc' = "idle" /\ packets' = Append(packets, size)
          /\ UNCHANGED <<isOpen, recvVars>>
      <3>1. ~(n < target)
        BY <1>1, <1>5
      <3> QED
        BY <2>1, <3>1, <1>5 DEF Finish
    <2>4. packets' \in Seq(Sizes) /\ Len(packets') = Len(packets) + 1
          /\ packets'[Len(packets) + 1] = size
          /\ \A k \in 1..Len(packets) : packets'[k] = packets[k]
      <3> HIDE DEF size
      <3> QED  BY <2>2, <2>3, <1>1, AppendProperties
    <2>5. Total(packets') = Total(packets) + size
      <3> HIDE DEF size
      <3> QED  BY <2>2, <2>3, <1>1, TotalIs
    <2>6. position' = Total(packets')
      <3> HIDE DEF size
      <3>1. target + LengthField = size
        BY <2>1 DEF size
      <3>2. position' = position - totalReceived + target
        BY <1>5
      <3>3. position = Total(packets) + LengthField + totalReceived
        BY <2>1
      <3>4. totalReceived \in Nat /\ target \in Nat /\ position \in Nat
        BY <1>1
      <3>5. position' = Total(packets) + (target + LengthField)
        BY <3>2, <3>3, <3>4, <1>2
      <3> QED
        BY <2>5, <3>1, <3>5
    <2>7. TypeOK'
      BY <2>3, <2>4 DEF IInv, TypeOK, recvVars, outVars
    <2>8. PrefixInv'
      <3>1. Len(packets) \in Nat /\ Len(peer) \in Nat
            /\ \A k \in 1..Len(packets) + 1 : k \in 1..Len(packets) \/ k = Len(packets) + 1
        BY <1>1
      <3>2. Len(packets) + 1 <= Len(peer)
        BY <3>1, <2>1
      <3> QED
        BY <2>4, <3>1, <3>2 DEF IInv, PrefixInv
    <2>9. PositionInv' /\ SentInv'
      BY <2>3, <2>6, <1>1 DEF IInv, PositionInv, SentInv, outVars
    <2>10. Channel!Receive
      BY <2>1, <2>3, <1>1 DEF Channel!Receive
    <2> QED
      BY <2>7, <2>8, <2>9, <2>10 DEF IInv
  <1>6. (n < target \/ n = target) /\ (stage = "length" \/ stage = "rest")
    BY <1>1
  <1> QED
    BY <1>3, <1>4, <1>5, <1>6

\* Every step keeps the invariant, and is one of the channel or leaves it be.
LEMMA NextKeeps ==
    ASSUME IInv, [Next]_vars
    PROVE  /\ IInv'
           /\ \/ Channel!Send \/ Channel!Receive \/ Channel!Close
              \/ UNCHANGED <<peer, packets, isOpen>>
  <1>1. /\ target \in Nat /\ totalReceived \in 0..target /\ totalReceived \in Nat
        /\ arrived \in Nat /\ position \in 0..arrived /\ position \in Nat
        /\ Total(peer) \in Nat /\ arrived <= Total(peer)
        /\ buffLen \in Nat \ {0}
        /\ peer \in Seq(Nat) /\ peer \in Seq(Sizes) /\ out \in Seq(Sizes)
        /\ written \in Nat /\ packets \in Seq(Sizes)
    <2>1. peer \in Seq(Nat) /\ Total(peer) \in Nat
      BY SizesArePositive, TotalIs DEF IInv, TypeOK
    <2> QED
      BY <2>1, SocketAssumption DEF IInv, TypeOK
  <1>2. ASSUME NEW n \in Sizes, PeerSends(n)
        PROVE  IInv' /\ Channel!Send
    <2>1. /\ peer' = Append(peer, n)
          /\ UNCHANGED <<pc, isOpen, arrived, peerClosed, position, packets,
                         stage, target, totalReceived, expired, out, written>>
      BY <1>2 DEF PeerSends, recvVars, outVars
    <2>2. n \in Nat
      BY SizesArePositive
    <2>3. /\ peer' \in Seq(Sizes) /\ Len(peer') = Len(peer) + 1
          /\ \A k \in 1..Len(peer) : peer'[k] = peer[k]
      BY <2>1, <1>1, AppendProperties
    <2>4. Total(peer') = Total(peer) + n
      BY <2>1, <2>2, <1>1, TotalIs
    <2>5. arrived \in 0..Total(peer')
      BY <2>2, <2>4, <1>1
    <2>6. Len(peer) \in Nat /\ Len(packets) \in Nat
      BY <1>1
    <2>7. TypeOK'
      BY <2>1, <2>3, <2>5 DEF IInv, TypeOK
    <2>8. PrefixInv'
      BY <2>1, <2>3, <2>6 DEF IInv, PrefixInv
    <2>9. PositionInv'
      <3>1. Len(packets) < Len(peer) =>
                /\ Len(packets) < Len(peer')
                /\ peer'[Len(packets) + 1] = peer[Len(packets) + 1]
        BY <2>3, <2>6
      <3> QED
        BY <2>1, <3>1 DEF IInv, PositionInv
    <2>10. SentInv'
      BY <2>1 DEF IInv, SentInv
    <2>11. Channel!Send
      BY <2>1 DEF Channel!Send
    <2> QED
      BY <2>7, <2>8, <2>9, <2>10, <2>11 DEF IInv
  <1>3. CASE Arrive
    <2>1. arrived' = arrived + 1 /\ arrived < Total(peer)
          /\ UNCHANGED <<pc, isOpen, peer, peerClosed, position, packets,
                         stage, target, totalReceived, expired, out, written>>
      BY <1>3 DEF Arrive, recvVars, outVars
    <2>2. arrived' \in 0..Total(peer) /\ position \in 0..arrived'
      BY <2>1, <1>1
    <2> QED
      BY <2>1, <2>2 DEF IInv, TypeOK, PrefixInv, PositionInv, SentInv
  <1>4. CASE PeerCloses
    BY <1>4 DEF PeerCloses, recvVars, outVars, IInv, TypeOK, PrefixInv,
                PositionInv, SentInv
  <1>5. CASE Expire
    BY <1>5 DEF Expire, inVars, outVars, IInv, TypeOK, PrefixInv, PositionInv,
                SentInv
  <1>6. CASE RecvPacket
    <2>1. /\ pc = "idle" /\ isOpen /\ pc' = "wait" /\ stage' = "length"
          /\ target' = LengthField /\ totalReceived' = 0 /\ expired' = FALSE
          /\ UNCHANGED <<isOpen, peer, arrived, peerClosed, position, packets,
                         out, written>>
      BY <1>6 DEF RecvPacket, StartRecv, inVars, outVars
    <2>2. target' \in Nat /\ totalReceived' \in 0..target'
      BY <2>1, SocketAssumption
    <2>3. position = Total(packets) /\ position' = Total(packets) + totalReceived'
      BY <2>1, <1>1 DEF IInv, PositionInv
    <2> QED
      BY <2>1, <2>2, <2>3 DEF IInv, TypeOK, PrefixInv, PositionInv, SentInv
  <1>7. CASE WaitReadable
    BY <1>7 DEF WaitReadable, inVars, recvVars, outVars, IInv, TypeOK, PrefixInv,
                PositionInv, SentInv
  <1>8. CASE WaitFails \/ ReadFails
    <2>1. /\ pc \in {"wait", "read"} /\ Finish(totalReceived)
          /\ UNCHANGED <<peer, arrived, peerClosed, position, outVars>>
      BY <1>8 DEF WaitFails, ReadFails
    <2>2. position' \in 0..arrived
          /\ position' = position - totalReceived + totalReceived
      BY <2>1, <1>1
    <2> QED
      BY <2>1, <2>2, <1>1, FinishKeeps
  <1>9. CASE Read
    <2> DEFINE n == Least(BuffBytes, arrived - position)
               total == totalReceived + n
    <2>1. /\ pc = "read" /\ position' = position + n
          /\ IF expired \/ total >= target
             THEN Finish(total)
             ELSE /\ pc' = "wait" /\ totalReceived' = total
                  /\ UNCHANGED <<isOpen, packets, stage, target, expired>>
          /\ UNCHANGED <<peer, arrived, peerClosed, outVars>>
      BY <1>9 DEF Read
    <2>2. n \in Nat /\ n <= target - totalReceived /\ n <= arrived - position
      BY <1>1 DEF Least, BuffBytes
    <2> HIDE DEF n
    <2>3. /\ total \in 0..target /\ position' \in 0..arrived
          /\ position' = position - totalReceived + total
      BY <2>1, <2>2, <1>1
    <2>4. CASE expired \/ total >= target
      <3>1. Finish(total)
        BY <2>1, <2>4
      <3> HIDE DEF total
      <3> QED
        BY <2>1, <2>3, <3>1, FinishKeeps
    <2>5. CASE ~(expired \/ total >= target)
      <3>1. /\ pc' = "wait" /\ totalReceived' = total
            /\ UNCHANGED <<isOpen, packets, stage, target, expired, peer, arrived,
                           peerClosed, out, written>>
        BY <2>1, <2>5 DEF outVars
      <3>2. TypeOK'
        <4> HIDE DEF total
        <4> QED  BY <2>3, <3>1 DEF IInv, TypeOK
      <3>3. PositionInv'
        <4>1. pc = "read" /\ isOpen /\ Total(packets) \in Nat
              /\ LengthField \in Nat
          BY <2>1, <1>1, SizesArePositive, TotalIs DEF IInv, PositionInv
        <4>2. stage = "length" =>
                  target = LengthField /\ position = Total(packets) + totalReceived
          BY <2>1 DEF IInv, PositionInv
        <4>3. stage = "rest" =>
                  /\ Len(packets) < Len(peer)
                  /\ target + LengthField = peer[Len(packets) + 1]
                  /\ position = Total(packets) + LengthField + totalReceived
          BY <2>1 DEF IInv, PositionInv
        <4>4. stage = "length" => position' = Total(packets) + total
          BY <2>1, <2>2, <4>1, <4>2, <1>1
        <4>5. stage = "rest" => position' = Total(packets) + LengthField + total
          BY SMTT(40), <2>1, <2>2, <4>1, <4>3, <1>1
        <4> HIDE DEF total
        <4> QED
          BY <3>1, <4>1, <4>2, <4>3, <4>4, <4>5 DEF PositionInv
      <3>4. PrefixInv' /\ SentInv'
        BY <2>1, <3>1 DEF IInv, PrefixInv, SentInv
      <3> QED
        BY <3>1, <3>2, <3>3, <3>4 DEF IInv
    <2> QED
      BY <2>4, <2>5
  <1>10. ASSUME NEW n \in Sizes, SendPacket(n)
         PROVE  IInv' /\ UNCHANGED <<peer, packets, isOpen>>
    <2>1. /\ pc = "idle" /\ isOpen /\ pc' = "write" /\ out' = Append(out, n)
          /\ written' = 0
          /\ UNCHANGED <<isOpen, peer, arrived, peerClosed, position, packets,
                         stage, target, totalReceived, expired>>
      BY <1>10 DEF SendPacket, inVars, recvVars
    <2>2. out' \in Seq(Sizes) /\ out' # <<>> /\ Last(out') = n
      <3>1. /\ out' \in Seq(Sizes) /\ Len(out') = Len(out) + 1
            /\ out'[Len(out) + 1] = n
        BY <2>1, <1>1, AppendProperties
      <3>2. out' # <<>>
        BY <2>1, <1>1
      <3> QED
        BY <3>1, <3>2 DEF Last
    <2>3. written' < n /\ written' \in Nat
      BY <2>1, SizesArePositive
    <2> QED
      BY <2>1, <2>2, <2>3 DEF IInv, TypeOK, PrefixInv, PositionInv, SentInv
  <1>11. CASE Write
    <2>1. Last(out) \in Nat
      <3>1. out # <<>> /\ Len(out) \in 1..Len(out)
        BY <1>1, <1>11 DEF Write, IInv, SentInv
      <3> QED
        BY <3>1, <1>1, SizesArePositive DEF Last
    <2> DEFINE b == Least(buffLen - (written % buffLen), Last(out) - written)
    <2>2. PICK n \in 1..b :
              /\ written' = written + n
              /\ pc' = IF written + n = Last(out) THEN "idle" ELSE "write"
      BY <1>11 DEF Write
    <2>3. /\ pc = "write" /\ isOpen /\ written < Last(out) /\ out # <<>>
          /\ UNCHANGED <<isOpen, peer, arrived, peerClosed, position, packets,
                         stage, target, totalReceived, expired, out>>
      BY <1>11 DEF Write, inVars, recvVars, IInv, PositionInv, SentInv
    <2>4. b <= Last(out) - written /\ b \in Int
      BY <2>1, <1>1 DEF Least
    <2> HIDE DEF b
    <2>5. /\ written' \in Nat /\ written' <= Last(out)
          /\ pc' = "idle" => written' = Last(out)
          /\ pc' = "write" => written' < Last(out)
          /\ pc' = "idle" \/ pc' = "write"
      <3>1. n \in Nat /\ n <= Last(out) - written
        BY <2>1, <2>4, <1>1
      <3>2. written + n \in Nat /\ written + n <= Last(out)
        BY <3>1, <2>1, <1>1
      <3>3. written + n # Last(out) => written + n < Last(out)
        BY <3>2, <2>1
      <3> QED
        BY <3>2, <3>3, <2>2
    <2> QED
      BY <2>3, <2>5 DEF IInv, TypeOK, PrefixInv, PositionInv, SentInv
  <1>12. CASE WriteFails
    BY <1>12 DEF WriteFails, inVars, recvVars, outVars, IInv, TypeOK, PrefixInv,
                 PositionInv, SentInv, Channel!Close
  <1>13. CASE UNCHANGED vars
    BY <1>13 DEF vars, inVars, recvVars, outVars, IInv, TypeOK, PrefixInv,
                 PositionInv, SentInv
  <1> QED
    BY <1>2, <1>3, <1>4, <1>5, <1>6, <1>7, <1>8, <1>9, <1>10, <1>11, <1>12, <1>13
       DEF Next, RecvStep, SendStep, PeerStep, PeerCloses, Arrive, Expire,
           RecvPacket, WaitReadable, Write, vars, inVars, outVars, recvVars

(***************************************************************************)
(* The theorems.                                                           *)
(***************************************************************************)

\* Nothing is sent, received or read at first.
LEMMA InitIInv ==
    ASSUME Init
    PROVE  IInv
  <1>1. Total(<<>>) = 0 /\ <<>> \in Seq(Sizes) /\ Len(<<>>) = 0
    BY TotalIs
  <1>2. TypeOK
    <2>1. Total(peer) = 0
      BY <1>1 DEF Init
    <2>2. arrived \in 0..Total(peer) /\ position \in 0..arrived
          /\ target \in Nat /\ totalReceived \in 0..target
      BY <2>1 DEF Init
    <2>3. peer \in Seq(Sizes) /\ packets \in Seq(Sizes) /\ out \in Seq(Sizes)
      BY <1>1 DEF Init
    <2> QED
      BY <2>2, <2>3 DEF Init, TypeOK
  <1>3. PrefixInv /\ PositionInv /\ SentInv
    BY <1>1 DEF Init, PrefixInv, PositionInv, SentInv
  <1> QED
    BY <1>2, <1>3 DEF IInv

\* The invariant of the socket, for packets of any sizes and any block buffer:
\* types, what was received is a prefix of what was sent, where the reader
\* stands in the stream, and how much of the last packet was written.
THEOREM Invariance == Spec => []IInv
  <1>1. Init => IInv
    BY InitIInv
  <1>2. IInv /\ [Next]_vars => IInv'
    BY NextKeeps
  <1> QED
    BY <1>1, <1>2, PTL DEF Spec

\* No more is ever read than has arrived, nor asked for than the packet has.
THEOREM TypeCorrect == Spec => []TypeOK
  <1>1. IInv => TypeOK
    BY DEF IInv
  <1> QED
    BY <1>1, Invariance, PTL

\* recvAttempt leaves an open socket at the boundary of a packet, whatever the
\* pieces the bytes came in and whatever timed out.
THEOREM StaysInStep == Spec => []InStep
  <1>1. IInv => InStep
    BY DEF IInv, PositionInv, InStep
  <1> QED
    BY <1>1, Invariance, PTL

\* TCPPacket over recvAttempt is the channel protocols rely on: the packets of
\* the peer, whole and in order, and none after a receive that fell short.
THEOREM KeepsChannel == Spec => ImplementsChannel
  <1>1. Init => Channel!Init
    BY DEF Init, Channel!Init
  <1>2. IInv /\ [Next]_vars =>
            [Channel!Send \/ Channel!Receive \/ Channel!Close]_<<peer, packets, isOpen>>
    BY NextKeeps
  <1> QED
    BY <1>1, <1>2, Invariance, PTL DEF Spec, ImplementsChannel, Channel!Spec

\* A packet that was not sent whole is the last: the socket is closed before
\* another could follow its start.
THEOREM PartialSendIsLast == Spec => NothingAfterAPartialSend
  <1>1. IInv /\ [Next]_vars =>
            [Len(out') > Len(out) /\ out # <<>> => written = Last(out)]_vars
    <2> SUFFICES ASSUME IInv, Next, Len(out') > Len(out), out # <<>>
                 PROVE  written = Last(out)
      OBVIOUS
    <2>1. Len(out) \in Nat
      BY DEF IInv, TypeOK
    <2>2. out' # out
      BY <2>1
    <2>3. PICK n \in Sizes : SendPacket(n)
      <3>1. CASE WaitFails \/ ReadFails \/ Read \/ WaitReadable \/ WriteFails
        BY <2>2, <3>1
           DEF WaitFails, ReadFails, Read, WaitReadable, WriteFails, outVars
      <3>2. CASE Write \/ Arrive \/ PeerCloses \/ Expire \/ RecvPacket
        BY <2>2, <3>2
           DEF Write, Arrive, PeerCloses, Expire, RecvPacket, outVars
      <3>3. CASE \E n \in Sizes : PeerSends(n)
        BY <2>2, <3>3 DEF PeerSends, outVars
      <3> QED
        BY <3>1, <3>2, <3>3 DEF Next, RecvStep, SendStep, PeerStep
    <2>4. pc = "idle" /\ isOpen
      BY <2>3 DEF SendPacket
    <2> QED
      BY <2>4 DEF IInv, SentInv
  <1> QED
    BY <1>1, Invariance, PTL DEF Spec, NothingAfterAPartialSend
=============================================================================
