------------------------- MODULE CameraWrapper_proofs -------------------------
(***************************************************************************)
(* CameraWrapper: no event of the real camera is lost, repeated or         *)
(* overtaken on its way through the two queues, and no call fails in       *)
(* silence, however many events are pushed and whatever the event thread   *)
(* of the camera does meanwhile.                                           *)
(***************************************************************************)
EXTENDS CameraWrapper, SequenceTheorems, WellFoundedInduction, TLAPS

USE DEF cameraVars

(***************************************************************************)
(* Induction on the naturals, for sets.                                    *)
(***************************************************************************)

\* A set of naturals that is not empty has a least element.
LEMMA SmallestOf ==
    ASSUME NEW S \in SUBSET Nat, S # {}
    PROVE  \E x \in S : \A y \in S : x <= y
  <1>1. \E x \in S : \A y \in S : <<y, x>> \notin OpToRel(<, Nat)
    BY NatLessThanWellFounded, WFMin, Zenon
  <1>2. PICK x \in S : \A y \in S : <<y, x>> \notin OpToRel(<, Nat)
    BY <1>1
  <1>3. \A y \in S : ~(y < x) /\ y \in Nat /\ x \in Nat
    BY <1>2 DEF OpToRel
  <1>4. \A y \in S : x <= y
    BY <1>3
  <1> QED
    BY <1>4

\* A set that holds 0 and with every natural the next holds them all.
LEMMA Induct ==
    ASSUME NEW S \in SUBSET Nat, 0 \in S, \A n \in S : n + 1 \in S
    PROVE  S = Nat
  <1> SUFFICES ASSUME Nat \ S # {} PROVE FALSE
    OBVIOUS
  <1>1. PICK m \in Nat \ S : \A y \in Nat \ S : m <= y
    BY SmallestOf
  <1>2. m - 1 \in S
    BY <1>1
  <1> QED
    BY <1>1, <1>2

(***************************************************************************)
(* The events of a set, in their order.                                    *)
(***************************************************************************)

\* f picks the events of K out of the first n of s.
PicksUpTo(f, s, K, n) ==
    /\ f \in [0..n -> Seq(Event)]
    /\ f[0] = <<>>
    /\ \A k \in 1..n :
           f[k] = IF s[k] \in K THEN Append(f[k - 1], s[k]) ELSE f[k - 1]

\* There is such a function, for any number of events.
LEMMA PicksExist ==
    ASSUME NEW s \in Seq(Event), NEW K, NEW n \in 0..Len(s)
    PROVE  \E f : PicksUpTo(f, s, K, n)
  <1> DEFINE G(x, k) == IF s[k] \in K THEN Append(x, s[k]) ELSE x
             P(m) == \E f \in [0..m -> Seq(Event)] :
                         f[0] = <<>> /\ \A k \in 1..m : f[k] = G(f[k - 1], k)
             S == {m \in Nat : m <= Len(s) => P(m)}
  <1>1. \A x \in Seq(Event), k \in 1..Len(s) : G(x, k) \in Seq(Event)
    OBVIOUS
  <1> HIDE DEF G
  <1>2. P(0)
    <2> DEFINE f == [k \in 0..0 |-> <<>>]
    <2>1. f \in [0..0 -> Seq(Event)] /\ f[0] = <<>> /\ \A k \in 1..0 : f[k] = G(f[k - 1], k)
      OBVIOUS
    <2> QED
      BY <2>1
  <1>3. ASSUME NEW m \in S PROVE m + 1 \in S
    <2> SUFFICES ASSUME m + 1 <= Len(s) PROVE P(m + 1)
      <3> HIDE DEF P
      <3> QED  BY <1>3
    <2>1. m \in Nat /\ m <= Len(s) /\ m + 1 \in 1..Len(s) /\ Len(s) \in Nat
      BY <1>3
    <2>2. PICK f \in [0..m -> Seq(Event)] :
              f[0] = <<>> /\ \A k \in 1..m : f[k] = G(f[k - 1], k)
      BY <1>3, <2>1
    <2> DEFINE g == [k \in 0..m + 1 |-> IF k = m + 1 THEN G(f[m], k) ELSE f[k]]
    <2>3. f[m] \in Seq(Event) /\ G(f[m], m + 1) \in Seq(Event)
      BY <1>1, <2>1, <2>2
    <2>4. \A k \in 0..m + 1 : k = m + 1 \/ k \in 0..m
      BY <2>1
    <2>5. g \in [0..m + 1 -> Seq(Event)]
      BY <2>2, <2>3, <2>4
    <2>6. g[0] = <<>>
      BY <2>1, <2>2
    <2>7. ASSUME NEW k \in 1..m + 1
          PROVE  g[k] = G(g[k - 1], k)
      <3>1. k \in 0..m + 1 /\ k - 1 \in 0..m + 1 /\ k - 1 # m + 1
        BY <2>1
      <3>2. CASE k = m + 1
        <4>1. k - 1 = m
          BY <2>1, <3>2
        <4> QED
          BY <3>1, <3>2, <4>1
      <3>3. CASE k # m + 1
        <4>1. k \in 1..m
          BY <2>1, <3>3
        <4> QED
          BY <2>2, <3>1, <3>3, <4>1
      <3> QED
        BY <3>2, <3>3
    <2> HIDE DEF g
    <2> QED
      BY <2>5, <2>6, <2>7
  <1> HIDE DEF P
  <1>4. S = Nat
    <2>1. S \in SUBSET Nat /\ 0 \in S
      BY <1>2
    <2> HIDE DEF S
    <2> QED
      BY <2>1, <1>3, Induct
  <1>5. P(n)
    BY <1>4
  <1> QED
    BY <1>5 DEF P, G, PicksUpTo

\* Picks is that function.
LEMMA PicksIs ==
    ASSUME NEW s \in Seq(Event), NEW K
    PROVE  PicksUpTo(Picks(s, K), s, K, Len(s))
  <1> DEFINE R(f) == f = [k \in 0..Len(s) |->
                             IF k = 0 THEN <<>>
                             ELSE IF s[k] \in K THEN Append(f[k - 1], s[k]) ELSE f[k - 1]]
  <1>1. PICK f : PicksUpTo(f, s, K, Len(s))
    <2>1. Len(s) \in 0..Len(s)
      OBVIOUS
    <2> QED
      BY <2>1, PicksExist
  <1>2. \A k \in 0..Len(s) : k = 0 \/ k \in 1..Len(s)
    OBVIOUS
  <1>3. R(f)
    BY <1>1, <1>2 DEF PicksUpTo
  <1> DEFINE p == Picks(s, K)
  <1>4. p = CHOOSE g : R(g)
    BY DEF Picks
  <1>5. R(p)
    <2> HIDE DEF R, p
    <2> QED  BY <1>3, <1>4
  <1>6. /\ p[0] = <<>>
        /\ \A k \in 1..Len(s) :
               p[k] = IF s[k] \in K THEN Append(p[k - 1], s[k]) ELSE p[k - 1]
    <2>1. 0 \in 0..Len(s) /\ \A k \in 1..Len(s) : k \in 0..Len(s) /\ k # 0
      OBVIOUS
    <2> HIDE DEF p
    <2> QED  BY <1>5, <2>1
  <1>7. \A k \in 0..Len(s) : p[k] \in Seq(Event)
    <2> DEFINE S == {m \in Nat : m <= Len(s) => p[m] \in Seq(Event)}
    <2> HIDE DEF p
    <2>1. 0 \in S
      <3>1. <<>> \in Seq(Event)
        BY EmptySeq
      <3> QED
        BY <1>6, <3>1
    <2>2. ASSUME NEW m \in S PROVE m + 1 \in S
      <3> SUFFICES ASSUME m + 1 <= Len(s) PROVE p[m + 1] \in Seq(Event)
        BY <2>2
      <3>1. m \in Nat /\ m + 1 \in 1..Len(s) /\ m <= Len(s) /\ m + 1 - 1 = m
        BY <2>2
      <3>2. p[m] \in Seq(Event) /\ s[m + 1] \in Event
        BY <2>2, <3>1
      <3>3. p[m + 1] = IF s[m + 1] \in K THEN Append(p[m], s[m + 1]) ELSE p[m]
        BY <1>6, <3>1
      <3> QED
        BY <3>2, <3>3
    <2>3. S \in SUBSET Nat
      OBVIOUS
    <2>4. S = Nat
      <3> HIDE DEF S
      <3> QED  BY <2>1, <2>2, <2>3, Induct
    <2> QED
      BY <2>4
  <1>8. p \in [0..Len(s) -> Seq(Event)]
    <2> HIDE DEF p
    <2>1. p = [k \in 0..Len(s) |-> p[k]]
      BY <1>5
    <2> QED
      BY <1>7, <2>1
  <1> HIDE DEF p
  <1>9. PicksUpTo(p, s, K, Len(s))
    BY <1>6, <1>8 DEF PicksUpTo
  <1> QED
    BY <1>9 DEF p

\* What is picked out of the first events of a sequence does not depend on
\* the later ones.
LEMMA PicksPrefix ==
    ASSUME NEW s \in Seq(Event), NEW t \in Seq(Event), NEW K, Len(s) <= Len(t),
           \A k \in 1..Len(s) : s[k] = t[k]
    PROVE  \A k \in 0..Len(s) : Picks(s, K)[k] = Picks(t, K)[k]
  <1> DEFINE S == {m \in Nat : m <= Len(s) => Picks(s, K)[m] = Picks(t, K)[m]}
  <1>1. 0 \in S
    BY PicksIs DEF PicksUpTo
  <1>2. ASSUME NEW m \in S PROVE m + 1 \in S
    <2> SUFFICES ASSUME m + 1 <= Len(s) PROVE Picks(s, K)[m + 1] = Picks(t, K)[m + 1]
      BY <1>2
    <2>1. /\ m \in Nat /\ m + 1 \in 1..Len(s) /\ m + 1 \in 1..Len(t)
          /\ m <= Len(s) /\ m + 1 - 1 = m
      BY <1>2
    <2>2. Picks(s, K)[m] = Picks(t, K)[m]
      BY <1>2, <2>1
    <2> QED
      BY SMTT(40), <2>1, <2>2, PicksIs DEF PicksUpTo
  <1>3. S \in SUBSET Nat
    OBVIOUS
  <1>4. S = Nat
    <2> HIDE DEF S
    <2> QED  BY <1>1, <1>2, <1>3, Induct
  <1> QED
    BY <1>4

\* An event that is appended is picked last, or not at all.
LEMMA OnlyIs ==
    ASSUME NEW K
    PROVE  /\ Only(<<>>, K) = <<>>
           /\ \A s \in Seq(Event) : Only(s, K) \in Seq(Event)
           /\ \A s \in Seq(Event), e \in Event :
                  Only(Append(s, e), K) =
                      IF e \in K THEN Append(Only(s, K), e) ELSE Only(s, K)
  <1>1. Only(<<>>, K) = <<>>
    <2> DEFINE none == <<>>
    <2>1. none \in Seq(Event) /\ Len(none) = 0
      BY EmptySeq
    <2> HIDE DEF none
    <2>2. Only(none, K) = <<>>
      BY <2>1, PicksIs DEF Only, PicksUpTo
    <2> QED
      BY <2>2 DEF none
  <1>2. ASSUME NEW s \in Seq(Event) PROVE Only(s, K) \in Seq(Event)
    <2>1. Len(s) \in 0..Len(s)
      OBVIOUS
    <2> QED
      BY <2>1, PicksIs DEF Only, PicksUpTo
  <1>3. ASSUME NEW s \in Seq(Event), NEW e \in Event
        PROVE  Only(Append(s, e), K) =
                   IF e \in K THEN Append(Only(s, K), e) ELSE Only(s, K)
    <2> DEFINE t == Append(s, e)
    <2>1. /\ t \in Seq(Event) /\ Len(t) = Len(s) + 1 /\ t[Len(s) + 1] = e
          /\ \A k \in 1..Len(s) : s[k] = t[k]
      OBVIOUS
    <2>2. Len(s) \in Nat /\ Len(s) <= Len(s) + 1 /\ Len(s) \in 0..Len(s)
          /\ Len(s) + 1 \in 1..Len(s) + 1 /\ Len(s) + 1 - 1 = Len(s)
      OBVIOUS
    <2> HIDE DEF t
    <2>3. Picks(s, K)[Len(s)] = Picks(t, K)[Len(s)]
      BY <2>1, <2>2, PicksPrefix
    <2>4. Picks(t, K)[Len(s) + 1] = IF e \in K THEN Append(Picks(t, K)[Len(s)], e)
                                    ELSE Picks(t, K)[Len(s)]
      BY <2>1, <2>2, PicksIs DEF PicksUpTo
    <2>5. Only(t, K) = IF e \in K THEN Append(Only(s, K), e) ELSE Only(s, K)
      BY <2>1, <2>3, <2>4 DEF Only
    <2> QED
      BY <2>5 DEF t
  <1> QED
    BY <1>1, <1>2, <1>3

\* What is picked out of two sequences in a row.
LEMMA OnlyConcat ==
    ASSUME NEW K, NEW s \in Seq(Event), NEW t \in Seq(Event)
    PROVE  Only(s \o t, K) = Only(s, K) \o Only(t, K)
  <1> DEFINE P(u) == Only(s \o u, K) = Only(s, K) \o Only(u, K)
             S == {n \in Nat : \A u \in Seq(Event) : Len(u) = n => P(u)}
  <1>1. P(<<>>)
    <2>1. Only(s, K) \in Seq(Event) /\ s \o <<>> = s
      BY OnlyIs, ConcatEmptySeq
    <2> QED
      BY <2>1, OnlyIs, ConcatEmptySeq
  <1>2. ASSUME NEW u \in Seq(Event), NEW e \in Event, P(u) PROVE P(Append(u, e))
    <2>1. s \o Append(u, e) = Append(s \o u, e) /\ s \o u \in Seq(Event)
      <3>1. Append(u, e) = u \o <<e>> /\ <<e>> \in Seq(Event)
        BY AppendIsConcat
      <3>2. s \o u \in Seq(Event) /\ Append(s \o u, e) = (s \o u) \o <<e>>
        BY AppendIsConcat, ConcatProperties
      <3> QED
        BY <3>1, <3>2, ConcatAssociative
    <2> DEFINE a == Only(s, K)
               b == Only(u, K)
    <2>2. a \in Seq(Event) /\ b \in Seq(Event)
      BY OnlyIs
    <2>3. Only(s \o u, K) = a \o b
      BY <1>2
    <2>4. Only(Append(u, e), K) = IF e \in K THEN Append(b, e) ELSE b
      BY OnlyIs
    <2>5. Only(s \o Append(u, e), K) = IF e \in K THEN Append(a \o b, e) ELSE a \o b
      <3>1. Only(Append(s \o u, e), K) =
                IF e \in K THEN Append(Only(s \o u, K), e) ELSE Only(s \o u, K)
        BY <2>1, OnlyIs
      <3> QED
        BY <2>1, <2>3, <3>1
    <2> HIDE DEF a, b
    <2>6. a \o Append(b, e) = Append(a \o b, e)
      <3>1. Append(b, e) = b \o <<e>> /\ <<e>> \in Seq(Event)
        BY <2>2, AppendIsConcat
      <3>2. a \o b \in Seq(Event) /\ Append(a \o b, e) = (a \o b) \o <<e>>
        BY <2>2, AppendIsConcat, ConcatProperties
      <3> QED
        BY SMTT(40), <2>2, <3>1, <3>2, ConcatAssociative
    <2>7. Only(s \o Append(u, e), K) = a \o Only(Append(u, e), K)
      BY <2>4, <2>5, <2>6
    <2> QED
      BY <2>7 DEF a
  <1> HIDE DEF P
  <1>3. 0 \in S
    <2>1. \A u \in Seq(Event) : Len(u) = 0 => u = <<>>
      BY EmptySeq
    <2> QED
      BY <1>1, <2>1
  <1>4. ASSUME NEW n \in S PROVE n + 1 \in S
    <2> SUFFICES ASSUME NEW u \in Seq(Event), Len(u) = n + 1 PROVE P(u)
      BY <1>4
    <2>1. u # <<>> /\ n \in Nat
      BY <1>4
    <2>2. PICK v \in Seq(Event), e \in Event : u = Append(v, e)
      BY <2>1, SequenceEmptyOrAppend
    <2>3. Len(v) = n
      BY <2>1, <2>2
    <2> QED
      BY <1>2, <1>4, <2>2, <2>3
  <1>5. S = Nat
    <2>1. S \in SUBSET Nat
      OBVIOUS
    <2> HIDE DEF S
    <2> QED  BY <1>3, <1>4, <2>1, Induct
  <1>6. Len(t) \in S
    <2> HIDE DEF S
    <2> QED  BY <1>5
  <1> QED
    BY <1>6 DEF P

(***************************************************************************)
(* The two queues.                                                         *)
(***************************************************************************)

\* What the real camera pushes, as the application gets it.
LEMMA FromCameraIs ==
    ASSUME NEW c \in Seq(Camera!Notes \cup {"Connect"})
    PROVE  /\ AllFromCamera(c) \in Seq(Event) /\ Len(AllFromCamera(c)) = Len(c)
           /\ \A i \in 1..Len(c) :
                  FromCamera(c[i]) \in Event /\ AllFromCamera(c)[i] = FromCamera(c[i])
  <1> DEFINE n == Len(c)
  <1>1. /\ n \in Nat /\ DOMAIN c = 1..n
        /\ \A i \in 1..n : FromCamera(c[i]) \in Event
    BY DEF FromCamera, Event, Camera!Notes
  <1> HIDE DEF n
  <1>2. AllFromCamera(c) = [i \in 1..n |-> FromCamera(c[i])]
    BY <1>1 DEF AllFromCamera
  <1>3. AllFromCamera(c) \in Seq(Event) /\ Len(AllFromCamera(c)) = n
        /\ \A i \in 1..n : AllFromCamera(c)[i] = FromCamera(c[i])
    BY <1>1, <1>2
  <1> QED
    BY <1>1, <1>3 DEF n

\* What has been moved, what waits with the camera and all that is delivered
\* are sequences of events.
LEMMA QueuesAre ==
    ASSUME TypeOK
    PROVE  Moved \in Seq(Event) /\ Waiting \in Seq(Event) /\ Delivery \in Seq(Event)
  <1>1. Moved \in Seq(Event)
    BY ConcatProperties DEF TypeOK, Moved
  <1>2. Waiting \in Seq(Event)
    BY FromCameraIs DEF TypeOK, Waiting
  <1> QED
    BY <1>1, <1>2, ConcatProperties DEF Delivery

\* The wrapper's own event comes behind what has been moved.  It stays in
\* order among those of K when it is none of them, or nothing waits with the
\* camera.
LEMMA OwnPushInOrder ==
    ASSUME TypeOK, NEW K, NEW type, FromWrapper(type) \in Event,
           PushOwn(type), UNCHANGED <<cameraEvents, seen>>,
           InOrder(K), FromWrapper(type) \notin K \/ cameraEvents = <<>>
    PROVE  InOrder(K)'
  <1> DEFINE e == FromWrapper(type)
             m == Moved
             w == Waiting
             p == pushed
  <1>1. p \in Seq(Event) /\ m \in Seq(Event) /\ w \in Seq(Event) /\ e \in Event
    BY QueuesAre DEF TypeOK
  <1>2. pushed' = Append(p, e) /\ Waiting' = w
    BY DEF PushOwn, Waiting
  <1>3. Moved' = Append(m, e)
    <2>1. seen \in Seq(Event) /\ events \in Seq(Event) /\ <<e>> \in Seq(Event)
      BY <1>1 DEF TypeOK
    <2>2. Moved' = seen \o Append(events, e)
      BY DEF PushOwn, Moved
    <2>3. Append(events, e) = events \o <<e>> /\ Append(m, e) = m \o <<e>>
      BY <1>1, <2>1, AppendIsConcat
    <2> HIDE DEF e
    <2> QED
      BY <2>1, <2>2, <2>3, ConcatAssociative DEF Moved
  <1>4. Only(p, K) = Only(m \o w, K)
    BY DEF InOrder, Delivery
  <1>5. (w = <<>>) \/ e \notin K
    <2>1. ASSUME cameraEvents = <<>> PROVE w = <<>>
      <3>1. Len(w) = 0
        BY <2>1, FromCameraIs DEF TypeOK, Waiting
      <3> QED
        BY <1>1, <3>1, EmptySeq
    <2> QED
      BY <2>1
  <1> HIDE DEF e, m, w, p
  <1>6. Only(Append(p, e), K) = Only(Append(m, e) \o w, K)
    <2>1. Append(m, e) \in Seq(Event) /\ m \o w \in Seq(Event)
      BY <1>1, ConcatProperties
    <2>2. CASE w = <<>>
      <3>1. Append(m, e) \o w = Append(m, e) /\ m \o w = m
        BY <1>1, <2>1, <2>2, ConcatEmptySeq
      <3>2. /\ Only(Append(p, e), K) = IF e \in K THEN Append(Only(p, K), e)
                                         ELSE Only(p, K)
            /\ Only(Append(m, e), K) = IF e \in K THEN Append(Only(m, K), e)
                                         ELSE Only(m, K)
        BY <1>1, OnlyIs
      <3>3. Only(p, K) = Only(m, K)
        BY <1>4, <3>1, Zenon
      <3>4. Only(Append(p, e), K) = Only(Append(m, e), K)
        BY <3>2, <3>3
      <3> QED
        BY <3>1, <3>4, Zenon
    <2>3. CASE e \notin K
      <3>1. Only(Append(m, e), K) = Only(m, K) /\ Only(Append(p, e), K) = Only(p, K)
        BY <1>1, <2>3, OnlyIs
      <3>2. /\ Only(m \o w, K) = Only(m, K) \o Only(w, K)
            /\ Only(Append(m, e) \o w, K) = Only(Append(m, e), K) \o Only(w, K)
        BY <1>1, <2>1, OnlyConcat
      <3> QED
        BY <1>4, <3>1, <3>2
    <2> QED
      BY <1>5, <2>2, <2>3
  <1> QED
    BY <1>2, <1>3, <1>6 DEF InOrder, Delivery, m, w, p, e

\* An event of the camera comes behind all others.
LEMMA CameraPushInOrder ==
    ASSUME TypeOK, NEW K, NEW x, FromCamera(x) \in Event,
           x \in Camera!Notes \cup {"Connect"},
           cameraEvents' = Append(cameraEvents, x),
           pushed' = Append(pushed, FromCamera(x)),
           UNCHANGED <<events, seen>>, InOrder(K)
    PROVE  InOrder(K)'
  <1> DEFINE e == FromCamera(x)
             m == Moved
             w == Waiting
             p == pushed
  <1>1. p \in Seq(Event) /\ m \in Seq(Event) /\ w \in Seq(Event) /\ e \in Event
    BY QueuesAre DEF TypeOK
  <1>2. Waiting' = Append(w, e)
    <2> DEFINE S == Camera!Notes \cup {"Connect"}
               c == cameraEvents
               n == Len(c)
    <2>1. c \in Seq(S) /\ n \in Nat
      BY DEF TypeOK
    <2>2. /\ Len(Append(c, x)) = n + 1 /\ Append(c, x)[n + 1] = x
          /\ \A i \in 1..n : Append(c, x)[i] = c[i]
      BY <2>1, AppendProperties
    <2>3. /\ Waiting' \in Seq(Event) /\ Len(Waiting') = n + 1
          /\ \A i \in 1..n + 1 : Waiting'[i] = FromCamera(Append(c, x)[i])
      <3>1. Append(c, x) \in Seq(S) /\ Waiting' = AllFromCamera(Append(c, x))
        BY <2>1, AppendProperties DEF Waiting
      <3> QED
        BY <2>2, <3>1, FromCameraIs
    <2>4. Len(w) = n /\ \A i \in 1..n : w[i] = FromCamera(c[i])
      BY <2>1, FromCameraIs DEF Waiting
    <2> HIDE DEF n, w, e, S, c
    <2>5. /\ Append(w, e) \in Seq(Event) /\ Len(Append(w, e)) = n + 1
          /\ Append(w, e)[n + 1] = e /\ \A i \in 1..n : Append(w, e)[i] = w[i]
      BY <1>1, <2>4, AppendProperties
    <2>6. \A i \in 1..n + 1 : i \in 1..n \/ i = n + 1
      BY <2>1
    <2>7. \A i \in 1..n + 1 : Waiting'[i] = Append(w, e)[i]
      BY <2>2, <2>3, <2>4, <2>5, <2>6 DEF e
    <2> QED
      BY <2>3, <2>5, <2>7, SeqEqual
  <1>3. Moved' = m
    BY DEF Moved
  <1>4. Only(p, K) = Only(m \o w, K)
    BY DEF InOrder, Delivery
  <1> HIDE DEF e, m, w, p
  <1>5. m \o Append(w, e) = Append(m \o w, e) /\ m \o w \in Seq(Event)
    <2>1. Append(w, e) = w \o <<e>> /\ <<e>> \in Seq(Event)
      BY <1>1, AppendIsConcat
    <2>2. m \o w \in Seq(Event) /\ Append(m \o w, e) = (m \o w) \o <<e>>
      BY <1>1, AppendIsConcat, ConcatProperties
    <2> QED
      BY <1>1, <2>1, <2>2, ConcatAssociative
  <1>6. Only(Append(p, e), K) = Only(m \o Append(w, e), K)
    <2>1. /\ Only(Append(p, e), K) = IF e \in K THEN Append(Only(p, K), e)
                                       ELSE Only(p, K)
          /\ Only(Append(m \o w, e), K) = IF e \in K THEN Append(Only(m \o w, K), e)
                                            ELSE Only(m \o w, K)
      BY <1>1, <1>5, OnlyIs
    <2> QED
      BY <1>4, <1>5, <2>1
  <1> QED
    BY <1>2, <1>3, <1>6 DEF InOrder, Delivery, m, w, p, e

\* Events that only move, keep their place.
LEMMA MoveInOrder ==
    ASSUME NEW K, InOrder(K), UNCHANGED pushed, Delivery' = Delivery
    PROVE  InOrder(K)'
  BY DEF InOrder

\* A step that touches no queue.
LEMMA StillInOrder ==
    ASSUME NEW K, InOrder(K), UNCHANGED <<pushed, events, seen, cameraEvents>>
    PROVE  InOrder(K)'
  BY DEF InOrder, Delivery, Moved, Waiting

\* getNewEvents() moves the head of one queue to the end of the other.
LEMMA DrainMoves ==
    ASSUME TypeOK, Drain
    PROVE  Delivery' = Delivery
  <1> DEFINE e == FromCamera(Head(cameraEvents))
             m == Moved
             w == Waiting
             u == Waiting'
             c == cameraEvents
             S == Camera!Notes \cup {"Connect"}
  <1>1. /\ c \in Seq(S) /\ c # <<>> /\ cameraEvents' = Tail(c) /\ Tail(c) \in Seq(S)
    BY DEF TypeOK, Drain, Camera!Pop
  <1>2. /\ m \in Seq(Event) /\ w \in Seq(Event) /\ u \in Seq(Event)
        /\ Len(w) = Len(c) /\ Len(u) = Len(Tail(c))
        /\ \A i \in 1..Len(c) : w[i] = FromCamera(c[i])
        /\ \A i \in 1..Len(Tail(c)) : u[i] = FromCamera(Tail(c)[i])
    BY <1>1, QueuesAre, FromCameraIs DEF Waiting
  <1>3. Head(c) = c[1] /\ Len(c) \in Nat \ {0}
    BY <1>1
  <1>4. Len(Tail(c)) = Len(c) - 1 /\ \A i \in 1..Len(Tail(c)) : Tail(c)[i] = c[i + 1]
    BY <1>1, HeadTailProperties
  <1>5. w = <<e>> \o u /\ <<e>> \in Seq(Event)
    <2> DEFINE n == Len(c)
    <2>1. n \in Nat \ {0} /\ Len(w) = n /\ Len(u) = n - 1 /\ w[1] = e
      BY <1>1, <1>2, <1>3, <1>4
    <2>2. \A i \in 1..n - 1 : u[i] = w[i + 1]
      BY <1>1, <1>2, <1>4, <2>1
    <2> HIDE DEF n, e, u, w
    <2>3. <<e>> \in Seq(Event) /\ Len(<<e>>) = 1 /\ <<e>>[1] = e
      BY <1>2, <2>1
    <2>4. /\ <<e>> \o u \in Seq(Event) /\ Len(<<e>> \o u) = n
          /\ \A i \in 1..n : (<<e>> \o u)[i] = IF i <= 1 THEN <<e>>[i] ELSE u[i - 1]
      <3>1. 1 + (n - 1) = n
        BY <2>1
      <3> QED
        BY <1>2, <2>1, <2>3, <3>1, ConcatProperties
    <2>5. \A i \in 1..n : i = 1 \/ (~(i <= 1) /\ i - 1 \in 1..n - 1 /\ i - 1 + 1 = i)
      BY <2>1
    <2>6. \A i \in 1..n : w[i] = (<<e>> \o u)[i]
      BY <2>1, <2>2, <2>3, <2>4, <2>5
    <2> QED
      BY <1>2, <2>1, <2>3, <2>4, <2>6, SeqEqual
  <1>6. Moved' = m \o <<e>>
    <2>1. seen \in Seq(Event) /\ events \in Seq(Event) /\ e \in Event
      <3>1. e = w[1] /\ 1 \in 1..Len(w)
        BY <1>2, <1>3
      <3>2. e \in Event
        BY <1>2, <3>1
      <3> QED
        BY <3>2 DEF TypeOK
    <2>2. Moved' = seen \o Append(events, e)
      BY DEF Drain, Moved
    <2>3. Append(events, e) = events \o <<e>>
      BY <2>1, AppendIsConcat
    <2> HIDE DEF e
    <2> QED
      BY <1>5, <2>1, <2>2, <2>3, ConcatAssociative DEF Moved
  <1> HIDE DEF e, m, w, u
  <1>7. (m \o <<e>>) \o u = m \o w
    BY <1>2, <1>5, ConcatAssociative
  <1> QED
    BY <1>6, <1>7 DEF Delivery, m, w, u

\* popEvent() returns the head of the wrapper's queue.
LEMMA PoppedMoves ==
    ASSUME TypeOK, Popped
    PROVE  Delivery' = Delivery
  <1>1. Moved' = Moved
    <2>1. CASE events = <<>>
      BY <2>1 DEF Popped, Moved
    <2>2. CASE events # <<>>
      <3> DEFINE e == Head(events)
                 t == Tail(events)
                 s == seen
      <3>1. s \in Seq(Event) /\ events \in Seq(Event) /\ t \in Seq(Event) /\ e \in Event
        BY <2>2 DEF TypeOK
      <3>2. events = <<e>> \o t /\ <<e>> \in Seq(Event)
        <4> DEFINE n == Len(events)
        <4>1. /\ n \in Nat \ {0} /\ Len(t) = n - 1 /\ e = events[1]
              /\ \A i \in 1..n - 1 : t[i] = events[i + 1]
          BY <2>2, <3>1
        <4> HIDE DEF e, t, n
        <4>2. <<e>> \in Seq(Event) /\ Len(<<e>>) = 1 /\ <<e>>[1] = e
          BY <3>1
        <4>3. /\ <<e>> \o t \in Seq(Event) /\ Len(<<e>> \o t) = n
              /\ \A i \in 1..n : (<<e>> \o t)[i] = IF i <= 1 THEN <<e>>[i] ELSE t[i - 1]
          <5>1. 1 + (n - 1) = n
            BY <4>1
          <5> QED
            BY <3>1, <4>1, <4>2, <5>1, ConcatProperties
        <4>4. \A i \in 1..n : i = 1 \/ (~(i <= 1) /\ i - 1 \in 1..n - 1 /\ i - 1 + 1 = i)
          BY <4>1
        <4>5. \A i \in 1..n : events[i] = (<<e>> \o t)[i]
          BY <4>1, <4>2, <4>3, <4>4
        <4>6. Len(events) = n
          BY DEF n
        <4> QED
          BY <3>1, <4>2, <4>3, <4>5, <4>6, SeqEqual
      <3>3. Moved' = Append(s, e) \o t
        BY <2>2 DEF Popped, Moved
      <3>4. Append(s, e) = s \o <<e>>
        BY <3>1, AppendIsConcat
      <3> HIDE DEF e, t
      <3> QED
        BY <3>1, <3>2, <3>3, <3>4, ConcatAssociative DEF Moved
    <2> QED
      BY <2>1, <2>2
  <1> QED
    BY <1>1 DEF Delivery, Waiting, Popped

(***************************************************************************)
(* Every step keeps the invariant.                                         *)
(***************************************************************************)

\* A proxy starts with no camera, no request and empty queues.
LEMMA InitIInv == Init => IInv
  <1> SUFFICES ASSUME Init PROVE IInv
    OBVIOUS
  <1>1. TypeOK /\ NoCamera /\ Dispatched
    BY EmptySeq DEF Init, Camera!Init, TypeOK, NoCamera, Dispatched
  <1>2. Moved = <<>> /\ Waiting = <<>>
    <2>1. <<>> \in Seq(Event) /\ <<>> \in Seq(Camera!Notes \cup {"Connect"})
      BY EmptySeq
    <2>2. Moved = <<>>
      BY <2>1, ConcatEmptySeq DEF Init, Moved
    <2>3. AllFromCamera(<<>>) \in Seq(Event) /\ Len(AllFromCamera(<<>>)) = Len(<<>>)
      BY <2>1, FromCameraIs
    <2>4. AllFromCamera(<<>>) = <<>>
      BY <2>3, EmptySeq
    <2> QED
      BY <2>2, <2>4 DEF Init, Camera!Init, Waiting
  <1>3. Delivery = pushed
    <2>1. <<>> \in Seq(Event)
      BY EmptySeq
    <2> QED
      BY <1>2, <2>1, ConcatEmptySeq DEF Delivery, Init
  <1>4. CameraEventsInOrder /\ ConnectionEventsInOrder
    BY <1>3 DEF CameraEventsInOrder, ConnectionEventsInOrder, InOrder
  <1> QED
    BY <1>1, <1>4 DEF IInv

\* What the wrapper may push itself: an ExceptionEvent at any moment, its
\* DisconnectEvent when nothing waits with the camera.
LEMMA OwnPushKeeps ==
    ASSUME IInv, NEW type \in {"Exception", "Disconnect"}, PushOwn(type),
           UNCHANGED <<cameraEvents, seen>>,
           type = "Exception" \/ cameraEvents = <<>>
    PROVE  /\ events' \in Seq(Event) /\ pushed' \in Seq(Event)
           /\ CameraEventsInOrder' /\ ConnectionEventsInOrder'
  <1>1. /\ FromWrapper(type) \in Event /\ FromWrapper(type) \notin OfCamera
        /\ FromWrapper(type) \notin OfConnection \/ cameraEvents = <<>>
    BY DEF FromWrapper, Event, OfCamera, OfConnection
  <1>2. TypeOK /\ InOrder(OfCamera) /\ InOrder(OfConnection)
    BY DEF IInv, CameraEventsInOrder, ConnectionEventsInOrder
  <1>3. events' \in Seq(Event) /\ pushed' \in Seq(Event)
    <2>1. events \in Seq(Event) /\ pushed \in Seq(Event)
      BY <1>2 DEF TypeOK
    <2> QED
      BY <1>1, <2>1, AppendProperties DEF PushOwn
  <1>4. InOrder(OfCamera)'
    BY <1>1, <1>2, OwnPushInOrder, Zenon
  <1>5. InOrder(OfConnection)'
    BY <1>1, <1>2, OwnPushInOrder, Zenon
  <1> QED
    BY <1>3, <1>4, <1>5 DEF CameraEventsInOrder, ConnectionEventsInOrder

\* What the real camera may push, in a call or from its event thread.
LEMMA CameraPushKeeps ==
    ASSUME IInv, NEW x \in Camera!Notes \cup {"Connect"}, PushedByCamera,
           cameraEvents' = Append(cameraEvents, x), UNCHANGED <<events, seen>>
    PROVE  /\ cameraEvents' \in Seq(Camera!Notes \cup {"Connect"})
           /\ pushed' \in Seq(Event) /\ Len(pushed') = Len(pushed) + 1
           /\ CameraEventsInOrder' /\ ConnectionEventsInOrder'
  <1> DEFINE S == Camera!Notes \cup {"Connect"}
             n == Len(cameraEvents)
             e == FromCamera(x)
  <1>1. cameraEvents \in Seq(S) /\ pushed \in Seq(Event) /\ e \in Event
    BY DEF IInv, TypeOK, FromCamera, Event, Camera!Notes
  <1>2. /\ cameraEvents' \in Seq(S) /\ Len(cameraEvents') = n + 1 /\ n \in Nat
        /\ cameraEvents'[n + 1] = x
    BY <1>1, AppendProperties
  <1>3. pushed' = pushed \o [i \in 1..1 |-> e]
    <2>1. Len(cameraEvents') - Len(cameraEvents) = 1
      BY <1>2
    <2>2. cameraEvents'[Len(cameraEvents')] = x
      BY <1>2
    <2> QED
      BY <2>1, <2>2, Zenon DEF PushedByCamera
  <1>4. [i \in 1..1 |-> e] = <<e>>
    <2> DEFINE one == [i \in 1..1 |-> e]
    <2>1. one \in Seq(Event) /\ Len(one) = 1 /\ one[1] = e
      BY <1>1
    <2> HIDE DEF one, e
    <2>2. <<e>> \in Seq(Event) /\ Len(<<e>>) = 1 /\ <<e>>[1] = e
      BY <1>1
    <2>3. \A i \in 1..1 : one[i] = <<e>>[i]
      BY <2>1, <2>2
    <2> QED
      BY <2>1, <2>2, <2>3, SeqEqual
  <1>5. pushed' = Append(pushed, e)
    BY <1>1, <1>3, <1>4, AppendIsConcat
  <1>6. pushed' \in Seq(Event) /\ Len(pushed') = Len(pushed) + 1
    BY <1>1, <1>5, AppendProperties
  <1>7. TypeOK /\ InOrder(OfCamera) /\ InOrder(OfConnection)
    BY DEF IInv, CameraEventsInOrder, ConnectionEventsInOrder
  <1>8. InOrder(OfCamera)'
    BY <1>1, <1>5, <1>7, CameraPushInOrder
  <1>9. InOrder(OfConnection)'
    BY <1>1, <1>5, <1>7, CameraPushInOrder
  <1> QED
    BY <1>2, <1>6, <1>8, <1>9 DEF CameraEventsInOrder, ConnectionEventsInOrder

\* A step of the camera that pushes nothing.
LEMMA NoPushKeeps ==
    ASSUME IInv, PushedByCamera, UNCHANGED <<cameraEvents, events, seen>>
    PROVE  UNCHANGED pushed /\ CameraEventsInOrder' /\ ConnectionEventsInOrder'
  <1> DEFINE c == cameraEvents
             none == [i \in 1..Len(c) - Len(c) |-> FromCamera(c[Len(c)])]
  <1>1. pushed' = pushed \o none
    BY Zenon DEF PushedByCamera
  <1>2. none = <<>>
    <2>1. Len(c) - Len(c) = 0
      BY DEF IInv, TypeOK
    <2>2. none = [i \in 1..0 |-> FromCamera(c[Len(c)])]
      BY <2>1, Zenon
    <2> QED
      BY <2>2
  <1> HIDE DEF none
  <1>3. pushed' = pushed
    BY <1>1, <1>2, ConcatEmptySeq DEF IInv, TypeOK
  <1> QED
    BY <1>3, StillInOrder DEF IInv, CameraEventsInOrder, ConnectionEventsInOrder

\* A step that leaves all queues as they are.
LEMMA NoQueueKeeps ==
    ASSUME IInv, UNCHANGED <<pushed, events, seen, cameraEvents>>
    PROVE  CameraEventsInOrder' /\ ConnectionEventsInOrder'
  BY StillInOrder DEF IInv, CameraEventsInOrder, ConnectionEventsInOrder

\* A handler's step.
LEMMA HandlerKeeps ==
    ASSUME IInv, HandlerStep
    PROVE  IInv'
  <1> USE DEF IInv, TypeOK, NoCamera, Dispatched
  <1>1. CASE Create
    BY <1>1, NoQueueKeeps DEF Create
  <1>2. CASE CreateFails
    BY <1>2, OwnPushKeeps DEF CreateFails
  <1>3. CASE HandleWithout
    <2>1. cameraEvents = <<>>
      BY <1>3 DEF HandleWithout
    <2> QED
      BY <1>3, <2>1, OwnPushKeeps DEF HandleWithout
  <1>4. CASE HandleWith
    BY <1>4, NoQueueKeeps DEF HandleWith, Camera!Begin
  <1>5. CASE HandlerReturns
    <2>1. busy # "none" /\ busy' = "none" /\ UNCHANGED polling
      BY <1>5 DEF HandlerReturns, Camera!Return, Camera!CallEnds
    <2>2. CASE UNCHANGED cameraEvents
      BY <1>5, <2>1, <2>2, NoPushKeeps DEF HandlerReturns
    <2>3. ASSUME NEW x \in Camera!Notes \cup {"Connect"},
                 cameraEvents' = Append(cameraEvents, x)
          PROVE  IInv'
      BY <1>5, <2>1, <2>3, CameraPushKeeps DEF HandlerReturns
    <2>4. \/ UNCHANGED cameraEvents
          \/ cameraEvents' = Append(cameraEvents, "Connect")
          \/ cameraEvents' = Append(cameraEvents, "Disconnect")
      BY <1>5 DEF HandlerReturns, Camera!Return
    <2>5. {"Connect", "Disconnect"} \subseteq Camera!Notes \cup {"Connect"}
      BY DEF Camera!Notes
    <2> QED
      BY <2>2, <2>3, <2>4, <2>5
  <1>6. CASE HandlerThrows
    BY <1>6, OwnPushKeeps DEF HandlerThrows, Camera!Throw, Camera!CallEnds
  <1> QED
    BY <1>1, <1>2, <1>3, <1>4, <1>5, <1>6 DEF HandlerStep

\* What the real camera does by itself.
LEMMA CameraStepKeeps ==
    ASSUME IInv, CameraStep
    PROVE  IInv'
  <1> USE DEF IInv, TypeOK, NoCamera, Dispatched
  <1>1. CASE Camera!StartPolling \/ Camera!StopPolling
    <2>1. UNCHANGED <<busy, cameraEvents, pc, request, camera, events, seen>>
          /\ polling' \in BOOLEAN /\ camera
      BY <1>1 DEF CameraStep, Camera!StartPolling, Camera!StopPolling
    <2> QED
      BY <2>1, NoPushKeeps DEF CameraStep
  <1>2. ASSUME NEW e \in Camera!Notes, Camera!Notify(e)
        PROVE  IInv'
    BY <1>2, CameraPushKeeps DEF CameraStep, Camera!Notify
  <1> QED
    BY <1>1, <1>2 DEF CameraStep

\* A step of popEvent().
LEMMA PopKeeps ==
    ASSUME IInv, PopEvent \/ Drain \/ Popped
    PROVE  IInv'
  <1> USE DEF IInv, TypeOK, NoCamera, Dispatched
  <1>1. CASE PopEvent
    BY <1>1, NoQueueKeeps DEF PopEvent
  <1>2. CASE Drain
    <2> DEFINE S == Camera!Notes \cup {"Connect"}
    <2>1. cameraEvents \in Seq(S) /\ cameraEvents # <<>>
          /\ cameraEvents' = Tail(cameraEvents)
      BY <1>2 DEF Drain, Camera!Pop
    <2>2. cameraEvents' \in Seq(S) /\ FromCamera(Head(cameraEvents)) \in Event
      <3>1. Head(cameraEvents) \in S /\ Tail(cameraEvents) \in Seq(S)
        BY <2>1, HeadTailProperties
      <3> QED
        BY <2>1, <3>1 DEF FromCamera, Event, Camera!Notes
    <2>3. CameraEventsInOrder' /\ ConnectionEventsInOrder'
      BY <1>2, DrainMoves, MoveInOrder
         DEF Drain, CameraEventsInOrder, ConnectionEventsInOrder
    <2>4. events' \in Seq(Event)
      BY <1>2, <2>2, AppendProperties DEF Drain
    <2>5. UNCHANGED <<pc, request, camera, busy, polling, pushed, seen>> /\ camera
      BY <1>2, <2>1 DEF Drain, Camera!Pop
    <2> QED
      BY <2>2, <2>3, <2>4, <2>5
  <1>3. CASE Popped
    <2>1. CameraEventsInOrder' /\ ConnectionEventsInOrder'
      BY <1>3, PoppedMoves, MoveInOrder
         DEF Popped, CameraEventsInOrder, ConnectionEventsInOrder
    <2>2. events' \in Seq(Event) /\ seen' \in Seq(Event)
      <3>1. events \in Seq(Event) /\ seen \in Seq(Event)
        OBVIOUS
      <3>2. CASE events = <<>>
        BY <1>3, <3>1, <3>2 DEF Popped
      <3>3. CASE events # <<>>
        <4>1. Head(events) \in Event /\ Tail(events) \in Seq(Event)
          BY <3>1, <3>3, HeadTailProperties
        <4>2. events' = Tail(events) /\ seen' = Append(seen, Head(events))
          BY <1>3, <3>3, Zenon DEF Popped
        <4>3. Append(seen, Head(events)) \in Seq(Event)
          BY <3>1, <4>1, AppendProperties
        <4> QED
          BY <4>1, <4>2, <4>3, Zenon
      <3> QED
        BY <3>2, <3>3
    <2> QED
      BY <1>3, <2>1, <2>2 DEF Popped
  <1> QED
    BY <1>1, <1>2, <1>3

\* The invariant: nothing of a camera before there is one, and both orders.
THEOREM Invariance == Spec => []IInv
  <1>1. Init => IInv
    BY InitIInv
  <1>2. IInv /\ [Next]_vars => IInv'
    <2> SUFFICES ASSUME IInv, [Next]_vars PROVE IInv'
      OBVIOUS
    <2>1. ASSUME NEW c \in Calls, Call(c) PROVE IInv'
      BY <2>1, NoQueueKeeps DEF Call, IInv, TypeOK, NoCamera, Dispatched
    <2>2. CASE UNCHANGED vars
      BY <2>2, NoQueueKeeps DEF vars, IInv, TypeOK, NoCamera, Dispatched
    <2> QED
      BY <2>1, <2>2, HandlerKeeps, CameraStepKeeps, PopKeeps DEF Next
  <1> QED
    BY <1>1, <1>2, PTL DEF Spec

\* The two queues lose, repeat and reorder no event of the real camera.
THEOREM CameraEventsStayInOrder == Spec => []CameraEventsInOrder
  <1>1. IInv => CameraEventsInOrder
    BY DEF IInv
  <1> QED
    BY <1>1, Invariance, PTL

\* No connection event overtakes another, whichever of the two pushes it.
THEOREM ConnectionEventsStayInOrder == Spec => []ConnectionEventsInOrder
  <1>1. IInv => ConnectionEventsInOrder
    BY DEF IInv
  <1> QED
    BY <1>1, Invariance, PTL

\* Only a capture() or a setProp() that the camera did ends without an event.
THEOREM NoSilentFailure == Spec => FailuresAreReported
  <1>1. IInv /\ [Next]_vars =>
            [pc' = "idle" /\ pc \in {"create", "handle"} /\ pushed' = pushed
               => request \in {"capture", "setProp"} /\ Camera!Return]_vars
    <2> SUFFICES ASSUME IInv, Next, pc' = "idle", pc \in {"create", "handle"},
                        pushed' = pushed
                 PROVE  request \in {"capture", "setProp"} /\ Camera!Return
      OBVIOUS
    <2>1. ASSUME NEW type, PushOwn(type) PROVE FALSE
      BY <2>1 DEF PushOwn, IInv, TypeOK
    <2>2. HandlerReturns
      BY <2>1 DEF Next, Call, HandlerStep, Create, CreateFails, HandleWithout,
                  HandleWith, HandlerThrows, CameraStep, PopEvent, Drain, Popped
    <2>3. busy # "none" /\ busy = request /\ request \in Calls
      BY <2>2 DEF HandlerReturns, Camera!Return, Camera!CallEnds, IInv, TypeOK
    <2>4. ASSUME NEW x \in Camera!Notes \cup {"Connect"},
                 cameraEvents' = Append(cameraEvents, x)
          PROVE  FALSE
      <3>1. Len(pushed') = Len(pushed) + 1 /\ Len(pushed) \in Nat
        BY <2>2, <2>4, CameraPushKeeps DEF HandlerReturns, IInv, TypeOK
      <3> QED
        BY <3>1
    <2>5. request \notin {"connect", "disconnect"}
      BY <2>2, <2>3, <2>4 DEF HandlerReturns, Camera!Return, Camera!Notes
    <2> QED
      BY <2>2, <2>3, <2>5 DEF HandlerReturns, Calls, Camera!Methods
  <1> QED
    BY <1>1, Invariance, PTL DEF Spec, FailuresAreReported
=============================================================================
