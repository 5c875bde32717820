------------------------- MODULE SSDPDiscovery_proofs --------------------------
(***************************************************************************)
(* SSDPDiscovery: the events tell the application exactly which cameras    *)
(* are advertised, and no camera twice, for any number of cameras,         *)
(* datagrams and ages, whatever is lost, malformed or out of reach.        *)
(***************************************************************************)
EXTENDS SSDPDiscovery, SequenceTheorems, FiniteSetTheorems, TLAPS

(***************************************************************************)
(* What the application knows once it has popped everything.               *)
(***************************************************************************)

\* An event that is appended decides about its camera, and about no other.
LEMMA KnowsAppend ==
    ASSUME NEW view, NEW log \in Seq(Event), NEW e \in Event, NEW c \in Cameras
    PROVE  Knows(view, Append(log, e), c) <=>
               IF e.ip = c THEN e.type = "Add" ELSE Knows(view, log, c)
  <1> DEFINE n == Len(log)
             l == Append(log, e)
  <1>1. /\ n \in Nat /\ DOMAIN log = 1..n /\ DOMAIN l = 1..n + 1
        /\ l[n + 1] = e /\ \A i \in 1..n : l[i] = log[i]
    BY AppendProperties
  <1>2. \A i \in 1..n + 1 : i \in 1..n \/ i = n + 1
    BY <1>1
  <1>3. \A i \in 1..n : i \in 1..n + 1 /\ i < n + 1 /\ i # n + 1
    BY <1>1
  <1>4. n + 1 \in 1..n + 1 /\ ~(n + 1 < n + 1) /\ \A i \in 1..n : ~(n + 1 < i)
    BY <1>1
  <1>5. e = AddEvent(c) <=> e.ip = c /\ e.type = "Add"
    BY DEF AddEvent, Event
  <1> HIDE DEF n, l
  <1>6. CASE e.ip = c
    <2>1. Knows(view, l, c) <=> e = AddEvent(c)
      <3>1. ASSUME e = AddEvent(c) PROVE Knows(view, l, c)
        <4>1. \A j \in 1..n + 1 : ~(n + 1 < j)
          BY <1>1, <1>2, <1>4
        <4> QED
          BY <1>1, <1>4, <3>1, <4>1 DEF Knows
      <3>2. ASSUME Knows(view, l, c) PROVE e = AddEvent(c)
        <4>1. PICK i \in 1..n + 1 : l[i] = AddEvent(c)
                                    /\ \A j \in 1..n + 1 : i < j => l[j].ip # c
          BY <1>1, <1>4, <1>6, <3>2 DEF Knows
        <4>2. i = n + 1
          BY <1>1, <1>2, <1>3, <1>4, <1>6, <4>1
        <4> QED
          BY <1>1, <4>1, <4>2
      <3> QED
        BY <3>1, <3>2
    <2> QED
      BY <1>5, <1>6, <2>1 DEF l
  <1>7. CASE e.ip # c
    <2>1. ASSUME Knows(view, log, c) PROVE Knows(view, l, c)
      <3>1. CASE c \in view /\ \A i \in 1..n : log[i].ip # c
        <4>1. \A i \in 1..n + 1 : l[i].ip # c
          BY <1>1, <1>2, <1>7, <3>1
        <4> QED
          BY <1>1, <3>1, <4>1 DEF Knows
      <3>2. CASE \E i \in 1..n : log[i] = AddEvent(c)
                                 /\ \A j \in 1..n : i < j => log[j].ip # c
        <4>1. PICK i \in 1..n : log[i] = AddEvent(c)
                                /\ \A j \in 1..n : i < j => log[j].ip # c
          BY <3>2
        <4>2. \A j \in 1..n + 1 : i < j => l[j].ip # c
          BY <1>1, <1>2, <1>7, <4>1
        <4>3. i \in 1..n + 1 /\ l[i] = AddEvent(c)
          BY <1>1, <1>3, <4>1
        <4> QED
          BY <1>1, <4>2, <4>3 DEF Knows
      <3> QED
        BY <1>1, <2>1, <3>1, <3>2 DEF Knows
    <2>2. ASSUME Knows(view, l, c) PROVE Knows(view, log, c)
      <3>1. CASE c \in view /\ \A i \in 1..n + 1 : l[i].ip # c
        <4>1. \A i \in 1..n : log[i].ip # c
          BY <1>1, <1>3, <3>1
        <4> QED
          BY <1>1, <3>1, <4>1 DEF Knows
      <3>2. CASE \E i \in 1..n + 1 : l[i] = AddEvent(c)
                                     /\ \A j \in 1..n + 1 : i < j => l[j].ip # c
        <4>1. PICK i \in 1..n + 1 : l[i] = AddEvent(c)
                                    /\ \A j \in 1..n + 1 : i < j => l[j].ip # c
          BY <3>2
        <4>2. i \in 1..n
          BY <1>1, <1>2, <1>5, <1>7, <4>1
        <4>3. log[i] = AddEvent(c) /\ \A j \in 1..n : i < j => log[j].ip # c
          BY <1>1, <1>3, <4>1, <4>2
        <4> QED
          BY <1>1, <4>2, <4>3 DEF Knows
      <3> QED
        BY <1>1, <2>2, <3>1, <3>2 DEF Knows
    <2> QED
      BY <1>7, <2>1, <2>2 DEF l
  <1> QED
    BY <1>6, <1>7

\* Popping an event does not change what will be known in the end.
LEMMA KnowsPop ==
    ASSUME NEW view, NEW log \in Seq(Event), log # <<>>, NEW c \in Cameras
    PROVE  Knows(Learn(view, Head(log)), Tail(log), c) <=> Knows(view, log, c)
  <1> DEFINE n == Len(log)
             t == Tail(log)
             e == Head(log)
             v == Learn(view, e)
  <1>1. /\ n \in Nat \ {0} /\ DOMAIN log = 1..n /\ DOMAIN t = 1..n - 1
        /\ e = log[1] /\ e \in Event /\ \A i \in 1..n - 1 : t[i] = log[i + 1]
    BY HeadTailProperties
  <1>2. \A i \in 1..n : i = 1 \/ \E k \in 1..n - 1 : i = k + 1 /\ log[i] = t[k]
    <2>1. ASSUME NEW i \in 1..n, i # 1
          PROVE  i - 1 \in 1..n - 1 /\ i = i - 1 + 1
      BY <1>1, <2>1
    <2>2. ASSUME NEW i \in 1..n, i # 1
          PROVE  i - 1 \in 1..n - 1 /\ log[i] = t[i - 1]
      BY <1>1, <2>1, <2>2
    <2> QED
      BY <2>1, <2>2
  <1>3. \A i \in 1..n - 1 :
            i + 1 \in 1..n /\ i + 1 # 1 /\ 1 < i + 1 /\ log[i + 1] = t[i]
    <2>1. \A i \in 1..n - 1 : i + 1 \in 1..n /\ i + 1 # 1 /\ 1 < i + 1
      BY <1>1
    <2> QED
      BY <1>1, <2>1
  <1>4. \A i, j \in 1..n - 1 : i < j <=> i + 1 < j + 1
    BY <1>1
  <1>5. c \in v <=> IF e.ip = c THEN e = AddEvent(c) ELSE c \in view
    BY <1>1 DEF Learn, Event, AddEvent
  <1>6. 1 \in 1..n
    BY <1>1
  <1> HIDE DEF n, t, e, v
  <1>7. (\A i \in 1..n : log[i].ip # c) <=> e.ip # c /\ \A i \in 1..n - 1 : t[i].ip # c
    BY <1>1, <1>2, <1>3, <1>6
  <1>8. (\A j \in 1..n : 1 < j => log[j].ip # c) <=> \A i \in 1..n - 1 : t[i].ip # c
    <2>1. \A j \in 1..n : 1 < j => j # 1
      BY <1>1
    <2> QED
      BY <1>1, <1>2, <1>3, <2>1
  <1>9. ASSUME NEW i \in 1..n - 1
        PROVE  (\A j \in 1..n : i + 1 < j => log[j].ip # c)
                   <=> \A j \in 1..n - 1 : i < j => t[j].ip # c
    <2>1. ~(i + 1 < 1)
      BY <1>1
    <2> QED
      BY <1>1, <1>2, <1>3, <1>4, <2>1
  <1>10. (\E i \in 1..n : log[i] = AddEvent(c) /\ \A j \in 1..n : i < j => log[j].ip # c)
           <=> \/ e = AddEvent(c) /\ \A j \in 1..n - 1 : t[j].ip # c
               \/ \E i \in 1..n - 1 :
                      t[i] = AddEvent(c) /\ \A j \in 1..n - 1 : i < j => t[j].ip # c
    <2>1. ASSUME NEW i \in 1..n, log[i] = AddEvent(c),
                 \A j \in 1..n : i < j => log[j].ip # c
          PROVE  \/ e = AddEvent(c) /\ \A j \in 1..n - 1 : t[j].ip # c
                 \/ \E k \in 1..n - 1 :
                        t[k] = AddEvent(c) /\ \A j \in 1..n - 1 : k < j => t[j].ip # c
      <3>1. CASE i = 1
        BY <1>1, <1>8, <2>1, <3>1
      <3>2. CASE i # 1
        <4>1. PICK k \in 1..n - 1 : k + 1 = i
          BY <1>2, <3>2
        <4>2. t[k] = AddEvent(c) /\ \A j \in 1..n - 1 : k < j => t[j].ip # c
          BY <1>1, <1>9, <2>1, <4>1
        <4> QED
          BY <4>2
      <3> QED
        BY <3>1, <3>2
    <2>2. ASSUME e = AddEvent(c), \A j \in 1..n - 1 : t[j].ip # c
          PROVE  \E i \in 1..n :
                     log[i] = AddEvent(c) /\ \A j \in 1..n : i < j => log[j].ip # c
      BY <1>1, <1>6, <1>8, <2>2
    <2>3. ASSUME NEW i \in 1..n - 1, t[i] = AddEvent(c),
                 \A j \in 1..n - 1 : i < j => t[j].ip # c
          PROVE  \E k \in 1..n :
                     log[k] = AddEvent(c) /\ \A j \in 1..n : k < j => log[j].ip # c
      BY <1>1, <1>3, <1>9, <2>3
    <2> QED
      BY <2>1, <2>2, <2>3
  <1>11. Knows(v, t, c) <=>
             \/ \E i \in 1..n - 1 :
                    t[i] = AddEvent(c) /\ \A j \in 1..n - 1 : i < j => t[j].ip # c
             \/ c \in v /\ \A i \in 1..n - 1 : t[i].ip # c
    BY <1>1 DEF Knows
  <1>12. Knows(view, log, c) <=>
             \/ \E i \in 1..n :
                    log[i] = AddEvent(c) /\ \A j \in 1..n : i < j => log[j].ip # c
             \/ c \in view /\ \A i \in 1..n : log[i].ip # c
    BY <1>1 DEF Knows
  <1>13. e = AddEvent(c) => e.ip = c
    BY DEF AddEvent
  <1>14. Knows(v, t, c) <=> Knows(view, log, c)
    BY <1>5, <1>7, <1>10, <1>11, <1>12, <1>13
  <1> QED
    BY <1>14 DEF v, t, e

\* Events that remove cameras, and only their cameras.
LEMMA KnowsRemoved ==
    ASSUME NEW view, NEW log \in Seq(Event), NEW more \in Seq(Event), NEW c \in Cameras,
           \A i \in 1..Len(more) : more[i].type = "Remove"
    PROVE  Knows(view, log \o more, c) <=>
               Knows(view, log, c) /\ \A i \in 1..Len(more) : more[i].ip # c
  <1> DEFINE n == Len(log)
             m == Len(more)
             l == log \o more
  <1>1. /\ n \in Nat /\ m \in Nat /\ DOMAIN log = 1..n /\ DOMAIN l = 1..n + m
        /\ \A i \in 1..n + m : l[i] = IF i <= n THEN log[i] ELSE more[i - n]
    BY ConcatProperties
  <1>2. \A i \in 1..n : i \in 1..n + m /\ l[i] = log[i]
    BY <1>1
  <1>3. \A i \in 1..m : n + i \in 1..n + m /\ l[n + i] = more[i]
                        /\ \A k \in 1..n : k < n + i
    <2>1. ASSUME NEW i \in 1..m
          PROVE  n + i \in 1..n + m /\ ~(n + i <= n) /\ n + i - n = i
                 /\ \A k \in 1..n : k < n + i
      BY <1>1, <2>1
    <2> QED
      BY <1>1, <2>1
  <1>4. \A i \in 1..n + m : i \in 1..n \/ \E k \in 1..m : i = n + k
    <2>1. ASSUME NEW i \in 1..n + m, i \notin 1..n
          PROVE  i - n \in 1..m /\ i = n + (i - n)
      BY <1>1, <2>1
    <2> QED
      BY <2>1
  <1>5. \A i \in 1..m : more[i] # AddEvent(c)
    BY DEF AddEvent
  <1> HIDE DEF n, m, l
  <1>6. ASSUME Knows(view, log, c), \A i \in 1..m : more[i].ip # c
        PROVE  Knows(view, l, c)
    <2>1. CASE c \in view /\ \A i \in 1..n : log[i].ip # c
      <3>1. \A i \in 1..n + m : l[i].ip # c
        BY <1>2, <1>3, <1>4, <1>6, <2>1
      <3> QED
        BY <1>1, <2>1, <3>1 DEF Knows
    <2>2. CASE \E i \in 1..n : log[i] = AddEvent(c)
                               /\ \A j \in 1..n : i < j => log[j].ip # c
      <3>1. PICK i \in 1..n : log[i] = AddEvent(c)
                              /\ \A j \in 1..n : i < j => log[j].ip # c
        BY <2>2
      <3>2. i \in 1..n + m /\ l[i] = AddEvent(c)
        BY <1>2, <3>1
      <3>3. \A j \in 1..n + m : i < j => l[j].ip # c
        BY SMTT(40), <1>2, <1>3, <1>4, <1>6, <3>1
      <3> QED
        BY <1>1, <3>2, <3>3 DEF Knows
    <2> QED
      BY <1>1, <1>6, <2>1, <2>2 DEF Knows
  <1>7. ASSUME Knows(view, l, c)
        PROVE  Knows(view, log, c) /\ \A i \in 1..m : more[i].ip # c
    <2>1. CASE c \in view /\ \A i \in 1..n + m : l[i].ip # c
      <3>1. (\A i \in 1..n : log[i].ip # c) /\ \A i \in 1..m : more[i].ip # c
        BY <1>2, <1>3, <2>1
      <3> QED
        BY <1>1, <2>1, <3>1 DEF Knows
    <2>2. CASE \E i \in 1..n + m : l[i] = AddEvent(c)
                                   /\ \A j \in 1..n + m : i < j => l[j].ip # c
      <3>1. PICK i \in 1..n + m : l[i] = AddEvent(c)
                                  /\ \A j \in 1..n + m : i < j => l[j].ip # c
        BY <2>2
      <3>2. i \in 1..n
        BY <1>3, <1>4, <1>5, <3>1
      <3>3. log[i] = AddEvent(c) /\ \A j \in 1..n : i < j => log[j].ip # c
        BY <1>2, <3>1, <3>2
      <3>4. \A k \in 1..m : more[k].ip # c
        BY <1>3, <3>1, <3>2
      <3> QED
        BY <1>1, <3>2, <3>3, <3>4 DEF Knows
    <2> QED
      BY <1>1, <1>7, <2>1, <2>2 DEF Knows
  <1> QED
    BY <1>6, <1>7 DEF m, l

(***************************************************************************)
(* The addresses that are advertised.                                      *)
(***************************************************************************)

\* c is advertised, by the entries a.
Advertised(a, c) == ServiceOf[c] \in DOMAIN a /\ a[ServiceOf[c]].ip = c

\* For each camera: the application knows it, or will, iff it is advertised.
Matches == \A c \in Cameras : Knows(known, events, c) <=> Advertised(advertisements, c)

\* Where each entry is found under the service of its camera, that is what
\* EventsMatchAdvertisements says of the whole set.
LEMMA AddressesAre ==
    ASSUME NEW a, \A s \in DOMAIN a : a[s].ip \in Cameras /\ ServiceOf[a[s].ip] = s,
           NEW view, NEW log
    PROVE  {c \in Cameras : Knows(view, log, c)} = {a[s].ip : s \in DOMAIN a} <=>
               \A c \in Cameras : Knows(view, log, c) <=> Advertised(a, c)
  <1> DEFINE A == {a[s].ip : s \in DOMAIN a}
             K == {c \in Cameras : Knows(view, log, c)}
  <1>1. \A c \in Cameras : c \in A <=> Advertised(a, c)
    BY DEF Advertised
  <1>2. A \subseteq Cameras /\ K \subseteq Cameras
    OBVIOUS
  <1>3. \A c \in Cameras : c \in K <=> Knows(view, log, c)
    OBVIOUS
  <1> HIDE DEF A, K
  <1>4. K = A <=> \A c \in Cameras : c \in K <=> c \in A
    BY <1>2
  <1>5. K = A <=> \A c \in Cameras : Knows(view, log, c) <=> Advertised(a, c)
    BY <1>1, <1>3, <1>4
  <1> QED
    BY <1>5 DEF A, K

\* The invariant gives the one and needs the other.
LEMMA MatchesNow ==
    ASSUME IInv PROVE Matches
  <1>1. \A s \in DOMAIN advertisements :
            advertisements[s].ip \in Cameras /\ ServiceOf[advertisements[s].ip] = s
    BY DEF IInv, TypeOK, KeysInv
  <1> QED
    BY <1>1, AddressesAre DEF IInv, EventsMatchAdvertisements, Caught, Matches

\* The same after a step: what each camera stands for is what the property says.
LEMMA MatchesNext ==
    ASSUME TypeOK', KeysInv', Matches' PROVE EventsMatchAdvertisements'
  <1>1. \A s \in DOMAIN advertisements' :
            advertisements'[s].ip \in Cameras /\ ServiceOf[advertisements'[s].ip] = s
    BY DEF TypeOK, KeysInv
  <1> QED
    BY <1>1, AddressesAre DEF EventsMatchAdvertisements, Caught, Matches

(***************************************************************************)
(* Messages.                                                               *)
(***************************************************************************)

\* A queue of messages, each about the service of its sender.
Queue(q) == q \in Seq(Message) /\ \A i \in DOMAIN q : OwnService(q[i])

\* What a camera sends is about its own service.
LEMMA SentIsOwn ==
    ASSUME NEW c \in Cameras, NEW kind \in {"alive", "response", "byebye"},
           NEW age \in Ages \cup {BadAge}
    PROVE  /\ Advertisement(kind, c, age) \in Message
           /\ OwnService(Advertisement(kind, c, age))
  BY DiscoveryAssumption DEF Advertisement, Message, OwnService

\* A datagram comes last.
LEMMA QueueAppend ==
    ASSUME NEW q, Queue(q), NEW m \in Message, OwnService(m)
    PROVE  Queue(Append(q, m))
  <1>1. /\ Append(q, m) \in Seq(Message) /\ Len(Append(q, m)) = Len(q) + 1
        /\ Append(q, m)[Len(q) + 1] = m
        /\ \A i \in 1..Len(q) : Append(q, m)[i] = q[i]
        /\ Len(q) \in Nat /\ DOMAIN q = 1..Len(q)
    BY AppendProperties DEF Queue
  <1>2. DOMAIN Append(q, m) = 1..Len(q) + 1
    BY <1>1
  <1>3. \A i \in 1..Len(q) + 1 : i \in 1..Len(q) \/ i = Len(q) + 1
    BY <1>1
  <1> QED
    BY <1>1, <1>2, <1>3 DEF Queue

\* A loop takes the first.
LEMMA QueueTail ==
    ASSUME NEW q, Queue(q), q # <<>>
    PROVE  Head(q) \in Message /\ OwnService(Head(q)) /\ Queue(Tail(q))
  <1>1. /\ Head(q) \in Message /\ Tail(q) \in Seq(Message)
        /\ Len(Tail(q)) = Len(q) - 1 /\ Len(q) \in Nat \ {0} /\ Head(q) = q[1]
        /\ \A i \in 1..Len(Tail(q)) : Tail(q)[i] = q[i + 1]
        /\ DOMAIN q = 1..Len(q)
    BY HeadTailProperties DEF Queue
  <1>2. DOMAIN Tail(q) = 1..Len(q) - 1
    BY <1>1
  <1>3. 1 \in 1..Len(q) /\ \A i \in 1..Len(q) - 1 : i + 1 \in 1..Len(q)
    BY <1>1
  <1> QED
    BY <1>1, <1>2, <1>3 DEF Queue

(***************************************************************************)
(* Advertisements.                                                         *)
(***************************************************************************)

\* Every element of a finite set is somewhere in its sequence.
LEMMA SetToSeqIs ==
    ASSUME NEW S, IsFiniteSet(S)
    PROVE  /\ Cardinality(S) \in Nat
           /\ SetToSeq(S) \in [1..Cardinality(S) -> S]
           /\ \A x \in S : \E i \in 1..Cardinality(S) : SetToSeq(S)[i] = x
  <1> DEFINE n == Cardinality(S)
  <1>1. n \in Nat /\ ExistsBijection(1..n, S)
    BY FS_CardinalityType
  <1>2. \E f \in [1..n -> S] : IsInjective(f)
    BY <1>1 DEF ExistsBijection, Bijection, Injection
  <1>3. SetToSeq(S) \in [1..n -> S] /\ IsInjective(SetToSeq(S))
    BY <1>2 DEF SetToSeq
  <1>4. IsFiniteSet(1..n) /\ Cardinality(1..n) = n
    BY <1>1, FS_Interval
  <1>5. SetToSeq(S) \in Injection(1..n, S)
    BY <1>3 DEF Injection
  <1>6. SetToSeq(S) \in Surjection(1..n, S)
    BY <1>4, <1>5, FS_Injection
  <1> QED
    BY <1>1, <1>3, <1>6 DEF Surjection

\* What Record stores.
LEMMA RecordIs ==
    ASSUME TypeOK, KeysInv, NEW m \in Message, OwnService(m),
           m.kind \in {"alive", "response"}, NEW next, Record(m, next)
    PROVE  /\ m.from \in Cameras /\ m.service = ServiceOf[m.from]
           /\ DOMAIN advertisements' = DOMAIN advertisements \cup {m.service}
           /\ IsFiniteSet(DOMAIN advertisements')
           /\ advertisements' \in [DOMAIN advertisements' -> [ip : Cameras, left : Int]]
           /\ KeysInv'
           /\ \A c \in Cameras :
                  Advertised(advertisements', c) <=>
                      IF ServiceOf[c] = m.service THEN m.from = c
                      ELSE Advertised(advertisements, c)
  <1> DEFINE a == advertisements
             b == advertisements'
             D == DOMAIN a \cup {m.service}
             new == [ip |-> m.from, left |-> IF m.age = BadAge THEN 0 ELSE m.age]
  <1>1. m.from \in Cameras /\ m.service = ServiceOf[m.from]
        /\ m.age \in Ages \cup {BadAge}
    BY DEF Message, Noise, OwnService
  <1>2. b = [s \in D |-> IF s = m.service THEN new ELSE a[s]]
    BY DEF Record
  <1>3. new \in [ip : Cameras, left : Int] /\ new.ip = m.from
    <2> DEFINE left == IF m.age = BadAge THEN 0 ELSE m.age
    <2>1. left \in Int
      <3>1. CASE m.age = BadAge
        BY <3>1
      <3>2. CASE m.age # BadAge
        <4>1. m.age \in Ages
          BY <1>1, <3>2, Zenon
        <4>2. \A age \in Ages : age \in Int
          BY DiscoveryAssumption
        <4>3. left = m.age
          BY <3>2, Zenon
        <4> QED
          BY <4>1, <4>2, <4>3, Zenon
      <3> QED
        BY <3>1, <3>2
    <2> HIDE DEF left
    <2>2. [ip |-> m.from, left |-> left] \in [ip : Cameras, left : Int]
      BY <1>1, <2>1
    <2> QED
      BY <2>2 DEF left
  <1>4. IsFiniteSet(D)
    BY FS_AddElement DEF TypeOK
  <1>5. \A s \in DOMAIN a : a[s] \in [ip : Cameras, left : Int] /\ ServiceOf[a[s].ip] = s
    BY DEF TypeOK, KeysInv
  <1> HIDE DEF b, new
  <1>6. /\ DOMAIN b = D /\ b[m.service] = new
        /\ \A s \in D : s # m.service => s \in DOMAIN a /\ b[s] = a[s]
    BY <1>2
  <1>7. b \in [D -> [ip : Cameras, left : Int]]
    BY <1>2, <1>3, <1>5
  <1>8. \A s \in D : ServiceOf[b[s].ip] = s
    BY <1>1, <1>3, <1>5, <1>6
  <1>9. \A c \in Cameras : Advertised(b, c) <=>
            IF ServiceOf[c] = m.service THEN m.from = c ELSE Advertised(a, c)
    BY <1>3, <1>6 DEF Advertised
  <1>10. b = advertisements'
    BY DEF b
  <1> QED
    BY <1>1, <1>4, <1>6, <1>7, <1>8, <1>9, <1>10 DEF KeysInv

\* What is left of advertisements when the entries of a set of services go.
LEMMA DroppedIs ==
    ASSUME TypeOK, KeysInv, NEW S,
           advertisements' = [s \in DOMAIN advertisements \ S |-> advertisements[s]]
    PROVE  /\ DOMAIN advertisements' = DOMAIN advertisements \ S
           /\ IsFiniteSet(DOMAIN advertisements')
           /\ advertisements' \in [DOMAIN advertisements' -> [ip : Cameras, left : Int]]
           /\ KeysInv'
           /\ \A c \in Cameras :
                  Advertised(advertisements', c) <=>
                      Advertised(advertisements, c) /\ ServiceOf[c] \notin S
  <1> DEFINE a == advertisements
             b == advertisements'
             D == DOMAIN a \ S
  <1>1. IsFiniteSet(D)
    BY FS_Subset DEF TypeOK
  <1>2. DOMAIN b = D /\ \A s \in D : b[s] = a[s]
    OBVIOUS
  <1>3. \A s \in DOMAIN a : a[s] \in [ip : Cameras, left : Int] /\ ServiceOf[a[s].ip] = s
    BY DEF TypeOK, KeysInv
  <1>4. b \in [D -> [ip : Cameras, left : Int]]
    BY <1>3
  <1>5. \A s \in D : ServiceOf[b[s].ip] = s
    BY <1>2, <1>3
  <1>6. \A c \in Cameras :
            Advertised(b, c) <=> Advertised(a, c) /\ ServiceOf[c] \notin S
    BY <1>2 DEF Advertised
  <1> QED
    BY <1>1, <1>2, <1>4, <1>5, <1>6 DEF KeysInv

(***************************************************************************)
(* Every step keeps the invariant.                                         *)
(***************************************************************************)

\* The service of a camera is its name.
LEMMA OneServiceEach ==
    ASSUME DistinctServices, NEW m \in Message, OwnService(m), m.kind \in {"alive", "response", "byebye"}
    PROVE  m.from \in Cameras /\ \A c \in Cameras : ServiceOf[c] = m.service <=> c = m.from
  BY DEF DistinctServices, Message, Noise, OwnService

\* Discovery starts knowing no camera, and so does the application.
LEMMA InitIInv == Init => IInv
  <1> SUFFICES ASSUME Init PROVE IInv
    OBVIOUS
  <1> DEFINE none == <<>>
  <1>1. none \in Seq(Message) /\ none \in Seq(Event) /\ DOMAIN none = {}
    BY EmptySeq
  <1>2. none \in [DOMAIN none -> [ip : Cameras, left : Int]]
    BY <1>1
  <1>3. IsFiniteSet(DOMAIN none)
    BY <1>1, FS_EmptySet
  <1> HIDE DEF none
  <1>4. /\ multicast = none /\ unicast = none /\ advertisements = none /\ events = none
        /\ known = {} /\ pc = "idle"
    BY DEF Init, none
  <1>5. TypeOK
    BY <1>1, <1>2, <1>3, <1>4 DEF TypeOK
  <1>6. MessagesInv /\ KeysInv /\ FetchInv
    BY <1>1, <1>4 DEF MessagesInv, KeysInv, FetchInv
  <1>7. EventsMatchAdvertisements
    BY <1>1, <1>4 DEF EventsMatchAdvertisements, Caught, Knows
  <1> QED
    BY <1>5, <1>6, <1>7 DEF IInv

\* Datagrams that arrive.
LEMMA ArrivesKeeps ==
    ASSUME IInv, NEW m \in Message, OwnService(m), NEW socket, Arrives(m, socket)
    PROVE  IInv'
  <1>1. Queue(multicast) /\ Queue(unicast)
    BY DEF IInv, TypeOK, MessagesInv, Queue
  <1>2. Queue(Append(multicast, m)) /\ Queue(Append(unicast, m))
    BY <1>1, QueueAppend
  <1>3. Queue(multicast') /\ Queue(unicast')
    BY <1>1, <1>2 DEF Arrives
  <1>4. UNCHANGED <<pc, current, advertisements, events, known>>
    BY DEF Arrives
  <1> QED
    BY <1>3, <1>4 DEF IInv, TypeOK, MessagesInv, KeysInv, FetchInv, Queue,
                      EventsMatchAdvertisements, Caught

\* Cameras, noise and time.
LEMMA EnvironmentKeeps ==
    ASSUME IInv, Environment
    PROVE  IInv'
  <1>1. ASSUME NEW c \in Cameras, Send(c) PROVE IInv'
    <2>1. BadAge \in Ages \cup {BadAge} /\ AgesSent \subseteq Ages \cup {BadAge}
      BY DEF AgesSent
    <2>2. ASSUME NEW kind \in {"alive", "response", "byebye"},
                 NEW age \in Ages \cup {BadAge}, NEW socket,
                 Arrives(Advertisement(kind, c, age), socket)
          PROVE  IInv'
      BY <2>2, SentIsOwn, ArrivesKeeps
    <2> QED
      BY <1>1, <2>1, <2>2 DEF Send
  <1>2. ASSUME NEW c \in Cameras, Vanish(c) PROVE IInv'
    BY <1>2 DEF Vanish, IInv, TypeOK, MessagesInv, KeysInv, FetchInv,
                EventsMatchAdvertisements, Caught
  <1>3. ASSUME Disturb PROVE IInv'
    <2>1. PICK m \in Noise, socket \in {"multicast", "unicast"} : Arrives(m, socket)
      BY <1>3 DEF Disturb
    <2>2. m \in Message /\ OwnService(m)
      BY DEF Message, Noise, OwnService
    <2> QED
      BY <2>1, <2>2, ArrivesKeeps
  <1>4. ASSUME Tick PROVE IInv'
    <2> DEFINE a == advertisements
               b == advertisements'
    <2>1. \A s \in DOMAIN a : a[s] \in [ip : Cameras, left : Int]
      BY DEF IInv, TypeOK
    <2>2. /\ b = [s \in DOMAIN a |->
                     [a[s] EXCEPT !.left = IF a[s].left >= 0 THEN a[s].left - 1
                                           ELSE a[s].left]]
          /\ UNCHANGED <<pc, multicast, unicast, current, events, known>>
      BY <1>4 DEF Tick
    <2>3. \A s \in DOMAIN a : b[s] \in [ip : Cameras, left : Int] /\ b[s].ip = a[s].ip
      BY <2>1, <2>2
    <2>4. DOMAIN b = DOMAIN a
      BY <2>2
    <2>5. b \in [DOMAIN b -> [ip : Cameras, left : Int]]
      BY <2>2, <2>3
    <2>6. TypeOK' /\ MessagesInv'
      BY <2>2, <2>4, <2>5 DEF IInv, TypeOK, MessagesInv
    <2>7. KeysInv' /\ FetchInv'
      BY <2>2, <2>3, <2>4 DEF IInv, KeysInv, FetchInv
    <2>8. Matches'
      <3>1. \A c \in Cameras : Advertised(b, c) <=> Advertised(a, c)
        BY <2>3, <2>4 DEF Advertised
      <3> QED
        BY <2>2, <3>1, MatchesNow DEF Matches
    <2> QED
      BY <2>6, <2>7, <2>8, MatchesNext DEF IInv
  <1> QED
    BY <1>1, <1>2, <1>3, <1>4 DEF Environment

\* What a loop does with a message.
LEMMA HandleKeeps ==
    ASSUME DistinctServices, IInv, pc \in {"multicast", "unicast"},
           NEW m \in Message, OwnService(m), Handle(m),
           Queue(multicast'), Queue(unicast')
    PROVE  IInv'
  <1>1. MessagesInv' /\ multicast' \in Seq(Message) /\ unicast' \in Seq(Message)
    BY DEF MessagesInv, Queue
  <1>2. TypeOK /\ KeysInv /\ Matches
    BY MatchesNow DEF IInv
  <1>3. CASE m.kind \in {"alive", "response"} /\ Process(m, pc)
    <2>1. m.from \in Cameras /\ \A c \in Cameras : ServiceOf[c] = m.service <=> c = m.from
      BY <1>3, OneServiceEach
    <2>2. UNCHANGED <<events, known>>
      BY <1>3 DEF Process
    <2>3. CASE m.service \in DOMAIN advertisements
      <3>1. Record(m, pc) /\ UNCHANGED current
        BY <1>3, <2>3 DEF Process
      <3>2. pc' \in {"idle", "multicast", "unicast"}
        BY <3>1 DEF Record, Goto
      <3>3. /\ IsFiniteSet(DOMAIN advertisements') /\ KeysInv'
            /\ advertisements' \in [DOMAIN advertisements' -> [ip : Cameras, left : Int]]
            /\ \A c \in Cameras :
                   Advertised(advertisements', c) <=>
                       IF ServiceOf[c] = m.service THEN m.from = c
                       ELSE Advertised(advertisements, c)
        BY <1>2, <1>3, <3>1, RecordIs
      <3>4. TypeOK' /\ FetchInv'
        BY <1>1, <1>2, <2>2, <3>2, <3>3 DEF TypeOK, FetchInv
      <3>5. Advertised(advertisements, m.from)
        <4>1. /\ advertisements[m.service].ip \in Cameras
              /\ ServiceOf[advertisements[m.service].ip] = m.service
          BY <1>2, <2>3 DEF TypeOK, KeysInv
        <4> QED
          BY <2>1, <2>3, <4>1 DEF Advertised
      <3>6. Matches'
        BY <1>2, <2>1, <2>2, <3>3, <3>5 DEF Matches
      <3> QED
        BY <1>1, <3>3, <3>4, <3>6, MatchesNext DEF IInv
    <2>4. CASE m.service \notin DOMAIN advertisements
      <3>1. /\ current' = [message |-> m, loop |-> pc] /\ pc' = "fetch"
            /\ UNCHANGED advertisements
        BY <1>3, <2>4 DEF Process, Goto
      <3>2. TypeOK' /\ KeysInv'
        BY <1>1, <1>2, <2>2, <3>1 DEF TypeOK, KeysInv
      <3>3. FetchInv'
        BY <1>3, <2>4, <3>1 DEF FetchInv
      <3>4. EventsMatchAdvertisements'
        BY <2>2, <3>1 DEF IInv, EventsMatchAdvertisements, Caught
      <3> QED
        BY <1>1, <3>2, <3>3, <3>4 DEF IInv
    <2> QED
      BY <2>3, <2>4
  <1>4. CASE m.kind = "byebye" /\ Goodbye(m)
    <2> DEFINE e == RemoveEvent(m.from)
    <2>1. m.from \in Cameras /\ \A c \in Cameras : ServiceOf[c] = m.service <=> c = m.from
      BY <1>4, OneServiceEach
    <2>2. e \in Event /\ e.ip = m.from /\ e.type # "Add"
      BY <2>1 DEF RemoveEvent, Event
    <2>3. /\ events' = Append(events, e) /\ UNCHANGED <<pc, current, known>>
          /\ advertisements' =
                [s \in DOMAIN advertisements \ {m.service} |-> advertisements[s]]
      BY <1>4 DEF Goodbye, Without
    <2> HIDE DEF e
    <2>4. /\ IsFiniteSet(DOMAIN advertisements') /\ KeysInv'
          /\ advertisements' \in [DOMAIN advertisements' -> [ip : Cameras, left : Int]]
          /\ \A c \in Cameras :
                 Advertised(advertisements', c) <=>
                     Advertised(advertisements, c) /\ ServiceOf[c] \notin {m.service}
      BY <1>2, <2>3, DroppedIs
    <2>5. events \in Seq(Event) /\ Append(events, e) \in Seq(Event)
      BY <1>2, <2>2, AppendProperties DEF TypeOK
    <2>6. TypeOK' /\ FetchInv'
      BY <1>1, <1>2, <2>3, <2>4, <2>5 DEF TypeOK, FetchInv
    <2>7. \A c \in Cameras : Knows(known, Append(events, e), c) <=>
              c # m.from /\ Knows(known, events, c)
      BY <2>2, <2>5, KnowsAppend
    <2>8. Matches'
      BY <1>2, <2>1, <2>3, <2>4, <2>7 DEF Matches
    <2> QED
      BY <1>1, <2>4, <2>6, <2>8, MatchesNext DEF IInv
  <1>5. CASE /\ pc' \in {"idle", "multicast", "unicast", "expire"}
             /\ UNCHANGED <<current, advertisements, events, known>>
    BY <1>1, <1>2, <1>5 DEF IInv, TypeOK, KeysInv, FetchInv,
                            EventsMatchAdvertisements, Caught
  <1> QED
    BY <1>3, <1>4, <1>5 DEF Handle, Goto, After

\* The end of a fetch that succeeds: the camera becomes known and advertised.
LEMMA FetchedKeeps ==
    ASSUME DistinctServices, IInv, Fetched
    PROVE  IInv'
  <1> DEFINE m == current.message
             e == AddEvent(m.from)
  <1>1. /\ m \in Message /\ OwnService(m) /\ m.kind \in {"alive", "response"}
        /\ current.loop \in {"multicast", "unicast"}
    BY DEF IInv, FetchInv, Fetched
  <1>2. TypeOK /\ KeysInv /\ Matches
    BY MatchesNow DEF IInv
  <1>3. /\ events' = Append(events, e) /\ Record(m, current.loop)
        /\ UNCHANGED <<multicast, unicast, known>>
    BY DEF Fetched
  <1> HIDE DEF m
  <1>4. m.from \in Cameras /\ \A c \in Cameras : ServiceOf[c] = m.service <=> c = m.from
    BY <1>1, OneServiceEach
  <1>5. e \in Event /\ e.ip = m.from /\ e.type = "Add"
    BY <1>4 DEF AddEvent, Event
  <1> HIDE DEF e
  <1>6. pc' \in {"idle", "multicast", "unicast"}
    BY <1>1, <1>3 DEF Record, Goto
  <1>7. /\ IsFiniteSet(DOMAIN advertisements') /\ KeysInv'
        /\ advertisements' \in [DOMAIN advertisements' -> [ip : Cameras, left : Int]]
        /\ \A c \in Cameras :
               Advertised(advertisements', c) <=>
                   IF ServiceOf[c] = m.service THEN m.from = c
                   ELSE Advertised(advertisements, c)
    BY <1>1, <1>2, <1>3, RecordIs
  <1>8. events \in Seq(Event) /\ Append(events, e) \in Seq(Event)
    BY <1>2, <1>5, AppendProperties DEF TypeOK
  <1>9. TypeOK' /\ FetchInv' /\ MessagesInv'
    BY <1>2, <1>3, <1>6, <1>7, <1>8 DEF IInv, TypeOK, FetchInv, MessagesInv
  <1>10. \A c \in Cameras : Knows(known, Append(events, e), c) <=>
             c = m.from \/ Knows(known, events, c)
    BY <1>5, <1>8, KnowsAppend
  <1>11. Matches'
    BY <1>2, <1>3, <1>4, <1>7, <1>10 DEF Matches
  <1> QED
    BY <1>7, <1>9, <1>11, MatchesNext DEF IInv

\* What Expire pushes: a removal of the camera of every entry that is old.
LEMMA ExpireIs ==
    ASSUME TypeOK, KeysInv, Expire
    PROVE  \E more \in Seq(Event) :
               /\ events' = events \o more
               /\ \A i \in 1..Len(more) : more[i].type = "Remove"
               /\ \A c \in Cameras :
                      (\E i \in 1..Len(more) : more[i].ip = c) <=>
                          Advertised(advertisements, c) /\ ServiceOf[c] \in Expired
  <1> DEFINE n == Cardinality(Expired)
             f == SetToSeq(Expired)
             more == [i \in 1..n |-> RemoveEvent(advertisements[f[i]].ip)]
  <1>1. events' = events \o more
    BY DEF Expire
  <1>2. Expired \subseteq DOMAIN advertisements /\ IsFiniteSet(Expired)
    BY FS_Subset DEF TypeOK, Expired
  <1>3. n \in Nat /\ f \in [1..n -> Expired] /\ \A s \in Expired : \E i \in 1..n : f[i] = s
    BY <1>2, SetToSeqIs
  <1>4. \A s \in DOMAIN advertisements :
            advertisements[s].ip \in Cameras /\ ServiceOf[advertisements[s].ip] = s
    BY DEF TypeOK, KeysInv
  <1> HIDE DEF n, f
  <1>5. \A i \in 1..n : /\ RemoveEvent(advertisements[f[i]].ip) \in Event
                        /\ more[i].type = "Remove" /\ more[i].ip = advertisements[f[i]].ip
    BY <1>2, <1>3, <1>4 DEF RemoveEvent, Event
  <1>6. more \in Seq(Event) /\ Len(more) = n
    BY <1>3, <1>5
  <1> HIDE DEF more
  <1>7. \A c \in Cameras :
            (\E i \in 1..n : more[i].ip = c) <=>
                Advertised(advertisements, c) /\ ServiceOf[c] \in Expired
    BY <1>2, <1>3, <1>4, <1>5 DEF Advertised
  <1> QED
    BY <1>1, <1>5, <1>6, <1>7

\* Old entries go, and the application will be told.
LEMMA ExpireKeeps ==
    ASSUME IInv, Expire
    PROVE  IInv'
  <1>1. TypeOK /\ KeysInv /\ Matches
    BY MatchesNow DEF IInv
  <1>2. PICK more \in Seq(Event) :
               /\ events' = events \o more
               /\ \A i \in 1..Len(more) : more[i].type = "Remove"
               /\ \A c \in Cameras :
                      (\E i \in 1..Len(more) : more[i].ip = c) <=>
                          Advertised(advertisements, c) /\ ServiceOf[c] \in Expired
    BY <1>1, ExpireIs
  <1>3. /\ IsFiniteSet(DOMAIN advertisements') /\ KeysInv'
        /\ advertisements' \in [DOMAIN advertisements' -> [ip : Cameras, left : Int]]
        /\ \A c \in Cameras :
               Advertised(advertisements', c) <=>
                   Advertised(advertisements, c) /\ ServiceOf[c] \notin Expired
    BY <1>1, DroppedIs DEF Expire
  <1>4. events \in Seq(Event) /\ events \o more \in Seq(Event)
    BY <1>1, ConcatProperties DEF TypeOK
  <1>5. pc' = "pop" /\ UNCHANGED <<multicast, unicast, known>>
    BY DEF Expire, Goto
  <1>6. TypeOK' /\ FetchInv' /\ MessagesInv'
    BY <1>1, <1>2, <1>3, <1>4, <1>5 DEF IInv, TypeOK, FetchInv, MessagesInv
  <1>7. \A c \in Cameras : Knows(known, events \o more, c) <=>
            Knows(known, events, c) /\ ~(\E i \in 1..Len(more) : more[i].ip = c)
    <2>1. \A i \in 1..Len(more) : more[i].type = "Remove"
      BY <1>2
    <2>2. events \in Seq(Event)
      BY <1>4
    <2>3. ASSUME NEW c \in Cameras
          PROVE  Knows(known, events \o more, c) <=>
                     Knows(known, events, c) /\ \A i \in 1..Len(more) : more[i].ip # c
      BY <2>1, <2>2, KnowsRemoved
    <2> QED
      BY <2>3
  <1>8. Matches'
    BY <1>1, <1>2, <1>3, <1>5, <1>7 DEF Matches
  <1> QED
    BY <1>3, <1>6, <1>8, MatchesNext DEF IInv

\* The application takes an event.
LEMMA PopKeeps ==
    ASSUME IInv, Pop
    PROVE  IInv'
  <1>1. pc' = "idle" /\ UNCHANGED <<multicast, unicast, current, advertisements>>
    BY DEF Pop, Goto
  <1>2. CASE events = <<>>
    BY <1>1, <1>2 DEF Pop, IInv, TypeOK, MessagesInv, KeysInv, FetchInv,
                      EventsMatchAdvertisements, Caught
  <1>3. CASE events # <<>>
    <2>1. events' = Tail(events) /\ known' = Learn(known, Head(events))
      BY <1>3 DEF Pop
    <2>2. /\ events \in Seq(Event) /\ Tail(events) \in Seq(Event)
          /\ Head(events) \in Event /\ known \subseteq Cameras
      BY <1>3, HeadTailProperties DEF IInv, TypeOK
    <2>3. Learn(known, Head(events)) \subseteq Cameras
      BY <2>2 DEF Learn, Event
    <2>4. TypeOK' /\ MessagesInv' /\ KeysInv' /\ FetchInv'
      BY <1>1, <2>1, <2>2, <2>3 DEF IInv, TypeOK, MessagesInv, KeysInv, FetchInv
    <2>5. Matches'
      BY <1>1, <1>3, <2>1, <2>2, KnowsPop, MatchesNow DEF Matches
    <2> QED
      BY <2>4, <2>5, MatchesNext DEF IInv
  <1> QED
    BY <1>2, <1>3

\* Cameras of distinct services: the invariant holds.
THEOREM Invariance ==
    ASSUME DistinctServices
    PROVE  Spec => []IInv
  <1>1. Init => IInv
    BY InitIInv
  <1>2. IInv /\ [Next]_vars => IInv'
    <2> SUFFICES ASSUME IInv, [Next]_vars PROVE IInv'
      OBVIOUS
    <2>1. Queue(multicast) /\ Queue(unicast)
      BY DEF IInv, TypeOK, MessagesInv, Queue
    <2>2. CASE ReadMulticast
      <3>1. /\ Head(multicast) \in Message /\ OwnService(Head(multicast))
            /\ Queue(multicast') /\ Queue(unicast')
        BY <2>1, <2>2, QueueTail DEF ReadMulticast
      <3> QED
        BY <2>2, <3>1, HandleKeeps DEF ReadMulticast
    <2>3. CASE ReadUnicast
      <3>1. /\ Head(unicast) \in Message /\ OwnService(Head(unicast))
            /\ Queue(multicast') /\ Queue(unicast')
        BY <2>1, <2>3, QueueTail DEF ReadUnicast
      <3> QED
        BY <2>3, <3>1, HandleKeeps DEF ReadUnicast
    <2>4. CASE Poll \/ Drained \/ FetchFails
      <3>1. /\ pc' \in {"idle", "multicast", "unicast", "expire"}
            /\ UNCHANGED <<multicast, unicast, advertisements, events, known>>
        BY <2>4 DEF Poll, Drained, FetchFails, Goto, After
      <3> QED
        BY <3>1 DEF IInv, TypeOK, MessagesInv, KeysInv, FetchInv,
                    EventsMatchAdvertisements, Caught
    <2>5. CASE UNCHANGED vars
      BY <2>5 DEF vars, IInv, TypeOK, MessagesInv, KeysInv, FetchInv,
                  EventsMatchAdvertisements, Caught
    <2> QED
      BY <2>2, <2>3, <2>4, <2>5, FetchedKeeps, ExpireKeeps, PopKeeps, EnvironmentKeeps
         DEF Next, PollStep
  <1> QED
    BY <1>1, <1>2, PTL DEF Spec

\* The events tell the application exactly the addresses that are advertised.
THEOREM EventsTellAll ==
    ASSUME DistinctServices
    PROVE  Spec => []EventsMatchAdvertisements
  <1>1. IInv => EventsMatchAdvertisements
    BY DEF IInv
  <1> QED
    BY <1>1, Invariance, PTL

\* A camera that is added is none that the application knows or will have
\* learnt of by the events that wait.
THEOREM NeverAddedTwice ==
    ASSUME DistinctServices
    PROVE  Spec => NoSecondAdd
  <1>1. IInv /\ [Next]_vars =>
            [Len(events') > Len(events) /\ Last(events').type = "Add"
               => Last(events').ip \notin Caught]_vars
    <2> SUFFICES ASSUME IInv, Next, Len(events') > Len(events),
                        Last(events').type = "Add"
                 PROVE  Last(events').ip \notin Caught
      OBVIOUS
    <2>1. events \in Seq(Event) /\ Len(events) \in Nat /\ TypeOK /\ KeysInv /\ Matches
      BY MatchesNow DEF IInv, TypeOK
    <2>2. ASSUME NEW e \in Event, events' = Append(events, e)
          PROVE  Last(events') = e
      BY <2>1, <2>2, AppendProperties DEF Last
    <2>3. UNCHANGED events => FALSE
      BY <2>1
    <2>4. CASE Fetched
      <3> DEFINE m == current.message
      <3>1. /\ m \in Message /\ OwnService(m) /\ m.kind \in {"alive", "response"}
            /\ m.service \notin DOMAIN advertisements
            /\ events' = Append(events, AddEvent(m.from))
        BY <2>4 DEF Fetched, IInv, FetchInv
      <3> HIDE DEF m
      <3>2. m.from \in Cameras /\ ServiceOf[m.from] = m.service
        BY <3>1 DEF Message, Noise, OwnService
      <3>3. Last(events') = AddEvent(m.from)
        BY <2>2, <3>1, <3>2 DEF AddEvent, Event
      <3>4. ~Advertised(advertisements, m.from)
        BY <3>1, <3>2 DEF Advertised
      <3> QED
        BY <2>1, <3>2, <3>3, <3>4 DEF Matches, Caught, AddEvent
    <2>5. CASE Expire
      <3>1. PICK more \in Seq(Event) :
                /\ events' = events \o more
                /\ \A i \in 1..Len(more) : more[i].type = "Remove"
        BY <2>1, <2>5, ExpireIs
      <3>2. /\ Len(events') = Len(events) + Len(more) /\ Len(more) \in Nat
            /\ \A i \in 1..Len(events) + Len(more) :
                   events'[i] = IF i <= Len(events) THEN events[i]
                                ELSE more[i - Len(events)]
        BY <2>1, <3>1, ConcatProperties
      <3>3. Len(more) \in 1..Len(more)
        BY <2>1, <3>2
      <3>4. Last(events') = more[Len(more)]
        BY <2>1, <3>2, <3>3 DEF Last
      <3> QED
        BY <3>1, <3>3, <3>4
    <2>6. CASE Pop
      <3>1. events # <<>> => Len(Tail(events)) = Len(events) - 1
        BY <2>1
      <3> QED
        BY <2>1, <2>3, <2>6, <3>1 DEF Pop
    <2>7. CASE Environment
      BY <2>3, <2>7 DEF Environment, Send, Vanish, Disturb, Tick, Arrives
    <2>8. CASE ReadMulticast \/ ReadUnicast
      <3>1. PICK m \in Message : Handle(m) /\ OwnService(m)
        <4>1. Queue(multicast) /\ Queue(unicast)
          BY DEF IInv, TypeOK, MessagesInv, Queue
        <4> QED
          BY <2>8, <4>1, QueueTail DEF ReadMulticast, ReadUnicast
      <3>2. Goodbye(m) /\ m.kind = "byebye"
        BY <2>3, <3>1 DEF Handle, Process
      <3>3. RemoveEvent(m.from) \in Event /\ events' = Append(events, RemoveEvent(m.from))
        BY <3>1, <3>2 DEF Goodbye, RemoveEvent, Event, Message, Noise
      <3> QED
        BY <2>2, <3>3 DEF RemoveEvent
    <2>9. CASE Poll \/ Drained \/ FetchFails
      BY <2>3, <2>9 DEF Poll, Drained, FetchFails
    <2> QED
      BY <2>4, <2>5, <2>6, <2>7, <2>8, <2>9 DEF Next, PollStep
  <1> QED
    BY <1>1, Invariance, PTL DEF Spec, NoSecondAdd
=============================================================================
