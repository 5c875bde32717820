------------------------ MODULE CanonProperties_proofs -------------------------
(***************************************************************************)
(* CanonProperties: what an application knows of the camera's settings once*)
(* it has read all events, for any dials, any number of changes, and any   *)
(* tables in which no code and no value is twice.                          *)
(***************************************************************************)
EXTENDS CanonProperties, SequenceTheorems, FiniteSetTheorems, TLAPS

USE DEF appVars, historyVars, cameraVars

(***************************************************************************)
(* The tables.                                                             *)
(***************************************************************************)

\* A key is found at the one place of its value.
LEMMA FindKeyIs ==
    ASSUME NEW map, Invertible(map), NEW x
    PROVE  /\ \A i \in DOMAIN map : map[i][2] = x => FindKey(map, x) = <<map[i][1]>>
           /\ (\A i \in DOMAIN map : map[i][2] # x) => FindKey(map, x) = <<>>
  <1>1. ASSUME NEW i \in DOMAIN map, map[i][2] = x
        PROVE  FindKey(map, x) = <<map[i][1]>>
    <2> DEFINE P(k) == map[k][2] = x /\ \A j \in DOMAIN map : j < k => map[j][2] # x
    <2>1. \A k \in DOMAIN map : map[k][2] = x => k = i
      BY <1>1 DEF Invertible
    <2>2. P(i)
      BY <1>1, <2>1 DEF Invertible
    <2>3. \A k \in DOMAIN map : P(k) => k = i
      BY <2>1
    <2>4. First(map, 2, x) = CHOOSE k \in DOMAIN map : P(k)
      BY DEF First
    <2> HIDE DEF P
    <2>5. First(map, 2, x) = i
      BY <2>2, <2>3, <2>4
    <2> QED
      BY <1>1, <2>5 DEF FindKey
  <1> QED
    BY <1>1 DEF FindKey

\* A value is found at the one place of its key.
LEMMA FindValueIs ==
    ASSUME NEW map, Invertible(map), NEW x
    PROVE  /\ \A i \in DOMAIN map : map[i][1] = x => FindValue(map, x) = <<map[i][2]>>
           /\ (\A i \in DOMAIN map : map[i][1] # x) => FindValue(map, x) = <<>>
  <1>1. ASSUME NEW i \in DOMAIN map, map[i][1] = x
        PROVE  FindValue(map, x) = <<map[i][2]>>
    <2> DEFINE P(k) == map[k][1] = x /\ \A j \in DOMAIN map : j < k => map[j][1] # x
    <2>1. \A k \in DOMAIN map : map[k][1] = x => k = i
      BY <1>1 DEF Invertible
    <2>2. P(i)
      BY <1>1, <2>1 DEF Invertible
    <2>3. \A k \in DOMAIN map : P(k) => k = i
      BY <2>1
    <2>4. First(map, 1, x) = CHOOSE k \in DOMAIN map : P(k)
      BY DEF First
    <2> HIDE DEF P
    <2>5. First(map, 1, x) = i
      BY <2>2, <2>3, <2>4
    <2> QED
      BY <1>1, <2>5 DEF FindValue
  <1> QED
    BY <1>1 DEF FindValue

\* Two codes of one property are the same.
LEMMA OneCodeEach ==
    ASSUME NEW c, NEW d, NEW p,
           FindKey(EOSProps, c) = <<p>>, FindKey(EOSProps, d) = <<p>>
    PROVE  c = d
  <1>1. Invertible(EOSProps)
    BY TablesAreInvertible
  <1>2. PICK i \in DOMAIN EOSProps : EOSProps[i][2] = c /\ EOSProps[i][1] = p
    BY <1>1, FindKeyIs
  <1>3. PICK j \in DOMAIN EOSProps : EOSProps[j][2] = d /\ EOSProps[j][1] = p
    BY <1>1, FindKeyIs
  <1> QED
    BY <1>1, <1>2, <1>3 DEF Invertible

\* A change is translated to nothing, or to one event, from whose value
\* setProp() would get the camera's code again.
LEMMA TranslatedIs ==
    ASSUME NEW c \in Reported
    PROVE  \/ Translated(c) = <<>>
           \/ \E e \in Event :
                  /\ Translated(c) = <<e>> /\ e.type = "SetProp" /\ e.prop \in Props
                  /\ FindKey(EOSProps, c.code) = <<e.prop>>
                  /\ FindKey(EOSPropValues[e.prop], e.value) = <<c.value>>
  <1> DEFINE prop == FindKey(EOSProps, c.code)
             map == EOSPropValues[prop[1]]
             value == FindValue(map, c.value)
             e == [type |-> "SetProp", prop |-> prop[1], value |-> value[1]]
  <1> SUFFICES ASSUME Translated(c) # <<>>
               PROVE  /\ Translated(c) = <<e>> /\ e \in Event /\ e.prop \in Props
                      /\ prop = <<e.prop>> /\ FindKey(map, e.value) = <<c.value>>
    <2>1. e.type = "SetProp" /\ EOSPropValues[e.prop] = map
      OBVIOUS
    <2> QED
      BY <2>1
  <1>1. prop # <<>> /\ prop[1] \in Props /\ value # <<>> /\ Translated(c) = <<e>>
    BY DEF Translated
  <1>2. prop = <<prop[1]>>
    <2>1. Invertible(EOSProps)
      BY TablesAreInvertible
    <2>2. PICK i \in DOMAIN EOSProps : EOSProps[i][2] = c.code
      BY <1>1, <2>1, FindKeyIs
    <2>3. prop = <<EOSProps[i][1]>>
      BY <2>1, <2>2, FindKeyIs
    <2> HIDE DEF prop
    <2> QED
      BY <2>3
  <1>3. Invertible(map)
    BY <1>1, TablesAreInvertible
  <1> HIDE DEF map
  <1>4. PICK i \in DOMAIN map : map[i][1] = c.value
    BY <1>1, <1>3, FindValueIs
  <1>5. value = <<map[i][2]>>
    BY <1>3, <1>4, FindValueIs
  <1> HIDE DEF value
  <1>6. value[1] = map[i][2] /\ FindKey(map, map[i][2]) = <<c.value>>
    BY <1>3, <1>4, <1>5, FindKeyIs
  <1>7. value[1] \in Values
    BY SMTT(40), <1>1, <1>4, <1>6 DEF Values, map
  <1> HIDE DEF prop
  <1>8. e \in Event /\ e.prop = prop[1] /\ e.value = value[1]
    BY <1>1, <1>7 DEF Event
  <1> QED
    BY <1>1, <1>2, <1>6, <1>8

(***************************************************************************)
(* The last of a kind in a sequence.                                       *)
(***************************************************************************)

\* In an empty sequence there is none.
LEMMA NoneInEmpty == ASSUME NEW S PROVE HasNone(<<>>, S)
  BY DEF HasNone

\* What is appended is the last.
LEMMA EndsAppend ==
    ASSUME NEW X, NEW q \in Seq(X), NEW e \in X, NEW S, NEW G \in SUBSET S
    PROVE  /\ EndsWith(Append(q, e), S, G) <=> IF e \in S THEN e \in G ELSE EndsWith(q, S, G)
           /\ HasNone(Append(q, e), S) <=> (e \notin S /\ HasNone(q, S))
  <1> DEFINE n == Len(q)
             l == Append(q, e)
  <1>1. /\ n \in Nat /\ DOMAIN q = 1..n /\ DOMAIN l = 1..n + 1
        /\ l[n + 1] = e /\ \A i \in 1..n : l[i] = q[i]
    BY AppendProperties
  <1>2. \A i \in 1..n + 1 : i \in 1..n \/ i = n + 1
    BY <1>1
  <1>3. \A i \in 1..n : i \in 1..n + 1 /\ i < n + 1
    BY <1>1
  <1>4. n + 1 \in 1..n + 1 /\ \A i \in 1..n + 1 : ~(n + 1 < i)
    BY <1>1
  <1> HIDE DEF n, l
  <1>5. HasNone(l, S) <=> (e \notin S /\ HasNone(q, S))
    BY <1>1, <1>2, <1>3, <1>4 DEF HasNone
  <1>6. CASE e \in S
    <2>1. ASSUME e \in G PROVE EndsWith(l, S, G)
      BY <1>1, <1>4, <2>1 DEF EndsWith
    <2>2. ASSUME EndsWith(l, S, G) PROVE e \in G
      <3>1. PICK i \in 1..n + 1 : l[i] \in G /\ \A j \in 1..n + 1 : i < j => l[j] \notin S
        BY <1>1, <2>2 DEF EndsWith
      <3>2. i = n + 1
        BY <1>1, <1>2, <1>3, <1>4, <1>6, <3>1
      <3> QED
        BY <1>1, <3>1, <3>2
    <2>3. EndsWith(l, S, G) <=> e \in G
      BY <2>1, <2>2
    <2> QED
      BY <1>5, <1>6, <2>3 DEF l
  <1>7. CASE e \notin S
    <2>1. ASSUME EndsWith(q, S, G) PROVE EndsWith(l, S, G)
      <3>1. PICK i \in 1..n : q[i] \in G /\ \A j \in 1..n : i < j => q[j] \notin S
        BY <1>1, <2>1 DEF EndsWith
      <3>2. i \in 1..n + 1 /\ l[i] \in G
        BY <1>1, <1>3, <3>1
      <3>3. \A j \in 1..n + 1 : i < j => l[j] \notin S
        BY <1>1, <1>2, <1>7, <3>1
      <3> QED
        BY <1>1, <3>2, <3>3 DEF EndsWith
    <2>2. ASSUME EndsWith(l, S, G) PROVE EndsWith(q, S, G)
      <3>1. PICK i \in 1..n + 1 : l[i] \in G /\ \A j \in 1..n + 1 : i < j => l[j] \notin S
        BY <1>1, <2>2 DEF EndsWith
      <3>2. i \in 1..n
        BY <1>1, <1>2, <1>7, <3>1
      <3>3. q[i] \in G /\ \A j \in 1..n : i < j => q[j] \notin S
        BY <1>1, <1>3, <3>1, <3>2
      <3> QED
        BY <1>1, <3>2, <3>3 DEF EndsWith
    <2>3. EndsWith(l, S, G) <=> EndsWith(q, S, G)
      BY <2>1, <2>2
    <2> QED
      BY <1>5, <1>7, <2>3 DEF l
  <1> QED
    BY <1>6, <1>7

\* What is taken from the front is the last only when no other is behind it.
LEMMA EndsTail ==
    ASSUME NEW X, NEW q \in Seq(X), q # <<>>, NEW S, NEW G
    PROVE  /\ EndsWith(q, S, G) <=> \/ EndsWith(Tail(q), S, G)
                                    \/ (HasNone(Tail(q), S) /\ Head(q) \in G)
           /\ HasNone(q, S) <=> (Head(q) \notin S /\ HasNone(Tail(q), S))
  <1> DEFINE n == Len(q)
             t == Tail(q)
             h == Head(q)
  <1>1. /\ n \in Nat \ {0} /\ DOMAIN q = 1..n /\ DOMAIN t = 1..n - 1
        /\ h = q[1] /\ \A i \in 1..n - 1 : t[i] = q[i + 1]
    BY HeadTailProperties
  <1>2. \A i \in 1..n : i = 1 \/ \E k \in 1..n - 1 : i = k + 1 /\ q[i] = t[k]
    <2>1. ASSUME NEW i \in 1..n, i # 1
          PROVE  i - 1 \in 1..n - 1 /\ i = i - 1 + 1
      BY <1>1, <2>1
    <2>2. ASSUME NEW i \in 1..n, i # 1
          PROVE  i - 1 \in 1..n - 1 /\ q[i] = t[i - 1]
      BY <1>1, <2>1, <2>2
    <2> QED
      BY <2>1, <2>2
  <1>3. \A i \in 1..n - 1 : i + 1 \in 1..n /\ 1 < i + 1 /\ q[i + 1] = t[i]
    <2>1. \A i \in 1..n - 1 : i + 1 \in 1..n /\ 1 < i + 1
      BY <1>1
    <2> QED
      BY <1>1, <2>1
  <1>4. \A i, j \in 1..n - 1 : i < j <=> i + 1 < j + 1
    BY <1>1
  <1>5. 1 \in 1..n /\ ~(1 < 1) /\ \A i \in 1..n - 1 : ~(i + 1 < 1)
    BY <1>1
  <1> HIDE DEF n, t, h
  <1>6. HasNone(q, S) <=> (h \notin S /\ HasNone(t, S))
    BY <1>1, <1>2, <1>3, <1>5 DEF HasNone
  <1>7. ASSUME EndsWith(q, S, G)
        PROVE  EndsWith(t, S, G) \/ (HasNone(t, S) /\ h \in G)
    <2>1. PICK i \in 1..n : q[i] \in G /\ \A j \in 1..n : i < j => q[j] \notin S
      BY <1>1, <1>7 DEF EndsWith
    <2>2. CASE i = 1
      <3>1. \A k \in 1..n - 1 : t[k] \notin S
        BY <1>3, <2>1, <2>2
      <3> QED
        BY <1>1, <2>1, <2>2, <3>1 DEF HasNone
    <2>3. CASE i # 1
      <3>1. PICK k \in 1..n - 1 : i = k + 1 /\ q[i] = t[k]
        BY <1>2, <2>3
      <3>2. \A j \in 1..n - 1 : k < j => t[j] \notin S
        BY <1>3, <1>4, <2>1, <3>1
      <3> QED
        BY <1>1, <2>1, <3>1, <3>2 DEF EndsWith
    <2> QED
      BY <2>2, <2>3
  <1>8. ASSUME EndsWith(t, S, G) PROVE EndsWith(q, S, G)
    <2>1. PICK k \in 1..n - 1 : t[k] \in G /\ \A j \in 1..n - 1 : k < j => t[j] \notin S
      BY <1>1, <1>8 DEF EndsWith
    <2>2. k + 1 \in 1..n /\ q[k + 1] \in G
      BY <1>3, <2>1
    <2>3. \A j \in 1..n : k + 1 < j => q[j] \notin S
      BY <1>2, <1>4, <1>5, <2>1
    <2> QED
      BY <1>1, <2>2, <2>3 DEF EndsWith
  <1>9. ASSUME HasNone(t, S), h \in G PROVE EndsWith(q, S, G)
    <2>1. \A j \in 1..n : 1 < j => q[j] \notin S
      BY <1>1, <1>2, <1>5, <1>9 DEF HasNone
    <2> QED
      BY <1>1, <1>5, <1>9, <2>1 DEF EndsWith
  <1> QED
    BY <1>6, <1>7, <1>8, <1>9 DEF t, h

\* Every element of a finite set is at one place of its sequence.
LEMMA SetToSeqIs ==
    ASSUME NEW S, IsFiniteSet(S), NEW s, s = SetToSeq(S)
    PROVE  \E n \in Nat :
              /\ s \in [1..n -> S]
              /\ \A x \in S : \E i \in 1..n : s[i] = x
              /\ \A i, j \in 1..n : s[i] = s[j] => i = j
  <1> DEFINE n == Cardinality(S)
  <1>1. n \in Nat /\ ExistsBijection(1..n, S)
    BY FS_CardinalityType
  <1>2. \E f \in [1..n -> S] : IsInjective(f)
    BY <1>1 DEF ExistsBijection, Bijection, Injection
  <1>3. s \in [1..n -> S] /\ IsInjective(s)
    BY <1>2 DEF SetToSeq
  <1>4. IsFiniteSet(1..n) /\ Cardinality(1..n) = n
    BY <1>1, FS_Interval
  <1>5. s \in Injection(1..n, S)
    BY <1>3 DEF Injection
  <1>6. s \in Surjection(1..n, S)
    BY <1>4, <1>5, FS_Injection
  <1>7. \A x \in S : \E i \in 1..n : s[i] = x
    BY <1>6 DEF Surjection
  <1>8. \A i, j \in 1..n : s[i] = s[j] => i = j
    BY <1>3 DEF IsInjective
  <1> HIDE DEF n
  <1> QED
    BY <1>1, <1>3, <1>7, <1>8

(***************************************************************************)
(* What is on its way.                                                     *)
(***************************************************************************)

\* The codes of the dials are numbers.
LEMMA DialsAreNumbers ==
    ASSUME NEW c \in Codes
    PROVE  /\ Len(Dial[c]) \in Nat /\ 1 \in 1..Len(Dial[c])
           /\ \A i \in 1..Len(Dial[c]) : Dial[c][i] \in Nat
           /\ \A v \in ToSet(Dial[c]) : v \in Nat
  <1>1. Dial[c] \in Seq(Nat) /\ Dial[c] # <<>>
    BY PropertiesAssumption
  <1> QED
    BY <1>1 DEF ToSet

\* A change that is translated is of the property that has its code.
LEMMA ChangeIs ==
    ASSUME NEW c \in Reported, NEW p \in Props, c \in ChangesOf(p)
    PROVE  FindKey(EOSProps, c.code) = <<p>>
  <1>1. Translated(c) # <<>> /\ Translated(c)[1].prop = p
    BY DEF ChangesOf
  <1>2. PICK e \in Event : Translated(c) = <<e>> /\ FindKey(EOSProps, c.code) = <<e.prop>>
    BY <1>1, TranslatedIs
  <1>3. Translated(c)[1] = e
    BY <1>2
  <1> QED
    BY <1>1, <1>2, <1>3

\* The last changes are changes, the last events events.
LEMMA LastAreSome ==
    ASSUME NEW p \in Props
    PROVE  LastChangesOf(p) \in SUBSET ChangesOf(p) /\ LastEventsOf(p) \in SUBSET EventsOf(p)
  BY DEF LastChangesOf, LastEventsOf

\* After connect() all settings are still to be reported.
LEMMA InitIInv == Init => IInv
  <1> SUFFICES ASSUME Init PROVE IInv
    OBVIOUS
  <1> DEFINE T == {Change(c, settings[c]) : c \in Codes}
             f == [c \in Codes |-> Change(c, settings[c])]
  <1>1. settings \in [Codes -> Nat] /\ changes = SetToSeq(T)
    <2>1. settings = [c \in Codes |-> Dial[c][1]] /\ changes = SetToSeq(T)
      BY DEF Init
    <2> QED
      BY <2>1, DialsAreNumbers
  <1>2. \A c \in Codes : /\ Change(c, settings[c]) \in Reported
                         /\ Change(c, settings[c]).code = c
                         /\ Change(c, settings[c]).value = settings[c]
    BY <1>1 DEF Change, Reported
  <1>3. IsFiniteSet(T)
    <2>1. f \in Surjection(Codes, T)
      BY DEF Surjection
    <2> QED
      BY <2>1, FS_Surjection, PropertiesAssumption
  <1>4. PICK n \in Nat : /\ changes \in [1..n -> T]
                         /\ \A x \in T : \E i \in 1..n : changes[i] = x
                         /\ \A i, j \in 1..n : changes[i] = changes[j] => i = j
    <2> HIDE DEF T, f
    <2> QED
      BY SMTT(40), <1>1, <1>3, SetToSeqIs
  <1>5. \A i \in 1..n : \E c \in Codes : changes[i] = Change(c, settings[c])
    BY <1>4
  <1>6. \A c \in Codes : \E i \in 1..n : changes[i] = Change(c, settings[c])
    BY <1>4
  <1>7. changes \in Seq(Reported) /\ DOMAIN changes = 1..n
    <2>1. changes \in [1..n -> Reported]
      BY <1>2, <1>4, <1>5
    <2> QED
      BY <2>1
  <1> DEFINE Told(p) == {c \in Codes : /\ FindKey(EOSProps, c) = <<p>>
                                       /\ Translated(Change(c, settings[c])) # <<>>}
  <1>8. /\ batch = <<>> /\ events = <<>> /\ view = [p \in Props |-> <<>>]
        /\ warned = FALSE /\ isOpen = TRUE
        /\ lastKnown = [p \in Props |-> IF Told(p) = {} THEN <<>>
                                        ELSE <<settings[CHOOSE c \in Told(p) : TRUE]>>]
    BY DEF Init
  <1> HIDE DEF T, f
  <1>9. \A p \in Props : IF Told(p) = {} THEN lastKnown[p] = <<>>
                         ELSE \E c \in Told(p) : lastKnown[p] = <<settings[c]>>
    BY <1>8
  <1>10. TypeOK
    <2>1. \A p \in Props : lastKnown[p] \in Seq(Nat)
      <3> TAKE p \in Props
      <3>1. CASE Told(p) = {}
        BY <1>9, <3>1, EmptySeq
      <3>2. CASE Told(p) # {}
        <4>1. PICK c \in Told(p) : lastKnown[p] = <<settings[c]>>
          BY <1>9, <3>2
        <4> QED
          BY <1>1, <4>1
      <3> QED
        BY <3>1, <3>2
    <2>2. lastKnown \in [Props -> Seq(Nat)]
      BY <1>8, <2>1
    <2>3. batch \in Seq(Reported) /\ events \in Seq(Event) /\ view \in [Props -> Seq(Values)]
      BY <1>8, EmptySeq
    <2> QED
      BY <1>1, <1>7, <1>8, <2>2, <2>3 DEF TypeOK
  <1>11. ASSUME NEW p \in Props PROVE OnItsWay(p)
    <2>1. \A i \in 1..n : changes[i] \in ChangesOf(p) =>
              \E c \in Told(p) : changes[i] = Change(c, settings[c])
      <3> TAKE i \in 1..n
      <3> HAVE changes[i] \in ChangesOf(p)
      <3>1. PICK c \in Codes : changes[i] = Change(c, settings[c])
        BY <1>5
      <3>2. FindKey(EOSProps, c) = <<p>>
        BY <1>2, <3>1, ChangeIs
      <3> QED
        BY <3>1, <3>2 DEF ChangesOf
    <2>2. CASE Told(p) = {}
      <3>1. HasNone(changes, ChangesOf(p))
        BY <1>7, <2>1, <2>2 DEF HasNone
      <3>2. /\ HasNone(batch, ChangesOf(p)) /\ HasNone(events, EventsOf(p))
            /\ lastKnown[p] = <<>> /\ view[p] = <<>>
        BY <1>8, <1>9, <2>2, NoneInEmpty
      <3> QED
        BY <3>1, <3>2 DEF OnItsWay
    <2>3. CASE Told(p) # {}
      <3>1. PICK c \in Told(p) : lastKnown[p] = <<settings[c]>>
        BY <1>9, <2>3
      <3>2. c \in Codes /\ FindKey(EOSProps, c) = <<p>>
            /\ Translated(Change(c, settings[c])) # <<>>
        OBVIOUS
      <3> DEFINE x == Change(c, settings[c])
      <3>3. x \in LastChangesOf(p)
        <4>1. x \in Reported /\ x.code = c /\ x.value = settings[c]
          BY <1>2, <3>2
        <4>2. PICK e \in Event : Translated(x) = <<e>> /\ FindKey(EOSProps, x.code) = <<e.prop>>
          BY <3>2, <4>1, TranslatedIs
        <4>3. Translated(x)[1] = e /\ e.prop = p
          <5>1. <<e.prop>>[1] = <<p>>[1]
            BY <3>2, <4>1, <4>2
          <5> QED
            BY <4>2, <5>1
        <4> QED
          BY <3>1, <3>2, <4>1, <4>3 DEF LastChangesOf, ChangesOf
      <3>4. PICK i \in 1..n : changes[i] = x
        BY <1>6, <3>2
      <3>5. ASSUME NEW j \in 1..n, i < j, changes[j] \in ChangesOf(p)
            PROVE  FALSE
        <4>1. PICK d \in Told(p) : changes[j] = Change(d, settings[d])
          BY <2>1, <3>5
        <4>2. d = c
          BY <3>2, OneCodeEach
        <4>3. changes[i] = changes[j]
          BY <3>4, <4>1, <4>2
        <4> QED
          BY <1>4, <3>5, <4>3
      <3>6. EndsWith(changes, ChangesOf(p), LastChangesOf(p))
        BY <1>7, <3>3, <3>4, <3>5 DEF EndsWith
      <3> QED
        BY <3>6 DEF OnItsWay
    <2> QED
      BY <2>2, <2>3
  <1> QED
    BY <1>10, <1>11 DEF IInv

(***************************************************************************)
(* One lemma per action.                                                   *)
(***************************************************************************)

\* A change of a setting is the last of its property.
LEMMA TakeKeeps ==
    ASSUME IInv, NEW code \in Codes, NEW value \in Nat, Take(code, value),
           UNCHANGED <<batch, events, appVars, isOpen>>
    PROVE  IInv'
  <1> DEFINE c == Change(code, value)
  <1>1. TypeOK /\ c \in Reported /\ c.code = code /\ c.value = value
    BY DEF IInv, Change, Reported
  <1>2. changes' = Append(changes, c) /\ settings' = [settings EXCEPT ![code] = value]
        /\ NoteKnown(c)
    BY DEF Take
  <1> HIDE DEF c
  <1>3. TypeOK'
    <2>1. settings' \in [Codes -> Nat] /\ changes' \in Seq(Reported)
      BY <1>1, <1>2, AppendProperties DEF TypeOK
    <2>2. lastKnown' \in [Props -> Seq(Nat)]
      <3>1. CASE Translated(c) = <<>>
        BY <1>1, <1>2, <3>1 DEF TypeOK, NoteKnown
      <3>2. CASE Translated(c) # <<>>
        <4>1. lastKnown' = [lastKnown EXCEPT ![Translated(c)[1].prop] = <<value>>]
          BY <1>1, <1>2, <3>2 DEF NoteKnown
        <4>2. <<value>> \in Seq(Nat)
          OBVIOUS
        <4> QED
          BY <1>1, <4>1, <4>2 DEF TypeOK
      <3> QED
        BY <3>1, <3>2
    <2> QED
      BY <1>1, <2>1, <2>2 DEF TypeOK
  <1>4. ASSUME NothingLost', NEW p \in Props PROVE OnItsWay(p)'
    <2>1. NothingLost /\ OnItsWay(p)
      BY <1>4 DEF NothingLost, IInv
    <2>2. CASE c \in ChangesOf(p)
      <3>1. Translated(c) # <<>> /\ Translated(c)[1].prop = p
        BY <2>2 DEF ChangesOf
      <3>2. lastKnown'[p] = <<value>>
        BY <1>1, <1>2, <3>1 DEF NoteKnown, TypeOK
      <3>3. c \in LastChangesOf(p)' /\ LastChangesOf(p)' \in SUBSET ChangesOf(p)
        BY <1>1, <2>2, <3>2 DEF LastChangesOf
      <3>4. EndsWith(changes', ChangesOf(p), LastChangesOf(p)')
        BY <1>1, <1>2, <2>2, <3>3, EndsAppend DEF TypeOK
      <3> QED
        BY <3>4 DEF OnItsWay, ChangesOf
    <2>3. CASE c \notin ChangesOf(p)
      <3>1. lastKnown'[p] = lastKnown[p]
        <4>1. CASE Translated(c) = <<>>
          BY <1>2, <4>1 DEF NoteKnown
        <4>2. CASE Translated(c) # <<>>
          <5>1. Translated(c)[1].prop # p
            BY <1>1, <2>3, <4>2 DEF ChangesOf
          <5> QED
            BY <1>1, <1>2, <4>2, <5>1 DEF NoteKnown, TypeOK
        <4> QED
          BY <4>1, <4>2
      <3>2. LastChangesOf(p)' = LastChangesOf(p) /\ LastEventsOf(p)' = LastEventsOf(p)
        BY <3>1 DEF LastChangesOf, LastEventsOf
      <3>3. /\ EndsWith(changes', ChangesOf(p), LastChangesOf(p))
                  <=> EndsWith(changes, ChangesOf(p), LastChangesOf(p))
            /\ HasNone(changes', ChangesOf(p)) <=> HasNone(changes, ChangesOf(p))
        BY <1>1, <1>2, <2>3, EndsAppend, LastAreSome DEF TypeOK
      <3> QED
        BY <2>1, <3>1, <3>2, <3>3 DEF OnItsWay
    <2> QED
      BY <2>2, <2>3
  <1> QED
    BY <1>3, <1>4 DEF IInv

\* What the camera reports is in the batch.
LEMMA PollKeeps ==
    ASSUME IInv, Poll
    PROVE  IInv'
  <1>1. /\ isOpen /\ batch = <<>> /\ batch' = changes /\ changes' = <<>>
        /\ UNCHANGED <<settings, events, view, warned, isOpen, lastKnown>>
    BY DEF Poll
  <1>2. TypeOK'
    BY <1>1, EmptySeq DEF IInv, TypeOK
  <1>3. ASSUME NothingLost', NEW p \in Props PROVE OnItsWay(p)'
    <2>1. OnItsWay(p)
      BY <1>1, <1>3 DEF NothingLost, IInv
    <2>2. LastChangesOf(p)' = LastChangesOf(p) /\ LastEventsOf(p)' = LastEventsOf(p)
      BY <1>1 DEF LastChangesOf, LastEventsOf
    <2>3. HasNone(changes', ChangesOf(p)) /\ ~EndsWith(batch, ChangesOf(p), LastChangesOf(p))
      BY <1>1 DEF HasNone, EndsWith
    <2> QED
      BY <1>1, <2>1, <2>2, <2>3 DEF OnItsWay
  <1> QED
    BY <1>2, <1>3 DEF IInv

\* A poll that fails leaves an ExceptionEvent.
LEMMA PollFailsKeeps ==
    ASSUME IInv, PollFails
    PROVE  IInv'
  <1> DEFINE x == [type |-> "Exception"]
  <1>1. x \in Event /\ events \in Seq(Event)
    BY DEF IInv, TypeOK, Event
  <1>2. /\ events' = Append(events, x) /\ changes' \in {changes, <<>>}
        /\ UNCHANGED <<settings, batch, view, warned, isOpen, lastKnown>>
    BY DEF PollFails
  <1>3. TypeOK'
    BY <1>1, <1>2, EmptySeq, AppendProperties DEF IInv, TypeOK
  <1>4. x \in [type : {"Exception"}]
    OBVIOUS
  <1> HIDE DEF x
  <1>5. Len(events') \in DOMAIN events' /\ events'[Len(events')] = x
    BY <1>1, <1>2, AppendProperties
  <1>6. ~NothingLost'
    BY <1>4, <1>5 DEF NothingLost, HasNone
  <1> QED
    BY <1>3, <1>6 DEF IInv

\* With the connection, what was on its way is lost.
LEMMA LoseKeeps ==
    ASSUME IInv, Lose
    PROVE  IInv'
  <1>1. isOpen' = FALSE /\ changes' = <<>>
        /\ UNCHANGED <<settings, batch, events, view, warned, lastKnown>>
    BY DEF Lose
  <1>2. TypeOK' /\ ~NothingLost'
    BY <1>1, EmptySeq DEF IInv, TypeOK, NothingLost
  <1> QED
    BY <1>2 DEF IInv

\* The first of the batch becomes the last of the events, or nothing if the tables
\* do not know it.
LEMMA TranslateKeeps ==
    ASSUME IInv, Translate
    PROVE  IInv'
  <1> DEFINE c == Head(batch)
  <1>1. /\ batch # <<>> /\ events' = events \o Translated(c) /\ batch' = Tail(batch)
        /\ UNCHANGED <<settings, changes, view, warned, isOpen, lastKnown>>
    BY DEF Translate
  <1>2. TypeOK /\ c \in Reported /\ batch \in Seq(Reported) /\ events \in Seq(Event)
    BY <1>1, HeadTailProperties DEF IInv, TypeOK
  <1> HIDE DEF c
  <1>3. \/ Translated(c) = <<>> /\ events' = events
        \/ \E e \in Event :
               /\ Translated(c) = <<e>> /\ Translated(c)[1] = e /\ events' = Append(events, e)
               /\ e.type = "SetProp" /\ e.prop \in Props
               /\ FindKey(EOSPropValues[e.prop], e.value) = <<c.value>>
    <2>1. CASE Translated(c) = <<>>
      BY <1>1, <1>2, <2>1, ConcatEmptySeq
    <2>2. CASE \E e \in Event :
                   /\ Translated(c) = <<e>> /\ e.type = "SetProp" /\ e.prop \in Props
                   /\ FindKey(EOSProps, c.code) = <<e.prop>>
                   /\ FindKey(EOSPropValues[e.prop], e.value) = <<c.value>>
      <3>1. PICK e \in Event : /\ Translated(c) = <<e>> /\ e.type = "SetProp" /\ e.prop \in Props
                               /\ FindKey(EOSPropValues[e.prop], e.value) = <<c.value>>
        BY <2>2
      <3>2. Translated(c)[1] = e /\ events' = Append(events, e)
        BY <1>1, <1>2, <3>1, AppendIsConcat
      <3> QED
        BY <3>1, <3>2
    <2> QED
      BY <1>2, <2>1, <2>2, TranslatedIs
  <1>4. TypeOK'
    <2>1. batch' \in Seq(Reported)
      BY <1>1, <1>2, HeadTailProperties
    <2>2. events' \in Seq(Event)
      BY SMTT(40), <1>2, <1>3, AppendProperties
    <2> QED
      BY <1>1, <1>2, <2>1, <2>2 DEF TypeOK
  <1>5. ASSUME NothingLost', NEW p \in Props PROVE OnItsWay(p)'
    <2>1. NothingLost
      <3>1. \/ events' = events
            \/ \E e \in Event : events' = Append(events, e)
        BY <1>3
      <3>2. HasNone(events, [type : {"Exception"}])
        <4> DEFINE X == [type : {"Exception"}]
        <4>1. HasNone(events', X)
          BY <1>5 DEF NothingLost
        <4>2. \A G \in SUBSET X : G \in SUBSET X
          OBVIOUS
        <4> HIDE DEF X
        <4>3. \A e \in Event : HasNone(Append(events, e), X) => HasNone(events, X)
          BY <1>2, EndsAppend
        <4> QED
          BY <3>1, <4>1, <4>3 DEF X
      <3> QED
        BY <1>1, <1>5, <3>2 DEF NothingLost
    <2>2. OnItsWay(p)
      BY <2>1 DEF IInv
    <2>3. LastChangesOf(p)' = LastChangesOf(p) /\ LastEventsOf(p)' = LastEventsOf(p)
      BY <1>1 DEF LastChangesOf, LastEventsOf
    <2>4. /\ EndsWith(batch, ChangesOf(p), LastChangesOf(p))
               <=> \/ EndsWith(batch', ChangesOf(p), LastChangesOf(p))
                   \/ (HasNone(batch', ChangesOf(p)) /\ c \in LastChangesOf(p))
          /\ HasNone(batch, ChangesOf(p)) <=> (c \notin ChangesOf(p) /\ HasNone(batch', ChangesOf(p)))
      BY <1>1, <1>2, EndsTail DEF c
    <2>5. ASSUME c \in LastChangesOf(p)
          PROVE  EndsWith(events', EventsOf(p), LastEventsOf(p))
      <3>1. Translated(c) # <<>> /\ Translated(c)[1].prop = p /\ <<c.value>> = lastKnown[p]
        BY <2>5 DEF LastChangesOf, ChangesOf
      <3>2. PICK e \in Event : /\ Translated(c)[1] = e /\ events' = Append(events, e)
                               /\ e.type = "SetProp"
                               /\ FindKey(EOSPropValues[e.prop], e.value) = <<c.value>>
        BY <1>3, <3>1
      <3>3. e \in LastEventsOf(p) /\ e \in EventsOf(p)
        BY <3>1, <3>2 DEF LastEventsOf, EventsOf
      <3> QED
        BY <1>2, <3>2, <3>3, EndsAppend, LastAreSome
    <2>6. ASSUME c \notin ChangesOf(p)
          PROVE  /\ EndsWith(events', EventsOf(p), LastEventsOf(p))
                       <=> EndsWith(events, EventsOf(p), LastEventsOf(p))
                 /\ HasNone(events', EventsOf(p)) <=> HasNone(events, EventsOf(p))
      <3>1. CASE events' = events
        BY <3>1
      <3>2. CASE events' # events
        <4>1. PICK e \in Event : /\ Translated(c) = <<e>> /\ Translated(c)[1] = e
                                 /\ events' = Append(events, e)
          BY <1>3, <3>2
        <4>2. e \notin EventsOf(p)
          <5>1. Translated(c) # <<>>
            BY <4>1
          <5>2. Translated(c)[1].prop # p
            BY <1>2, <2>6, <5>1 DEF ChangesOf
          <5> QED
            BY <4>1, <5>2 DEF EventsOf
        <4> QED
          BY <1>2, <4>1, <4>2, EndsAppend, LastAreSome
      <3> QED
        BY <3>1, <3>2
    <2>7. LastChangesOf(p) \in SUBSET ChangesOf(p)
      BY LastAreSome
    <2>8. CASE EndsWith(changes, ChangesOf(p), LastChangesOf(p))
      BY <1>1, <2>3, <2>8 DEF OnItsWay
    <2>9. CASE HasNone(changes, ChangesOf(p)) /\ EndsWith(batch, ChangesOf(p), LastChangesOf(p))
      BY <1>1, <2>3, <2>4, <2>5, <2>9 DEF OnItsWay
    <2>10. CASE HasNone(changes, ChangesOf(p)) /\ HasNone(batch, ChangesOf(p))
                /\ ~EndsWith(changes, ChangesOf(p), LastChangesOf(p))
                /\ ~EndsWith(batch, ChangesOf(p), LastChangesOf(p))
      BY <1>1, <2>2, <2>3, <2>4, <2>6, <2>10 DEF OnItsWay
    <2> QED
      BY <2>2, <2>8, <2>9, <2>10 DEF OnItsWay
  <1> QED
    BY <1>4, <1>5 DEF IInv

\* The application knows what it pops.
LEMMA PopKeeps ==
    ASSUME IInv, Pop
    PROVE  IInv'
  <1> DEFINE e == Head(events)
             X == [type : {"Exception"}]
  <1>1. /\ events # <<>> /\ events' = Tail(events)
        /\ view' = IF e.type = "SetProp" THEN [view EXCEPT ![e.prop] = <<e.value>>] ELSE view
        /\ warned' = (warned \/ e.type = "Exception")
        /\ UNCHANGED <<settings, changes, batch, isOpen, lastKnown>>
    BY DEF Pop
  <1>2. TypeOK /\ events \in Seq(Event) /\ e \in Event
    BY <1>1, HeadTailProperties DEF IInv, TypeOK
  <1> HIDE DEF e
  <1>3. IF e.type = "SetProp" THEN e.prop \in Props /\ e.value \in Values
        ELSE e.type = "Exception"
    BY <1>2 DEF Event
  <1>4. TypeOK'
    <2>1. view' \in [Props -> Seq(Values)]
      <3>1. CASE e.type = "SetProp"
        <4>1. <<e.value>> \in Seq(Values)
          BY <1>3, <3>1
        <4> QED
          BY <1>1, <1>2, <1>3, <3>1, <4>1 DEF TypeOK
      <3>2. CASE e.type # "SetProp"
        BY <1>1, <1>2, <3>2 DEF TypeOK
      <3> QED
        BY <3>1, <3>2
    <2>2. events' \in Seq(Event)
      BY <1>1, <1>2, HeadTailProperties
    <2>3. warned' \in BOOLEAN
      BY <1>1
    <2> QED
      BY <1>1, <1>2, <2>1, <2>2, <2>3 DEF TypeOK
  <1>5. ASSUME NothingLost', NEW p \in Props PROVE OnItsWay(p)'
    <2>1. e.type = "SetProp" /\ ~warned /\ isOpen /\ HasNone(events', X)
      BY <1>1, <1>2, <1>3, <1>5 DEF NothingLost, TypeOK
    <2>2. e \notin X
      BY <2>1
    <2> HIDE DEF X
    <2>3. HasNone(events, X)
      BY <1>1, <1>2, <2>1, <2>2, EndsTail DEF e
    <2>4. OnItsWay(p)
      BY <2>1, <2>3 DEF X, NothingLost, IInv
    <2>5. LastChangesOf(p)' = LastChangesOf(p) /\ LastEventsOf(p)' = LastEventsOf(p)
      BY <1>1 DEF LastChangesOf, LastEventsOf
    <2>6. /\ EndsWith(events, EventsOf(p), LastEventsOf(p))
               <=> \/ EndsWith(events', EventsOf(p), LastEventsOf(p))
                   \/ (HasNone(events', EventsOf(p)) /\ e \in LastEventsOf(p))
          /\ HasNone(events, EventsOf(p)) <=> (e \notin EventsOf(p) /\ HasNone(events', EventsOf(p)))
      BY <1>1, <1>2, EndsTail DEF e
    <2>7. ASSUME e \in LastEventsOf(p)
          PROVE  lastKnown[p] = IF view'[p] = <<>> THEN <<>>
                                ELSE FindKey(EOSPropValues[p], view'[p][1])
      <3>1. e.prop = p /\ FindKey(EOSPropValues[p], e.value) = lastKnown[p]
        BY <2>7 DEF LastEventsOf, EventsOf
      <3>2. view'[p] = <<e.value>>
        BY <1>1, <1>2, <2>1, <3>1 DEF TypeOK
      <3>3. view'[p] # <<>> /\ view'[p][1] = e.value
        BY <3>2
      <3> QED
        BY <3>1, <3>3
    <2>8. ASSUME e \notin EventsOf(p) PROVE view'[p] = view[p]
      <3>1. e.prop # p
        BY <1>2, <2>1, <2>8 DEF EventsOf
      <3> QED
        BY <1>1, <1>2, <2>1, <3>1 DEF TypeOK
    <2>9. CASE \/ EndsWith(changes, ChangesOf(p), LastChangesOf(p))
               \/ (HasNone(changes, ChangesOf(p)) /\ EndsWith(batch, ChangesOf(p), LastChangesOf(p)))
      BY <1>1, <2>5, <2>9 DEF OnItsWay
    <2>10. CASE /\ HasNone(changes, ChangesOf(p)) /\ HasNone(batch, ChangesOf(p))
                /\ EndsWith(events, EventsOf(p), LastEventsOf(p))
      BY <1>1, <2>5, <2>6, <2>7, <2>10 DEF OnItsWay
    <2>11. CASE /\ HasNone(changes, ChangesOf(p)) /\ HasNone(batch, ChangesOf(p))
                /\ HasNone(events, EventsOf(p))
                /\ lastKnown[p] = IF view[p] = <<>> THEN <<>>
                                  ELSE FindKey(EOSPropValues[p], view[p][1])
      BY <1>1, <2>5, <2>6, <2>8, <2>11 DEF OnItsWay
    <2> QED
      BY <2>4, <2>9, <2>10, <2>11 DEF OnItsWay
  <1> QED
    BY <1>4, <1>5 DEF IInv

(***************************************************************************)
(* Theorems.                                                               *)
(***************************************************************************)

\* The inductive step.
LEMMA NextIInv == IInv /\ [Next]_vars => IInv'
  <1> SUFFICES ASSUME IInv, [Next]_vars PROVE IInv'
    OBVIOUS
  <1>1. ASSUME NEW code \in Codes, Turn(code) PROVE IInv'
    <2>1. PICK j \in 1..Len(Dial[code]) : Take(code, Dial[code][j])
      BY <1>1 DEF Turn
    <2>2. Dial[code][j] \in Nat
      BY <2>1, DialsAreNumbers
    <2> QED
      BY <1>1, <2>1, <2>2, TakeKeeps DEF Turn
  <1>2. ASSUME NEW w \in Wanted, SetProp(w[1], w[2]) PROVE IInv'
    <2> DEFINE prop == FindValue(EOSProps, w[1])
               value == IF w[1] \in Props THEN FindKey(EOSPropValues[w[1]], w[2]) ELSE <<>>
    <2>1. /\ prop[1] \in PropsSupported /\ value[1] \in ToSet(Dial[prop[1]])
          /\ Take(prop[1], value[1]) /\ UNCHANGED <<batch, events, appVars, isOpen>>
      BY <1>2 DEF SetProp
    <2>2. prop[1] \in Codes
      BY <2>1, PropertiesAssumption
    <2>3. value[1] \in Nat
      BY <2>1, <2>2, DialsAreNumbers
    <2> HIDE DEF prop, value
    <2> QED
      BY <2>1, <2>2, <2>3, TakeKeeps
  <1>3. CASE Lose
    BY <1>3, LoseKeeps
  <1>4. CASE Poll
    BY <1>4, PollKeeps
  <1>5. CASE PollFails
    BY <1>5, PollFailsKeeps
  <1>6. CASE Translate
    BY <1>6, TranslateKeeps
  <1>7. CASE Pop
    BY <1>7, PopKeeps
  <1>8. CASE UNCHANGED vars
    <2>1. UNCHANGED <<settings, changes, batch, events, view, warned, isOpen, lastKnown>>
      BY <1>8 DEF vars
    <2>2. TypeOK' <=> TypeOK
      BY <2>1 DEF TypeOK
    <2>3. NothingLost' <=> NothingLost
      BY <2>1 DEF NothingLost
    <2>4. \A p \in Props : OnItsWay(p)' <=> OnItsWay(p)
      BY <2>1 DEF OnItsWay, LastChangesOf, LastEventsOf
    <2> QED
      BY <2>2, <2>3, <2>4 DEF IInv
  <1> QED
    BY <1>1, <1>2, <1>3, <1>4, <1>5, <1>6, <1>7, <1>8 DEF Next

\* As long as nothing has been lost, the last value of every property is the last
\* one on its way: in what the camera has not reported, in the answer that
\* getNewEvents() goes through, in the event queue, or with the application.
THEOREM Invariance == Spec => []IInv
  <1>1. Init => IInv
    BY InitIInv
  <1>2. IInv /\ [Next]_vars => IInv'
    BY NextIInv
  <1> QED
    BY <1>1, <1>2, PTL DEF Spec

\* An application that has read all events and was not told of an exception knows
\* the last value of every property that the tables have, and setProp() of that
\* value would send the code the camera has: for any dials, whatever crosses the
\* polls.
THEOREM ViewStaysCamera == Spec => []ViewIsCamera
  <1>1. IInv => ViewIsCamera
    <2> SUFFICES ASSUME IInv, isOpen, ~warned, changes = <<>>, batch = <<>>, events = <<>>,
                        NEW p \in Props
                 PROVE  lastKnown[p] = IF view[p] = <<>> THEN <<>>
                                       ELSE FindKey(EOSPropValues[p], view[p][1])
      BY DEF ViewIsCamera
    <2>1. OnItsWay(p)
      BY NoneInEmpty DEF IInv, NothingLost
    <2>2. \A S, G : ~EndsWith(<<>>, S, G)
      BY DEF EndsWith
    <2> QED
      BY <2>1, <2>2 DEF OnItsWay
  <1> QED
    BY <1>1, Invariance, PTL
=============================================================================
