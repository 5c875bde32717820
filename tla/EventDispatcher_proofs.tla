------------------------ MODULE EventDispatcher_proofs ------------------------
(***************************************************************************)
(* EventDispatcher: the iterators of the nested loops stay valid, no       *)
(* handler is skipped, and budgets are kept to the call, for any number of *)
(* handlers, any nesting and any budgets.  The invariant is IInv.          *)
(***************************************************************************)
EXTENDS EventDispatcher, SequenceTheorems, WellFoundedInduction, TLAPS

(***************************************************************************)
(* The operators.                                                          *)
(***************************************************************************)

\* A set of naturals that is not empty has a least element.
LEMMA SmallestOf ==
    ASSUME NEW S \in SUBSET Nat, S # {}
    PROVE  \E x \in S : \A y \in S : x <= y
  <1>1. \E x \in S : \A y \in S : <<y, x>> \notin OpToRel(<, Nat)
    BY NatLessThanWellFounded, WFMin, Zenon
  <1>2. PICK x \in S : \A y \in S : <<y, x>> \notin OpToRel(<, Nat)
    BY <1>1
  <1>3. \A y \in S : ~(y < x) /\ y \in Nat /\ x \in Nat
    BY <1>2 DEF OpToRel
  <1>4. \A y \in S : x <= y
    BY <1>3
  <1> QED
    BY <1>4

\* Min is that element.
LEMMA MinOf ==
    ASSUME NEW S \in SUBSET Nat, S # {}
    PROVE  Min(S) \in S /\ \A y \in S : Min(S) <= y
  BY SmallestOf DEF Min

\* From is the end iterator or a handler of the map the loop walks, not before
\* i, and no such handler lies before it.
LEMMA FromIs ==
    ASSUME NEW m, DOMAIN m \subseteq Ids, NEW on, NEW i \in Nat
    PROVE  /\ From(m, on, i) \in Ids \cup {End}
           /\ From(m, on, i) # End =>
                  /\ From(m, on, i) \in DOMAIN m
                  /\ From(m, on, i) >= i
                  /\ Walks(on, m[From(m, on, i)])
           /\ \A j \in DOMAIN m :
                  j >= i /\ Walks(on, m[j]) => From(m, on, i) <= j
  <1> DEFINE S == {j \in DOMAIN m : j >= i /\ Walks(on, m[j])} \cup {End}
  <1>1. S \in SUBSET Nat /\ S # {}
    BY DispatcherAssumption DEF Ids, End
  <1>2. Min(S) \in S /\ \A y \in S : Min(S) <= y
    <2> HIDE DEF S
    <2> QED  BY <1>1, MinOf
  <1>3. From(m, on, i) = Min(S)
    BY DEF From
  <1> QED
    BY <1>2, <1>3

\* A loop begins at a handler of the map it walks, or at its end, and owes
\* calls only from there on.
LEMMA NewLoopIs ==
    ASSUME TypeOK, NEW on \in Types \cup {Exc}
    PROVE  LET l == NewLoop(on) IN
           /\ l \in Loop /\ l.on = on /\ l.state = "test"
           /\ l.at # End => l.at \in DOMAIN handlers /\ Walks(on, handlers[l.at])
           /\ l.owed \subseteq 0..handlerIdCounter - 1
           /\ \A i \in l.owed \cap DOMAIN handlers :
                  handlers[i].on = on /\ l.at <= i
  <1> DEFINE l == NewLoop(on)
  <1>1. DOMAIN handlers \subseteq Ids
    BY DispatcherAssumption DEF TypeOK, Ids
  <1>2. /\ l.at \in Ids \cup {End}
        /\ l.at # End => l.at \in DOMAIN handlers /\ Walks(on, handlers[l.at])
        /\ \A j \in DOMAIN handlers : Walks(on, handlers[j]) => l.at <= j
    BY <1>1, FromIs DEF NewLoop, Ids
  <1>3. \A i \in l.owed : i \in DOMAIN handlers /\ handlers[i].on = on
    BY DEF NewLoop
  <1>4. \A i \in l.owed : l.at <= i
    BY <1>2, <1>3 DEF Walks
  <1>5. l.owed \in SUBSET Ids
    BY <1>1, <1>3
  <1>6. l = [on |-> on, at |-> l.at, state |-> "test", owed |-> l.owed]
    BY DEF NewLoop
  <1>7. l \in Loop
    <2> HIDE DEF l
    <2>1. l.at \in Ids \cup {End} /\ on \in Types \cup {Exc}
          /\ "test" \in {"test", "calling", "caught"}
      BY <1>2
    <2> QED  BY ONLY <2>1, <1>5, <1>6 DEF Loop
  <1> QED
    BY <1>2, <1>3, <1>4, <1>7 DEF NewLoop, TypeOK

\* A sequence of loops without its last.
LEMMA FrontIs ==
    ASSUME NEW s \in Seq(Loop), s # <<>>
    PROVE  /\ SubSeq(s, 1, Len(s) - 1) \in Seq(Loop)
           /\ Len(SubSeq(s, 1, Len(s) - 1)) = Len(s) - 1
           /\ \A k \in 1..Len(s) - 1 : SubSeq(s, 1, Len(s) - 1)[k] = s[k]
  <1> DEFINE n == Len(s) - 1
  <1>1. 1 \in Int /\ n \in Nat /\ \A k \in 1..n : s[k] \in Loop
    OBVIOUS
  <1> HIDE DEF n
  <1>2. /\ SubSeq(s, 1, n) \in Seq(Loop)
        /\ Len(SubSeq(s, 1, n)) = IF 1 <= n THEN n - 1 + 1 ELSE 0
        /\ \A k \in 1..n - 1 + 1 : SubSeq(s, 1, n)[k] = s[1 + k - 1]
    BY <1>1, SubSeqProperties
  <1>3. n - 1 + 1 = n /\ \A k \in 1..n : 1 + k - 1 = k
    BY <1>1
  <1> QED
    BY <1>1, <1>2, <1>3 DEF n

\* The loops below the innermost one.
LEMMA OuterIs ==
    ASSUME TypeOK, stack # <<>>
    PROVE  /\ Len(stack) \in Nat \ {0} /\ DOMAIN stack = 1..Len(stack)
           /\ Top \in Loop
           /\ Outer \in Seq(Loop) /\ Len(Outer) = Len(stack) - 1
           /\ \A k \in 1..Len(stack) - 1 : Outer[k] = stack[k]
  <1>1. stack \in Seq(Loop) /\ Len(stack) \in Nat \ {0}
    BY DEF TypeOK
  <1>2. Top \in Loop
    BY <1>1 DEF Top
  <1> QED
    BY <1>1, <1>2, FrontIs DEF Outer

\* At the end of a loop's body the loop is at the next handler that is left in
\* the map it walks, or at its end.
LEMMA AdvanceIs ==
    ASSUME NEW m, NEW l \in Loop, l.at \in Ids,
           DOMAIN Advance(m, l).map \subseteq Ids,
           \A j \in DOMAIN Advance(m, l).map : Advance(m, l).map[j] = m[j]
    PROVE  /\ Advance(m, l).loop \in Loop
           /\ Advance(m, l).loop.on = l.on
           /\ Advance(m, l).loop.state = "test"
           /\ Advance(m, l).loop.owed = l.owed
           /\ Advance(m, l).loop.at # End =>
                  /\ Advance(m, l).loop.at \in DOMAIN Advance(m, l).map
                  /\ Walks(l.on, m[Advance(m, l).loop.at])
           /\ \A j \in DOMAIN Advance(m, l).map :
                  j > l.at /\ Walks(l.on, m[j]) => Advance(m, l).loop.at <= j
  <1> DEFINE m2 == Advance(m, l).map
             f == From(m2, l.on, l.at + 1)
             loop == Advance(m, l).loop
  <1>1. loop = [l EXCEPT !.state = "test", !.at = f]
    BY DEF Advance
  <1>2. l.at \in Nat /\ l.at + 1 \in Nat
    BY DEF Ids
  <1> HIDE DEF m2
  <1>3. /\ f \in Ids \cup {End}
        /\ f # End => f \in DOMAIN m2 /\ Walks(l.on, m2[f])
        /\ \A j \in DOMAIN m2 : j >= l.at + 1 /\ Walks(l.on, m2[j]) => f <= j
    BY <1>2, FromIs DEF m2
  <1>4. loop \in Loop /\ loop.at = f /\ loop.on = l.on
        /\ loop.state = "test" /\ loop.owed = l.owed
    <2> HIDE DEF f, loop
    <2> QED  BY <1>1, <1>3 DEF Loop
  <1>5. \A j \in DOMAIN m2 : j > l.at => j >= l.at + 1
    BY <1>2, DispatcherAssumption DEF Ids, m2
  <1>6. \A j \in DOMAIN m2 : m2[j] = m[j]
    BY DEF m2
  <1>7. \A j \in DOMAIN m2 : j > l.at /\ Walks(l.on, m[j]) => loop.at <= j
    BY <1>3, <1>4, <1>5, <1>6
  <1>8. loop.at # End => loop.at \in DOMAIN m2 /\ Walks(l.on, m[loop.at])
    BY <1>3, <1>4, <1>6
  <1> HIDE DEF f
  <1> QED
    BY <1>4, <1>7, <1>8 DEF m2

(***************************************************************************)
(* The end of a loop's body.                                               *)
(***************************************************************************)

\* l, the last of the loops s, is at the end of its body: its handler is one it
\* does not call, or whose call may have changed its budget, as in m.
BodyEnds(s, l, m) ==
    /\ s # <<>> /\ Len(s) <= Len(stack)
    /\ \A k \in 1..Len(s) : s[k] = stack[k]
    /\ l = stack[Len(s)] /\ l.at # End
    /\ l.state = "test" => handlers[l.at].on # l.on
    /\ DOMAIN m = DOMAIN handlers
    /\ \A j \in DOMAIN handlers : j # l.at => m[j] = handlers[j]
    /\ m[l.at].on = handlers[l.at].on
    /\ handlers[l.at].times = Unlimited => m[l.at].times = Unlimited
    /\ Active(m[l.at]) => m[l.at] \in Handler

\* However the innermost of the loops s goes on, the others keep their
\* handlers: what it erases is not in flight in another loop.
LEMMA GoOnKeeps ==
    ASSUME IInv, handlerIdCounter' = handlerIdCounter,
           NEW s \in Seq(Loop), NEW l, NEW m, BodyEnds(s, l, m), GoOn(s, m)
    PROVE  /\ DOMAIN handlers' = IF Active(m[l.at]) THEN DOMAIN handlers
                                ELSE DOMAIN handlers \ {l.at}
           /\ \A j \in DOMAIN handlers' :
                  handlers'[j] = m[j] /\ handlers'[j] \in Handler
           /\ stack' \in Seq(Loop)
           /\ IteratorInv' /\ NestingInv' /\ OwedInv'
  <1> DEFINE n == Len(s)
             N == Len(stack)
             D == IF Active(m[l.at]) THEN DOMAIN handlers
                  ELSE DOMAIN handlers \ {l.at}
             a == Advance(m, l)
  <1>1. /\ n \in Nat \ {0} /\ N \in Nat /\ n <= N
        /\ stack \in Seq(Loop) /\ DOMAIN stack = 1..N
        /\ DOMAIN s = 1..n /\ l = s[n] /\ l = stack[n] /\ l \in Loop
    <2>1. s # <<>> /\ n <= N /\ (\A k \in 1..n : s[k] = stack[k]) /\ l = stack[n]
      BY DEF BodyEnds
    <2>2. stack \in Seq(Loop) /\ N \in Nat /\ DOMAIN stack = 1..N
      BY DEF IInv, TypeOK
    <2>3. n \in Nat \ {0} /\ DOMAIN s = 1..n
      BY <2>1
    <2>4. l = s[n] /\ l \in Loop
      <3> HIDE DEF N
      <3> QED  BY <2>1, <2>2, <2>3
    <2> QED
      BY <2>1, <2>2, <2>3, <2>4
  <1> HIDE DEF N
  <1>2. /\ DOMAIN handlers \subseteq Ids /\ l.at \in DOMAIN handlers
        /\ DOMAIN m = DOMAIN handlers /\ Walks(l.on, handlers[l.at])
        /\ l.state # "test" => handlers[l.at].on = l.on
    <2>1. n \in DOMAIN stack /\ l = stack[n] /\ l.at # End
      BY <1>1 DEF BodyEnds
    <2>2. DOMAIN handlers \subseteq Ids
      BY DispatcherAssumption DEF IInv, TypeOK, Ids
    <2>3. DOMAIN m = DOMAIN handlers
      BY DEF BodyEnds
    <2> HIDE DEF n
    <2> QED
      BY <2>1, <2>2, <2>3 DEF IInv, IteratorInv
  <1>3. /\ DOMAIN a.map = D /\ D \subseteq DOMAIN handlers
        /\ \A j \in D : a.map[j] = m[j]
    BY <1>2 DEF Advance
  <1>4. /\ a.loop \in Loop /\ a.loop.on = l.on /\ a.loop.state = "test"
        /\ a.loop.owed = l.owed
        /\ a.loop.at # End => a.loop.at \in D /\ Walks(l.on, m[a.loop.at])
        /\ \A j \in D : j > l.at /\ Walks(l.on, m[j]) => a.loop.at <= j
    <2>1. l \in Loop /\ l.at \in Ids /\ D \subseteq Ids
      BY <1>1, <1>2, <1>3
    <2> HIDE DEF D
    <2> QED
      BY <2>1, <1>3, AdvanceIs
  <1>5. /\ stack' \in Seq(Loop) /\ Len(stack') = n /\ DOMAIN stack' = 1..n
        /\ stack'[n] = a.loop
        /\ \A k \in 1..n : k # n => stack'[k] = stack[k]
    <2>1. stack' = [s EXCEPT ![n] = a.loop]
      BY <1>1 DEF GoOn
    <2>2. \A k \in 1..n : s[k] = stack[k]
      BY DEF BodyEnds
    <2>3. n \in 1..n /\ n = Len(s)
      BY <1>1
    <2> HIDE DEF a, n
    <2>4. /\ stack' \in Seq(Loop) /\ Len(stack') = n
          /\ \A k \in 1..n : stack'[k] = IF k = n THEN a.loop ELSE s[k]
      BY <2>1, <2>3, <1>4, ExceptSeq
    <2> QED
      BY <2>2, <2>3, <2>4
  <1>6. /\ DOMAIN handlers' = D /\ D \subseteq DOMAIN handlers
        /\ \A j \in D : handlers'[j] = m[j] /\ m[j].on = handlers[j].on
    <2>1. handlers' = a.map
      BY <1>1 DEF GoOn
    <2> HIDE DEF a, D
    <2> QED
      BY <2>1, <1>3 DEF BodyEnds
  <1>7. \A j \in D : m[j] \in Handler
    BY <1>2 DEF IInv, TypeOK, BodyEnds
  <1> HIDE DEF D, n, a
  <1>8. \A j \in D : handlers'[j] \in Handler
    BY <1>6, <1>7
  <1>9. \A k \in 1..n :
            /\ k # n => k < n /\ k < N /\ k # N /\ k + 1 \in 1..n
            /\ (k # n /\ k = N - 1) => (N = n /\ k = n - 1 /\ k + 1 = n)
            /\ k \in 1..N
    BY <1>1
  <1>10. ASSUME NEW k \in 1..n, k # n
        PROVE  /\ stack[k].at # End /\ stack[k].at \in D
               /\ \/ handlers'[stack[k].at].times = Unlimited
                  \/ k = n - 1 /\ stack[k].state = "caught"
    <2>1. /\ k \in DOMAIN stack /\ k < N /\ stack[k].state # "test"
          /\ stack[k].at # End /\ stack[k].at \in DOMAIN handlers
          /\ Walks(stack[k].on, handlers[stack[k].at])
      <3>1. k \in 1..N /\ k < N /\ k # N
        BY <1>1, <1>10
      <3>2. k \in DOMAIN stack /\ stack[k].state # "test"
        BY <3>1, <1>1 DEF IInv, NestingInv, N
      <3> QED
        BY <3>1, <3>2 DEF IInv, IteratorInv
    <2>2. CASE handlers[stack[k].at].times = Unlimited
      <3>1. m[stack[k].at].times = Unlimited
        BY <2>1, <2>2 DEF BodyEnds
      <3>2. stack[k].at \in D
        BY <2>1, <3>1 DEF D, Active
      <3> QED
        BY <2>1, <3>1, <3>2, <1>6
    <2>3. CASE k = N - 1 /\ stack[k].state = "caught"
      <3>1. k + 1 = n /\ k = n - 1
        BY <1>1, <1>10, <2>3
      <3>2. stack[k].on # Exc /\ stack[k + 1].on = Exc
        BY <2>1, <2>3 DEF IInv, NestingInv
      <3>3. l.on = Exc
        BY <3>1, <3>2, <1>1
      <3>4. stack[k].at # l.at
        BY <1>2, <2>1, <3>2, <3>3 DEF Walks
      <3> QED
        BY <2>1, <2>3, <3>1, <3>4 DEF D
    <2> QED
      BY <2>1, <2>2, <2>3 DEF IInv, NestingInv, N
  <1>11. IteratorInv'
    <2> SUFFICES ASSUME NEW k \in 1..n
                 PROVE  /\ stack'[k].at # End =>
                               /\ stack'[k].at \in DOMAIN handlers'
                               /\ Walks(stack'[k].on, handlers'[stack'[k].at])
                        /\ stack'[k].state # "test" =>
                               /\ stack'[k].at # End
                               /\ handlers'[stack'[k].at].on = stack'[k].on
      BY <1>5 DEF IteratorInv
    <2>1. CASE k = n
      BY <2>1, <1>4, <1>5, <1>6
    <2>2. CASE k # n
      <3>1. stack[k].at \in D /\ stack[k].at # End /\ stack'[k] = stack[k]
        BY <2>2, <1>5, <1>10
      <3>2. handlers'[stack[k].at].on = handlers[stack[k].at].on
        BY <3>1, <1>6
      <3>3. k \in DOMAIN stack
        BY <1>1
      <3> QED
        BY <3>1, <3>2, <3>3, <1>6 DEF IInv, IteratorInv, Walks
    <2> QED
      BY <2>1, <2>2
  <1>12. NestingInv'
    <2> SUFFICES ASSUME NEW k \in 1..n
                 PROVE  /\ stack'[k].state = "test" => k = n
                        /\ stack'[k].state = "caught" =>
                               stack'[k].on # Exc /\ k < n /\ stack'[k + 1].on = Exc
                        /\ k < n =>
                               \/ handlers'[stack'[k].at].times = Unlimited
                               \/ k = n - 1 /\ stack'[k].state = "caught"
      BY <1>5 DEF NestingInv
    <2>1. CASE k = n
      BY <2>1, <1>1, <1>4, <1>5
    <2>2. CASE k # n
      <3>1. k < n /\ k + 1 \in 1..n /\ k \in DOMAIN stack /\ k # N
        BY <2>2, <1>1, <1>9
      <3>2. stack'[k] = stack[k]
        BY <2>2, <1>5
      <3>3. stack'[k + 1].on = stack[k + 1].on
        BY <3>1, <1>1, <1>4, <1>5
      <3>4. /\ stack[k].state # "test"
            /\ stack[k].state = "caught" => stack[k].on # Exc /\ stack[k + 1].on = Exc
        BY <3>1 DEF IInv, NestingInv, N
      <3> QED
        BY <2>2, <3>1, <3>2, <3>3, <3>4, <1>10
    <2> QED
      BY <2>1, <2>2
  <1>13. OwedInv'
    <2> SUFFICES ASSUME NEW k \in 1..n
                 PROVE  /\ stack'[k].owed \subseteq 0..handlerIdCounter - 1
                        /\ \A i \in stack'[k].owed \cap D :
                               /\ handlers'[i].on = stack'[k].on
                               /\ stack'[k].at <= i
                               /\ stack'[k].state # "test" => stack'[k].at # i
      BY <1>5, <1>6 DEF OwedInv
    <2>1. /\ k \in DOMAIN stack /\ stack'[k].owed = stack[k].owed
          /\ stack'[k].on = stack[k].on
      BY <1>1, <1>4, <1>5
    <2>2. /\ stack[k].owed \subseteq 0..handlerIdCounter - 1
          /\ \A i \in stack[k].owed \cap D :
                 /\ i \in DOMAIN handlers /\ m[i].on = stack[k].on
                 /\ handlers'[i].on = stack[k].on /\ stack[k].at <= i
                 /\ handlers[i].on = stack[k].on
                 /\ stack[k].state # "test" => stack[k].at # i
      BY <2>1, <1>6 DEF IInv, OwedInv
    <2>3. CASE k = n
      <3>1. \A i \in stack[k].owed \cap D : l.at <= i /\ l.at # i
        BY <2>2, <2>3, <1>1, <1>2 DEF BodyEnds
      <3>2. \A i \in stack[k].owed \cap D : i \in Nat /\ l.at \in Nat
        BY <1>2, <1>6 DEF Ids
      <3>3. \A i \in stack[k].owed \cap D : i > l.at
        BY <3>1, <3>2
      <3>4. \A i \in stack[k].owed \cap D : Walks(l.on, m[i])
        BY <2>2, <2>3, <1>1 DEF Walks
      <3> QED
        BY <3>3, <3>4, <2>1, <2>2, <2>3, <1>4, <1>5
    <2>4. CASE k # n
      BY <2>1, <2>2, <2>4, <1>5
    <2> QED
      BY <2>3, <2>4
  <1> QED
    BY <1>5, <1>6, <1>8, <1>11, <1>12, <1>13 DEF D

(***************************************************************************)
(* What application code does.                                             *)
(***************************************************************************)

\* A handler that is added is in flight nowhere, and owed by no loop.
LEMMA AddKeeps ==
    ASSUME IInv, NEW on \in Types \cup {Exc}, NEW times \in Budgets,
           Add(on, times)
    PROVE  IInv'
  <1> DEFINE c == handlerIdCounter
  <1>1. /\ c \in Nat /\ c < MaxHandlers /\ c' = c + 1 /\ c \in Ids
        /\ c \notin DOMAIN handlers /\ MaxHandlers \in Nat
        /\ times \in (Nat \ {0}) \cup {Unlimited}
    BY DispatcherAssumption DEF IInv, TypeOK, Add, Ids
  <1>2. /\ DOMAIN handlers' = DOMAIN handlers \cup {c}
        /\ handlers'[c] = [on |-> on, times |-> times]
        /\ \A j \in DOMAIN handlers : handlers'[j] = handlers[j]
        /\ handlers' \in [DOMAIN handlers' -> Handler]
    <2>1. [on |-> on, times |-> times] \in Handler
      BY <1>1 DEF Handler
    <2> QED
      BY <1>1, <2>1 DEF Add, IInv, TypeOK
  <1>3. \A j \in 0..c - 1 : j \in 0..c' - 1 /\ j # c
    BY <1>1
  <1>4. TypeOK'
    <2>1. c' \in 0..MaxHandlers /\ DOMAIN handlers' \subseteq 0..c' - 1
      BY <1>1, <1>2, <1>3 DEF IInv, TypeOK
    <2>2. granted' \in [Ids -> (Nat \ {0}) \cup {Unlimited}]
      BY <1>1 DEF IInv, TypeOK, Add
    <2>3. removed' \subseteq 0..c' - 1
      BY <1>3 DEF IInv, TypeOK, Add
    <2> QED
      BY <1>2, <2>1, <2>2, <2>3 DEF IInv, TypeOK, Add
  <1>5. IteratorInv'
    BY <1>2 DEF IInv, IteratorInv, Add, Walks
  <1>6. NestingInv'
    <2>1. \A k \in DOMAIN stack : k < Len(stack) =>
              /\ stack[k].at \in DOMAIN handlers
              /\ handlers'[stack[k].at] = handlers[stack[k].at]
      BY <1>2 DEF IInv, IteratorInv, NestingInv
    <2> QED
      BY <2>1 DEF IInv, NestingInv, Add
  <1>7. OwedInv'
    <2>1. \A k \in DOMAIN stack : c \notin stack[k].owed
      BY <1>3 DEF IInv, OwedInv
    <2> QED
      BY <1>2, <1>3, <2>1 DEF IInv, OwedInv, Add
  <1>8. BudgetInv'
    <2>1. /\ granted'[c] = times /\ done' = done /\ removed' = removed
          /\ \A i \in Ids : i # c => granted'[i] = granted[i]
          /\ done[c] = 0
      BY <1>1 DEF IInv, TypeOK, BudgetInv, Add
    <2>2. BudgetIsExact'
      <3> SUFFICES ASSUME NEW i \in 0..c' - 1,
                          granted'[i] # Unlimited, i \notin removed'
                   PROVE  IF i \in DOMAIN handlers'
                          THEN done'[i] + handlers'[i].times = granted'[i]
                          ELSE done'[i] = granted'[i]
        BY DEF BudgetIsExact
      <3>1. CASE i = c
        BY <3>1, <1>1, <1>2, <2>1
      <3>2. CASE i # c
        <4>1. i \in 0..c - 1 /\ i \in Ids
          BY <3>2, <1>1 DEF Ids
        <4> QED
          BY <3>2, <4>1, <1>2, <2>1 DEF IInv, BudgetInv, BudgetIsExact
      <3> QED
        BY <3>1, <3>2
    <2>3. \A i \in DOMAIN handlers' :
              handlers'[i].times = Unlimited <=> granted'[i] = Unlimited
      <3>1. DOMAIN handlers \subseteq Ids
        BY <1>1 DEF IInv, TypeOK, Ids
      <3> QED
        BY <3>1, <1>1, <1>2, <2>1 DEF IInv, BudgetInv
    <2>4. \A i \in Ids : i >= c' => done'[i] = 0
      BY <1>1, <2>1 DEF IInv, BudgetInv, Ids
    <2> QED
      BY <2>2, <2>3, <2>4 DEF BudgetInv
  <1> QED
    BY <1>4, <1>5, <1>6, <1>7, <1>8 DEF IInv

\* A handler that is removed is in flight nowhere.
LEMMA RemoveKeeps ==
    ASSUME IInv, NEW id, removeHandler(id)
    PROVE  IInv'
  <1>1. /\ id \in DOMAIN handlers /\ id \notin InFlight
        /\ DOMAIN handlers' = DOMAIN handlers \ {id}
        /\ \A j \in DOMAIN handlers' : handlers'[j] = handlers[j]
        /\ handlers' \in [DOMAIN handlers' -> Handler]
        /\ removed' = removed \cup {id}
        /\ UNCHANGED <<handlerIdCounter, stack, granted, done>>
    BY DEF removeHandler, IInv, TypeOK
  <1>2. \A k \in DOMAIN stack : stack[k].at # id \/ stack[k].at = End
    BY <1>1 DEF InFlight
  <1>3. TypeOK'
    BY <1>1 DEF IInv, TypeOK
  <1>4. IteratorInv'
    BY <1>1, <1>2 DEF IInv, IteratorInv
  <1>5. NestingInv'
    <2>1. \A k \in DOMAIN stack : k < Len(stack) =>
              handlers'[stack[k].at] = handlers[stack[k].at]
      BY <1>1, <1>2 DEF IInv, IteratorInv, NestingInv
    <2> QED
      BY <1>1, <2>1 DEF IInv, NestingInv
  <1>6. OwedInv'
    BY <1>1 DEF IInv, OwedInv
  <1>7. BudgetInv'
    BY <1>1 DEF IInv, BudgetInv, BudgetIsExact
  <1> QED
    BY <1>3, <1>4, <1>5, <1>6, <1>7 DEF IInv

\* A loop that is begun from a callback leaves the loops below it as they are,
\* and none of them is at a handler with a budget.
LEMMA DispatchKeeps ==
    ASSUME IInv, NEW on \in Types \cup {Exc}, Dispatch(on)
    PROVE  IInv'
  <1> DEFINE n == Len(stack)
             l == NewLoop(on)
  <1>1. /\ stack \in Seq(Loop) /\ n \in Nat /\ DOMAIN stack = 1..n
        /\ l \in Loop /\ l.on = on /\ l.state = "test"
        /\ l.at # End => l.at \in DOMAIN handlers /\ Walks(on, handlers[l.at])
        /\ l.owed \subseteq 0..handlerIdCounter - 1
        /\ \A i \in l.owed \cap DOMAIN handlers :
               handlers[i].on = on /\ l.at <= i
    BY NewLoopIs DEF IInv, TypeOK
  <1>2. stack' = Append(stack, l) /\ UNCHANGED <<handlers, handlerIdCounter, history>>
    BY DEF Dispatch
  <1> HIDE DEF l
  <1>3. /\ stack' \in Seq(Loop) /\ Len(stack') = n + 1 /\ DOMAIN stack' = 1..n + 1
        /\ stack'[n + 1] = l /\ \A k \in 1..n : stack'[k] = stack[k]
    BY <1>1, <1>2
  <1>4. \A k \in 1..n : /\ stack[k].state # "test"
                        /\ stack[k].at # End
                        /\ handlers[stack[k].at].times = Unlimited
    <2> SUFFICES ASSUME NEW k \in 1..n
                 PROVE  /\ stack[k].state # "test"
                        /\ stack[k].at # End
                        /\ handlers[stack[k].at].times = Unlimited
      OBVIOUS
    <2>1. stack[k].state # "test"
      <3>1. stack # <<>> /\ stack[n].state = "calling"
        BY <1>1 DEF Dispatch, MayDispatch, UserRuns, Top
      <3> QED
        BY <1>1, <3>1 DEF IInv, NestingInv
    <2>2. stack[k].at # End
      BY <1>1, <2>1 DEF IInv, IteratorInv
    <2>3. stack[k].at \in InFlight
      BY <1>1, <2>2 DEF InFlight
    <2> QED
      BY <2>1, <2>2, <2>3 DEF Dispatch, MayDispatch
  <1>5. TypeOK'
    BY <1>2, <1>3 DEF IInv, TypeOK, history
  <1>6. IteratorInv'
    BY <1>1, <1>2, <1>3 DEF IInv, IteratorInv
  <1>7. NestingInv'
    <2>1. n \in Nat /\ \A k \in 1..n + 1 : k # n + 1 => k \in 1..n /\ k < n + 1
      BY <1>1
    <2>2. l.state = "test" /\ l.on = on
      BY <1>1
    <2>3. \A k \in 1..n : stack[k].state = "caught" =>
              stack[k].on # Exc /\ k + 1 \in 1..n /\ stack[k + 1].on = Exc
      BY <1>1 DEF IInv, NestingInv
    <2> HIDE DEF n
    <2> SUFFICES ASSUME NEW k \in 1..n + 1
                 PROVE  /\ stack'[k].state = "test" => k = n + 1
                        /\ stack'[k].state = "caught" =>
                               stack'[k].on # Exc /\ k < n + 1 /\ stack'[k + 1].on = Exc
                        /\ k < n + 1 => handlers'[stack'[k].at].times = Unlimited
      BY <1>3 DEF NestingInv
    <2>4. CASE k = n + 1
      BY <2>1, <2>2, <2>4, <1>3
    <2>5. CASE k # n + 1
      <3>1. k \in 1..n /\ k < n + 1 /\ stack'[k] = stack[k]
        BY <2>1, <2>5, <1>3
      <3>2. stack[k].state = "caught" => stack'[k + 1] = stack[k + 1]
        BY <2>3, <3>1, <1>3
      <3> QED
        BY <2>3, <3>1, <3>2, <1>2, <1>4
    <2> QED
      BY <2>4, <2>5
  <1>8. OwedInv'
    BY <1>1, <1>2, <1>3 DEF IInv, OwedInv
  <1>9. BudgetInv'
    BY <1>2 DEF IInv, BudgetInv, BudgetIsExact, history
  <1> QED
    BY <1>5, <1>6, <1>7, <1>8, <1>9 DEF IInv

(***************************************************************************)
(* The loops.                                                              *)
(***************************************************************************)

\* Loops that end without going on leave the ones below them as they are.
LEMMA PopKeeps ==
    ASSUME IInv, UNCHANGED <<handlers, handlerIdCounter, history>>,
           stack' \in Seq(Loop), Len(stack') < Len(stack),
           \A k \in 1..Len(stack') : stack'[k] = stack[k],
           stack' # <<>> => stack[Len(stack')].state # "caught"
    PROVE  IInv'
  <1> DEFINE p == Len(stack')
             n == Len(stack)
  <1>1. /\ p \in Nat /\ n \in Nat /\ p < n /\ stack \in Seq(Loop)
        /\ DOMAIN stack' = 1..p /\ DOMAIN stack = 1..n
        /\ \A k \in 1..p : k \in DOMAIN stack /\ k \in 1..n
    BY DEF IInv, TypeOK
  <1>2. TypeOK'
    BY DEF IInv, TypeOK, history
  <1>3. IteratorInv'
    BY <1>1 DEF IInv, IteratorInv
  <1>4. NestingInv'
    <2>1. \A k \in 1..p : /\ k < n /\ (k = n - 1 => k = p)
                          /\ k # p => k < p /\ k + 1 \in 1..p
      <3> HIDE DEF p, n
      <3> QED  BY <1>1
    <2>2. \A k \in 1..p :
              /\ stack[k].state # "test"
              /\ stack[k].state = "caught" => stack[k].on # Exc /\ stack[k + 1].on = Exc
              /\ \/ handlers[stack[k].at].times = Unlimited
                 \/ k = p /\ stack[k].state = "caught"
      <3> HIDE DEF p, n
      <3> TAKE k \in 1..p
      <3>1. k < n /\ k # n /\ (k = n - 1 => k = p)
        BY <1>1, <2>1
      <3>2. k \in DOMAIN stack
        BY <1>1
      <3> QED
        BY <3>1, <3>2 DEF IInv, NestingInv, n
    <2>3. p # 0 => stack[p].state # "caught"
      BY <1>1
    <2> HIDE DEF p
    <2> SUFFICES ASSUME NEW k \in 1..p
                 PROVE  /\ stack'[k].state # "test"
                        /\ stack'[k].state = "caught" =>
                               stack'[k].on # Exc /\ k < p /\ stack'[k + 1].on = Exc
                        /\ handlers'[stack'[k].at].times = Unlimited
      BY <1>1 DEF NestingInv, p
    <2>4. stack'[k] = stack[k] /\ handlers' = handlers
      BY DEF p
    <2>5. stack[k].state = "caught" => k # p
      BY <2>3, <1>1
    <2>6. k # p => stack'[k + 1] = stack[k + 1]
      BY <2>1 DEF p
    <2> QED
      BY <2>1, <2>2, <2>3, <2>4, <2>5, <2>6
  <1>5. OwedInv'
    BY <1>1 DEF IInv, OwedInv
  <1>6. BudgetInv'
    BY DEF IInv, BudgetInv, BudgetIsExact, history
  <1> QED
    BY <1>2, <1>3, <1>4, <1>5, <1>6 DEF IInv

\* The handler that is called is one of the loop's own type; the loop owes it
\* no more.
LEMMA CallKeeps ==
    ASSUME IInv, CallHandler
    PROVE  IInv'
  <1> DEFINE n == Len(stack)
             l == [Top EXCEPT !.state = "calling", !.owed = @ \ {Top.at}]
  <1>1. /\ stack \in Seq(Loop) /\ n \in Nat \ {0} /\ DOMAIN stack = 1..n
        /\ Top = stack[n] /\ Top \in Loop /\ Top.at # End
        /\ handlers[Top.at].on = Top.on
        /\ Outer \in Seq(Loop) /\ Len(Outer) = n - 1
        /\ \A k \in 1..n - 1 : Outer[k] = stack[k]
    BY OuterIs DEF IInv, TypeOK, CallHandler, Testing, Runs, Top
  <1>2. /\ l \in Loop /\ l.on = Top.on /\ l.at = Top.at /\ l.state = "calling"
        /\ l.owed = Top.owed \ {Top.at}
    BY <1>1 DEF Loop
  <1>3. stack' = Append(Outer, l)
        /\ UNCHANGED <<handlers, handlerIdCounter, history>>
    BY DEF CallHandler
  <1> HIDE DEF l, n
  <1>4. \A k \in 1..n : k # n => k \in 1..n - 1 /\ k < n /\ k + 1 \in 1..n
    BY <1>1
  <1>5. /\ stack' \in Seq(Loop) /\ Len(stack') = n /\ DOMAIN stack' = 1..n
        /\ stack'[n] = l /\ \A k \in 1..n : k # n => stack'[k] = stack[k]
    <2>1. n - 1 + 1 = n
      BY <1>1
    <2>2. /\ stack' \in Seq(Loop) /\ Len(stack') = n - 1 + 1
          /\ stack'[n - 1 + 1] = l
          /\ \A k \in 1..n - 1 : stack'[k] = Outer[k]
      BY <1>1, <1>2, <1>3, AppendProperties
    <2> QED
      BY <2>1, <2>2, <1>1, <1>4
  <1>6. TypeOK'
    BY <1>3, <1>5 DEF IInv, TypeOK, history
  <1>7. IteratorInv'
    <2>1. Top.at \in DOMAIN handlers /\ Walks(Top.on, handlers[Top.at])
      BY <1>1 DEF IInv, IteratorInv
    <2>2. \A k \in 1..n : k \in DOMAIN stack /\ (k # n => stack'[k] = stack[k])
      BY <1>1, <1>5
    <2> QED
      BY <2>1, <2>2, <1>1, <1>2, <1>3, <1>5 DEF IInv, IteratorInv
  <1>8. NestingInv'
    <2>2. \A k \in 1..n : stack'[k].on = stack[k].on /\ stack'[k].at = stack[k].at
      BY <1>1, <1>2, <1>5
    <2> SUFFICES ASSUME NEW k \in 1..n
                 PROVE  /\ stack'[k].state = "test" => k = n
                        /\ stack'[k].state = "caught" =>
                               stack'[k].on # Exc /\ k < n /\ stack'[k + 1].on = Exc
                        /\ k < n =>
                               \/ handlers'[stack'[k].at].times = Unlimited
                               \/ k = n - 1 /\ stack'[k].state = "caught"
      BY <1>5 DEF NestingInv
    <2>3. CASE k = n
      BY <2>3, <1>1, <1>2, <1>5
    <2>4. CASE k # n
      <3>1. /\ stack[k].state = "test" => k = n
            /\ stack[k].state = "caught" =>
                   stack[k].on # Exc /\ k < n /\ stack[k + 1].on = Exc
            /\ k < n => \/ handlers[stack[k].at].times = Unlimited
                        \/ k = n - 1 /\ stack[k].state = "caught"
        BY <1>1 DEF IInv, NestingInv, n
      <3>2. stack'[k] = stack[k] /\ stack'[k + 1].on = stack[k + 1].on
        BY <2>2, <2>4, <1>5, <1>4
      <3> QED
        BY <3>1, <3>2, <1>3
    <2> QED
      BY <2>3, <2>4
  <1>9. OwedInv'
    <2>1. \A k \in 1..n : k \in DOMAIN stack /\ (k # n => stack'[k] = stack[k])
      BY <1>1, <1>5
    <2>2. /\ Top.owed \subseteq 0..handlerIdCounter - 1
          /\ \A i \in Top.owed \cap DOMAIN handlers :
                 handlers[i].on = Top.on /\ Top.at <= i
      BY <1>1 DEF IInv, OwedInv
    <2>3. /\ l.owed \subseteq 0..handlerIdCounter - 1
          /\ \A i \in l.owed \cap DOMAIN handlers :
                 handlers[i].on = l.on /\ l.at <= i /\ l.at # i
      BY <2>2, <1>2
    <2> QED
      BY <2>1, <2>3, <1>3, <1>5 DEF IInv, OwedInv
  <1>10. BudgetInv'
    BY <1>3 DEF IInv, BudgetInv, BudgetIsExact, history
  <1> QED
    BY <1>6, <1>7, <1>8, <1>9, <1>10 DEF IInv

\* A handler that throws stays in flight while its exception is dispatched; the
\* exception handlers are in the other map.
LEMMA ThrowKeeps ==
    ASSUME IInv, Throw
    PROVE  IInv'
  <1> DEFINE n == Len(stack)
             t == [Top EXCEPT !.state = "caught"]
             l == NewLoop(Exc)
  <1>1. /\ stack \in Seq(Loop) /\ n \in Nat \ {0} /\ DOMAIN stack = 1..n
        /\ Top = stack[n] /\ Top \in Loop /\ Top.state = "calling" /\ Top.on # Exc
        /\ Outer \in Seq(Loop) /\ Len(Outer) = n - 1
        /\ \A k \in 1..n - 1 : Outer[k] = stack[k]
    BY OuterIs DEF IInv, TypeOK, Throw, Calling, Top
  <1>2. /\ t \in Loop /\ t.on = Top.on /\ t.at = Top.at /\ t.state = "caught"
        /\ t.owed = Top.owed
    BY <1>1 DEF Loop
  <1>3. /\ l \in Loop /\ l.on = Exc /\ l.state = "test"
        /\ l.at # End => l.at \in DOMAIN handlers /\ Walks(Exc, handlers[l.at])
        /\ l.owed \subseteq 0..handlerIdCounter - 1
        /\ \A i \in l.owed \cap DOMAIN handlers :
               handlers[i].on = Exc /\ l.at <= i
    BY NewLoopIs DEF IInv
  <1>4. stack' = Append(Append(Outer, t), l)
        /\ UNCHANGED <<handlers, handlerIdCounter, history>>
    BY DEF Throw
  <1> HIDE DEF t, l, n
  <1>5. \A k \in 1..n + 1 : \/ k = n + 1
                            \/ k = n
                            \/ k \in 1..n - 1 /\ k \in 1..n /\ k < n /\ k # n
    BY <1>1
  <1>6. /\ stack' \in Seq(Loop) /\ Len(stack') = n + 1 /\ DOMAIN stack' = 1..n + 1
        /\ stack'[n + 1] = l /\ stack'[n] = t
        /\ \A k \in 1..n - 1 : stack'[k] = stack[k]
    <2>1. n - 1 + 1 = n /\ n \in 1..n /\ \A k \in 1..n - 1 : k \in 1..n
      BY <1>1
    <2>2. /\ Append(Outer, t) \in Seq(Loop) /\ Len(Append(Outer, t)) = n - 1 + 1
          /\ Append(Outer, t)[n - 1 + 1] = t
          /\ \A k \in 1..n - 1 : Append(Outer, t)[k] = Outer[k]
      BY <1>1, <1>2, AppendProperties
    <2>3. /\ stack' \in Seq(Loop) /\ Len(stack') = n + 1 /\ stack'[n + 1] = l
          /\ \A k \in 1..n : stack'[k] = Append(Outer, t)[k]
      BY <2>1, <2>2, <1>3, <1>4, AppendProperties
    <2> QED
      BY <2>1, <2>2, <2>3, <1>1
  <1>7. TypeOK'
    BY <1>4, <1>6 DEF IInv, TypeOK, history
  <1>8. IteratorInv'
    <2>1. /\ Top.at \in DOMAIN handlers /\ Walks(Top.on, handlers[Top.at])
          /\ Top.at # End /\ handlers[Top.at].on = Top.on
      BY <1>1 DEF IInv, IteratorInv
    <2>2. \A k \in 1..n - 1 : k \in DOMAIN stack
      BY <1>1
    <2> SUFFICES ASSUME NEW k \in 1..n + 1
                 PROVE  /\ stack'[k].at # End =>
                               /\ stack'[k].at \in DOMAIN handlers
                               /\ Walks(stack'[k].on, handlers[stack'[k].at])
                        /\ stack'[k].state # "test" =>
                               /\ stack'[k].at # End
                               /\ handlers[stack'[k].at].on = stack'[k].on
      BY <1>4, <1>6 DEF IteratorInv
    <2>3. CASE k = n + 1
      BY <2>3, <1>3, <1>6
    <2>4. CASE k = n
      BY <2>1, <2>4, <1>2, <1>6
    <2>5. CASE k \in 1..n - 1
      BY <2>2, <2>5, <1>6 DEF IInv, IteratorInv
    <2> QED
      BY <2>3, <2>4, <2>5, <1>5
  <1>9. NestingInv'
    <2> SUFFICES ASSUME NEW k \in 1..n + 1
                 PROVE  /\ stack'[k].state = "test" => k = n + 1
                        /\ stack'[k].state = "caught" =>
                               stack'[k].on # Exc /\ k < n + 1 /\ stack'[k + 1].on = Exc
                        /\ k < n + 1 =>
                               \/ handlers'[stack'[k].at].times = Unlimited
                               \/ k = n /\ stack'[k].state = "caught"
      <3>1. DOMAIN stack' = 1..n + 1 /\ Len(stack') = n + 1
            /\ Len(stack') - 1 = n
        BY <1>1, <1>6
      <3> QED
        BY <3>1 DEF NestingInv
    <2>1. CASE k = n + 1
      BY <2>1, <1>1, <1>3, <1>6
    <2>2. CASE k = n
      <3>1. n < n + 1
        BY <1>1
      <3> QED
        BY <2>2, <3>1, <1>1, <1>2, <1>3, <1>6
    <2>3. CASE k \in 1..n - 1 /\ k \in 1..n /\ k < n /\ k # n
      <3>1. /\ stack[k].state # "test"
            /\ stack[k].state = "caught" => stack[k].on # Exc /\ stack[k + 1].on = Exc
            /\ \/ handlers[stack[k].at].times = Unlimited
               \/ k + 1 = n /\ stack[k].state = "caught"
        <4>1. k = n - 1 => k + 1 = n
          BY <2>3, <1>1
        <4>2. k \in DOMAIN stack
          BY <2>3, <1>1
        <4> QED
          BY <2>3, <4>1, <4>2 DEF IInv, NestingInv, n
      <3>2. stack'[k + 1].on = stack[k + 1].on
        <4>1. k + 1 = n \/ k + 1 \in 1..n - 1
          BY <2>3, <1>1
        <4> QED
          BY <4>1, <1>1, <1>2, <1>6
      <3>3. k < n + 1 /\ ~(stack[k].state = "caught" /\ k + 1 = n)
        BY <2>3, <3>1, <1>1
      <3> QED
        BY <2>3, <3>1, <3>2, <3>3, <1>4, <1>6
    <2> QED
      BY <2>1, <2>2, <2>3, <1>5
  <1>10. OwedInv'
    <2>1. /\ Top.owed \subseteq 0..handlerIdCounter - 1
          /\ \A i \in Top.owed \cap DOMAIN handlers :
                 handlers[i].on = Top.on /\ Top.at <= i /\ Top.at # i
      BY <1>1 DEF IInv, OwedInv
    <2>2. \A k \in 1..n - 1 : k \in DOMAIN stack
      BY <1>1
    <2> SUFFICES ASSUME NEW k \in 1..n + 1
                 PROVE  /\ stack'[k].owed \subseteq 0..handlerIdCounter - 1
                        /\ \A i \in stack'[k].owed \cap DOMAIN handlers :
                               /\ handlers[i].on = stack'[k].on
                               /\ stack'[k].at <= i
                               /\ stack'[k].state # "test" => stack'[k].at # i
      BY <1>4, <1>6 DEF OwedInv
    <2>3. CASE k = n + 1
      BY <2>3, <1>3, <1>6
    <2>4. CASE k = n
      BY <2>1, <2>4, <1>2, <1>6
    <2>5. CASE k \in 1..n - 1
      BY <2>2, <2>5, <1>6 DEF IInv, OwedInv
    <2> QED
      BY <2>3, <2>4, <2>5, <1>5
  <1>11. BudgetInv'
    BY <1>4 DEF IInv, BudgetInv, BudgetIsExact, history
  <1> QED
    BY <1>7, <1>8, <1>9, <1>10, <1>11 DEF IInv

\* An exception handler that throws leaves a loop that is calling a handler.
LEMMA ThrowAgainKeeps ==
    ASSUME IInv, ThrowAgain
    PROVE  IInv'
  <1> DEFINE n == Len(stack)
  <1>1. /\ stack \in Seq(Loop) /\ n \in Nat \ {0} /\ DOMAIN stack = 1..n
        /\ Outer \in Seq(Loop) /\ Len(Outer) = n - 1
        /\ \A k \in 1..n - 1 : Outer[k] = stack[k]
        /\ UNCHANGED <<handlers, handlerIdCounter, history>>
    BY OuterIs DEF IInv, TypeOK, ThrowAgain, Calling
  <1>2. CASE Outer # <<>> /\ Outer[Len(Outer)].state = "caught"
    <2>1. stack' = SubSeq(Outer, 1, Len(Outer) - 1)
      BY <1>2 DEF ThrowAgain
    <2>2. /\ stack' \in Seq(Loop) /\ Len(stack') = n - 1 - 1
          /\ \A k \in 1..n - 1 - 1 : stack'[k] = Outer[k]
      BY <1>1, <1>2, <2>1, FrontIs
    <2>3. n - 1 \in Nat \ {0}
      BY <1>1, <1>2
    <2> HIDE DEF n
    <2>4. /\ Len(stack') < n /\ \A k \in 1..n - 1 - 1 : k \in 1..n - 1
          /\ stack' # <<>> => n - 2 \in 1..n /\ n - 1 - 1 = n - 2 /\ n - 2 + 1 = n - 1
      BY <2>2, <2>3, <1>1
    <2>5. stack[n - 1].on # Exc
      BY <2>3, <1>1, <1>2 DEF IInv, NestingInv
    <2>6. stack' # <<>> => stack[n - 2].state # "caught"
      BY <2>4, <2>5, <1>1 DEF IInv, NestingInv
    <2> QED
      BY <2>2, <2>4, <2>6, <1>1, PopKeeps DEF n
  <1>3. CASE ~(Outer # <<>> /\ Outer[Len(Outer)].state = "caught")
    <2>1. stack' = Outer
      BY <1>3 DEF ThrowAgain
    <2>2. Len(Outer) < n /\ (Outer # <<>> => Len(Outer) \in 1..n - 1)
      BY <1>1
    <2> QED
      BY <2>1, <2>2, <1>1, <1>3, PopKeeps
  <1> QED
    BY <1>2, <1>3

\* A handler that is passed over has calls left, and stays.
LEMMA PassOverKeeps ==
    ASSUME IInv, PassOver
    PROVE  IInv'
  <1>1. /\ stack # <<>> /\ Top = stack[Len(stack)] /\ Top.at # End
        /\ ~Runs(Top) /\ GoOn(stack, handlers)
        /\ UNCHANGED <<handlerIdCounter, history>>
    BY DEF PassOver, Testing, Top
  <1>2. stack \in Seq(Loop) /\ Len(stack) \in DOMAIN stack
        /\ Len(stack) \in Nat
    BY <1>1 DEF IInv, TypeOK
  <1>3. Top.at \in DOMAIN handlers
    BY <1>1, <1>2 DEF IInv, IteratorInv
  <1>4. handlers[Top.at] \in Handler /\ Active(handlers[Top.at])
        /\ handlers \in [DOMAIN handlers -> Handler]
    BY <1>3, DispatcherAssumption DEF IInv, TypeOK, Handler, Active
  <1>5. handlers[Top.at].on # Top.on
    BY <1>1, <1>4 DEF Runs
  <1>8. BodyEnds(stack, Top, handlers)
    BY <1>1, <1>2, <1>4, <1>5 DEF BodyEnds
  <1>6. /\ DOMAIN handlers' = IF Active(handlers[Top.at]) THEN DOMAIN handlers
                             ELSE DOMAIN handlers \ {Top.at}
        /\ stack' \in Seq(Loop)
        /\ IteratorInv' /\ NestingInv' /\ OwedInv'
    BY <1>1, <1>2, <1>8, GoOnKeeps
  <1>7. handlers' = handlers
    BY <1>1, <1>4 DEF GoOn, Advance
  <1> QED
    BY <1>1, <1>6, <1>7
       DEF IInv, TypeOK, BudgetInv, BudgetIsExact, history

\* A call that returns takes one from the budget of its handler, which is
\* erased with its last call, and counts as completed.
LEMMA ReturnKeeps ==
    ASSUME IInv, Return
    PROVE  IInv'
  <1> DEFINE at == Top.at
             m == Decrement(handlers, at)
  <1>1. /\ stack # <<>> /\ Top = stack[Len(stack)] /\ Top.state = "calling"
        /\ GoOn(stack, m) /\ handlerIdCounter' = handlerIdCounter
        /\ UNCHANGED <<granted, removed>>
    BY DEF Return, Calling, Top
  <1>2. stack \in Seq(Loop) /\ Len(stack) \in DOMAIN stack /\ Len(stack) \in Nat
    BY <1>1 DEF IInv, TypeOK
  <1>3. at \in DOMAIN handlers /\ at # End
    BY <1>1, <1>2 DEF IInv, IteratorInv
  <1>4. /\ handlers \in [DOMAIN handlers -> Handler] /\ handlers[at] \in Handler
        /\ at \in Ids /\ at \in 0..handlerIdCounter - 1
        /\ DOMAIN handlers \subseteq Ids
    BY <1>3, DispatcherAssumption DEF IInv, TypeOK, Ids
  <1>5. /\ DOMAIN m = DOMAIN handlers
        /\ m = [j \in DOMAIN handlers |-> m[j]]
        /\ \A j \in DOMAIN handlers : j # at => m[j] = handlers[j]
        /\ m[at].on = handlers[at].on
        /\ handlers[at].times = Unlimited => m[at] = handlers[at]
        /\ handlers[at].times # Unlimited =>
               m[at] = [handlers[at] EXCEPT !.times = @ - 1]
    BY <1>3, <1>4 DEF Decrement
  <1>6. CASE handlers[at].times = Unlimited
    <2>1. m[at] = handlers[at] /\ Active(m[at])
      BY <1>5, <1>6 DEF Active
    <2>2. handlers' = handlers /\ done' = done
      <3>1. m = handlers
        BY <1>6 DEF Decrement
      <3>2. granted[at] = Unlimited
        BY <1>3, <1>6 DEF IInv, BudgetInv
      <3> QED
        BY <2>1, <3>1, <3>2, <1>1 DEF GoOn, Advance, Return
    <2>3. BodyEnds(stack, Top, m)
      <3> HIDE DEF m
      <3> QED  BY <2>1, <1>1, <1>2, <1>3, <1>4, <1>5 DEF BodyEnds
    <2>4. stack' \in Seq(Loop) /\ IteratorInv' /\ NestingInv' /\ OwedInv'
      <3> HIDE DEF m
      <3> QED  BY <2>3, <1>1, <1>2, GoOnKeeps
    <2> QED
      BY <2>2, <2>4, <1>1 DEF IInv, TypeOK, BudgetInv, BudgetIsExact
  <1>7. CASE handlers[at].times # Unlimited
    <2> DEFINE t == handlers[at].times
    <2>1. t \in Nat \ {0} /\ granted[at] \in Nat /\ granted[at] # Unlimited
          /\ t - 1 \in Nat /\ t - 1 # Unlimited
      <3>1. t \in Nat \ {0}
        BY <1>4, <1>7 DEF Handler
      <3>2. granted[at] # Unlimited
        BY <1>3, <1>7 DEF IInv, BudgetInv
      <3> QED
        <4>1. granted[at] \in (Nat \ {0}) \cup {Unlimited}
          BY <1>4 DEF IInv, TypeOK
        <4>2. t - 1 \in Nat
          BY <3>1
        <4> QED
          BY <3>1, <3>2, <4>1, <4>2, DispatcherAssumption
    <2>2. m[at] = [on |-> handlers[at].on, times |-> t - 1]
      BY <1>4, <1>5, <1>7 DEF Handler
    <2>3. Active(m[at]) <=> t - 1 > 0
      <3> HIDE DEF t, m
      <3> QED  BY <2>1, <2>2 DEF Active
    <2>4. Active(m[at]) => m[at] \in Handler
      <3>1. Active(m[at]) => t - 1 \in Nat \ {0}
        BY <2>1, <2>3
      <3>2. handlers[at].on \in Types \cup {Exc}
        BY <1>4 DEF Handler
      <3> HIDE DEF t, m
      <3> QED  BY <2>2, <3>1, <3>2 DEF Handler
    <2>5. BodyEnds(stack, Top, m)
      <3> HIDE DEF m
      <3> QED  BY <2>4, <1>1, <1>2, <1>3, <1>5, <1>7 DEF BodyEnds
    <2>6. /\ DOMAIN handlers' = IF Active(m[at]) THEN DOMAIN handlers
                                ELSE DOMAIN handlers \ {at}
          /\ \A j \in DOMAIN handlers' :
                 handlers'[j] = m[j] /\ handlers'[j] \in Handler
          /\ stack' \in Seq(Loop) /\ IteratorInv' /\ NestingInv' /\ OwedInv'
      <3> HIDE DEF m
      <3> QED  BY <2>5, <1>1, <1>2, GoOnKeeps
    <2>7. handlers' \in [DOMAIN handlers' -> Handler]
      <3>1. handlers' = IF Active(m[at]) THEN m
                        ELSE [j \in DOMAIN m \ {at} |-> m[j]]
        BY <1>1 DEF GoOn, Advance
      <3> HIDE DEF m
      <3>2. handlers' = [j \in DOMAIN handlers' |-> handlers'[j]]
        BY <3>1, <1>5
      <3> QED
        BY <2>6, <3>2
    <2>8. done' = [done EXCEPT ![at] = @ + 1]
      BY <2>1 DEF Return
    <2>9. TypeOK'
      BY <2>6, <2>7, <2>8, <1>1, <1>4 DEF IInv, TypeOK
    <2>10. BudgetIsExact'
      <3> SUFFICES ASSUME NEW i \in 0..handlerIdCounter - 1,
                          granted[i] # Unlimited, i \notin removed
                   PROVE  IF i \in DOMAIN handlers'
                          THEN done'[i] + handlers'[i].times = granted[i]
                          ELSE done'[i] = granted[i]
        BY <1>1 DEF BudgetIsExact
      <3>1. IF i \in DOMAIN handlers THEN done[i] + handlers[i].times = granted[i]
            ELSE done[i] = granted[i]
        BY DEF IInv, BudgetInv, BudgetIsExact
      <3>2. i \in Ids
        BY DispatcherAssumption DEF IInv, TypeOK, Ids
      <3>3. CASE i = at
        <4>1. done[at] \in Nat /\ done'[at] = done[at] + 1
              /\ done[at] + t = granted[at]
          BY <2>8, <3>1, <3>3, <1>3, <1>4 DEF IInv, TypeOK
        <4>2. at \in DOMAIN handlers' <=> t - 1 > 0
          BY <2>3, <2>6, <1>3
        <4>3. at \in DOMAIN handlers' => handlers'[at].times = t - 1
          BY <2>2, <2>6
        <4> HIDE DEF t
        <4> QED
          BY <2>1, <3>3, <4>1, <4>2, <4>3
      <3>4. CASE i # at
        <4>1. done'[i] = done[i] /\ (i \in DOMAIN handlers' <=> i \in DOMAIN handlers)
              /\ (i \in DOMAIN handlers => handlers'[i] = handlers[i])
          BY <2>6, <2>8, <3>2, <3>4, <1>5 DEF IInv, TypeOK
        <4> QED
          BY <3>1, <4>1
      <3> QED
        BY <3>3, <3>4
    <2>11. \A i \in DOMAIN handlers' :
               handlers'[i].times = Unlimited <=> granted'[i] = Unlimited
      <3> SUFFICES ASSUME NEW i \in DOMAIN handlers'
                   PROVE  handlers'[i].times = Unlimited <=> granted[i] = Unlimited
        BY <1>1
      <3>1. CASE i = at
        BY <2>1, <2>2, <2>6, <3>1
      <3>2. CASE i # at
        BY <2>6, <3>2, <1>5 DEF IInv, BudgetInv
      <3> QED
        BY <3>1, <3>2
    <2>12. \A i \in Ids : i >= handlerIdCounter' => done'[i] = 0
      <3>1. \A i \in Ids : i >= handlerIdCounter => i # at
        BY <1>4, DispatcherAssumption DEF IInv, TypeOK, Ids
      <3> QED
        BY <2>8, <3>1, <1>1 DEF IInv, TypeOK, BudgetInv
    <2> QED
      BY <2>6, <2>9, <2>10, <2>11, <2>12 DEF IInv, BudgetInv
  <1> QED
    BY <1>6, <1>7

\* The end of the loop that dispatched an exception ends the body of the loop
\* that caught it; any other loop ends without touching a handler.
LEMMA LoopEndsKeeps ==
    ASSUME IInv, LoopEnds
    PROVE  IInv'
  <1> DEFINE n == Len(stack)
  <1>1. /\ stack \in Seq(Loop) /\ n \in Nat \ {0} /\ DOMAIN stack = 1..n
        /\ Outer \in Seq(Loop) /\ Len(Outer) = n - 1
        /\ \A k \in 1..n - 1 : Outer[k] = stack[k]
        /\ UNCHANGED <<handlerIdCounter, history>>
    BY OuterIs DEF IInv, TypeOK, LoopEnds
  <1>2. CASE Outer # <<>> /\ Outer[Len(Outer)].state = "caught"
    <2> DEFINE l == stack[n - 1]
    <2>1. GoOn(Outer, handlers)
      BY <1>2 DEF LoopEnds
    <2>2. n - 1 \in 1..n - 1 /\ n - 1 \in 1..n /\ n - 1 \in Nat \ {0} /\ n - 1 <= n
      BY <1>1, <1>2
    <2>3. l.state = "caught" /\ l.state # "test" /\ n - 1 \in DOMAIN stack
      BY <2>2, <1>1, <1>2
    <2>4. l.at # End /\ l.at \in DOMAIN handlers
      BY <2>3 DEF IInv, IteratorInv
    <2>5. handlers[l.at] \in Handler /\ Active(handlers[l.at])
      BY <2>4, DispatcherAssumption DEF IInv, TypeOK, Handler, Active
    <2> HIDE DEF n
    <2>6. BodyEnds(Outer, l, handlers)
      BY <2>2, <2>3, <2>4, <2>5, <1>1, <1>2 DEF BodyEnds, n
    <2>7. stack' \in Seq(Loop) /\ IteratorInv' /\ NestingInv' /\ OwedInv'
      BY <2>1, <2>6, <1>1, GoOnKeeps
    <2>8. handlers' = handlers
      BY <2>1, <2>2, <2>5, <1>1 DEF GoOn, Advance
    <2> QED
      BY <2>7, <2>8, <1>1
         DEF IInv, TypeOK, BudgetInv, BudgetIsExact, history
  <1>3. CASE ~(Outer # <<>> /\ Outer[Len(Outer)].state = "caught")
    <2>1. stack' = Outer /\ handlers' = handlers
      BY <1>3 DEF LoopEnds
    <2>2. Len(Outer) < n /\ (Outer # <<>> => Len(Outer) \in 1..n - 1)
      BY <1>1
    <2> QED
      BY <2>1, <2>2, <1>1, <1>3, PopKeeps
  <1> QED
    BY <1>2, <1>3

(***************************************************************************)
(* The theorems.                                                           *)
(***************************************************************************)

\* Before the first handler is added nothing is owed or spent.
LEMMA InitIInv ==
    ASSUME Init
    PROVE  IInv
  <1>1. TypeOK
    BY DispatcherAssumption DEF Init, TypeOK, Ids
  <1>2. IteratorInv /\ NestingInv /\ OwedInv
    BY DEF Init, IteratorInv, NestingInv, OwedInv
  <1>3. BudgetInv
    BY DEF Init, BudgetInv, BudgetIsExact
  <1> QED
    BY <1>1, <1>2, <1>3 DEF IInv

\* The invariant IInv of the dispatcher, for every set of types and budgets and
\* every bound on handlers and nesting: types, iterators, the nesting of the
\* loops, what they owe, and the budgets.
THEOREM Invariance == Spec => []IInv
  <1>1. Init => IInv
    BY InitIInv
  <1>2. IInv /\ [Next]_vars => IInv'
    <2> SUFFICES ASSUME IInv, [Next]_vars PROVE IInv'
      OBVIOUS
    <2>1. ASSUME NEW on \in Types \cup {Exc}, NEW times \in Budgets, Add(on, times)
          PROVE  IInv'
      BY <2>1, AddKeeps
    <2>2. ASSUME NEW id \in Ids, removeHandler(id)
          PROVE  IInv'
      BY <2>2, RemoveKeeps
    <2>3. ASSUME NEW on \in Types \cup {Exc}, Dispatch(on)
          PROVE  IInv'
      BY <2>3, DispatchKeeps
    <2>4. CASE CallHandler
      BY <2>4, CallKeeps
    <2>5. CASE PassOver
      BY <2>5, PassOverKeeps
    <2>6. CASE LoopEnds
      BY <2>6, LoopEndsKeeps
    <2>7. CASE Return
      BY <2>7, ReturnKeeps
    <2>8. CASE Throw
      BY <2>8, ThrowKeeps
    <2>9. CASE ThrowAgain
      BY <2>9, ThrowAgainKeeps
    <2>10. CASE UNCHANGED vars
      BY <2>10 DEF vars, history, IInv, TypeOK, IteratorInv, NestingInv, OwedInv,
                  BudgetInv, BudgetIsExact
    <2> QED
      BY <2>1, <2>2, <2>3, <2>4, <2>5, <2>6, <2>7, <2>8, <2>9, <2>10
         DEF Next, LoopStep, CallbackEnds
  <1> QED
    BY <1>1, <1>2, PTL DEF Spec

\* No loop of dispatchEvent or dispatchException ever holds an iterator to a
\* handler that was erased.
THEOREM IteratorsStayValid == Spec => []IteratorsValid
  <1>1. IInv => IteratorsValid
    BY DEF IInv, IteratorInv, IteratorsValid, InFlight
  <1> QED
    BY <1>1, Invariance, PTL

\* A loop that comes to its end has called every handler of its type that was
\* there when it began and still is, whatever threw on the way.
THEOREM NobodyIsSkipped == Spec => []NobodySkipped
  <1>1. IInv => NobodySkipped
    <2> SUFFICES ASSUME IInv, stack # <<>>, Top.state = "test", Top.at = End
                 PROVE  Top.owed \cap DOMAIN handlers = {}
      BY DEF NobodySkipped
    <2>1. Len(stack) \in DOMAIN stack /\ Top = stack[Len(stack)]
      BY DEF IInv, TypeOK, Top
    <2>2. \A i \in Top.owed \cap DOMAIN handlers : End <= i /\ i \in Ids
      BY <2>1, DispatcherAssumption DEF IInv, TypeOK, OwedInv, Ids
    <2> QED
      BY <2>2, DispatcherAssumption DEF Ids, End
  <1> QED
    BY <1>1, Invariance, PTL

\* A handler with a budget completes exactly that many calls before it is
\* dropped, whatever other handlers, nested loops and exceptions do.
THEOREM BudgetsAreExact == Spec => []BudgetIsExact
  <1>1. IInv => BudgetIsExact
    BY DEF IInv, BudgetInv
  <1> QED
    BY <1>1, Invariance, PTL

\* No handler with a budget used up is left when no loop runs, nor, in fact,
\* between any two steps.
THEOREM NoneLeftExpired == Spec => []NoneExpiredAtRest
  <1>1. IInv => NoneExpiredAtRest
    BY DispatcherAssumption DEF IInv, TypeOK, Handler, Active, NoneExpiredAtRest
  <1> QED
    BY <1>1, Invariance, PTL
=============================================================================
