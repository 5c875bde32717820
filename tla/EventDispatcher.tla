--------------------------- MODULE EventDispatcher ----------------------------
(***************************************************************************)
(* EventDispatcher (src/cb/event.h, event.cpp): handlers, called in the    *)
(* order they were added, some with a budget of calls; a handler that      *)
(* throws is caught and its exception dispatched to the exception          *)
(* handlers.  Callbacks are the application's: while one runs it may add   *)
(* and remove handlers and dispatch again, so that loops over the same     *)
(* maps nest.  stack holds the loops under way, the innermost last.        *)
(***************************************************************************)
EXTENDS Integers, Sequences, FiniteSetsExt

CONSTANTS
    Types,          \* event codes
    Unlimited,      \* no budget: times is std::nullopt
    Budgets,        \* the budgets handlers are added with
    MaxHandlers,    \* bound on the handlers ever added
    MaxDepth        \* bound on nested loops

Exc == "exception"      \* what an exception handler listens to

ASSUME DispatcherAssumption ==
    /\ Unlimited \notin Nat /\ Budgets \subseteq (Nat \ {0}) \cup {Unlimited}
    /\ Exc \notin Types
    /\ MaxHandlers \in Nat /\ MaxDepth \in Nat

Ids == 0..MaxHandlers - 1
End == MaxHandlers      \* the end() iterator

VARIABLES
    handlers,           \* eventHandlers and exceptionHandlers: id -> handler
    handlerIdCounter,
    stack,              \* loops of dispatchEvent and dispatchException
    granted,            \* history: the budget each handler was added with
    done,               \* history: the calls each handler has completed
    removed             \* history: the handlers taken out by removeHandler

history == <<granted, done, removed>>
vars == <<handlers, handlerIdCounter, stack, history>>

\* A loop listens on a type or Exc; its iterator is at a handler or End; it is
\* about to test the handler, calling it, or done with its exception; and it
\* owes a call to the handlers of its type that were there when it began.

Top == stack[Len(stack)]
Outer == SubSeq(stack, 1, Len(stack) - 1)

\* Application code runs: no loop, or the callback of the innermost one.
UserRuns == stack # <<>> => Top.state = "calling"

Active(h) == h.times # Unlimited => h.times > 0

\* dispatchException walks one map, dispatchEvent the other.
Walks(on, h) == (on = Exc) = (h.on = Exc)

\* The first iterator from i on in the map a loop walks, as map m is now.
From(m, on, i) ==
    Min({j \in DOMAIN m : j >= i /\ Walks(on, m[j])} \cup {End})

\* Mutants: the iterator stays at an erased handler; an expired handler stays
\* in the map.
Advance_KeepsIterator(m, loop) ==
    IF Active(m[loop.at])
    THEN [map |-> m,
          loop |-> [loop EXCEPT !.state = "test",
                                !.at = From(m, loop.on, loop.at + 1)]]
    ELSE [map |-> [j \in DOMAIN m \ {loop.at} |-> m[j]],
          loop |-> [loop EXCEPT !.state = "test"]]

Advance_Keeps(m, loop) ==
    [map |-> m,
     loop |-> [loop EXCEPT !.state = "test",
                           !.at = From(m, loop.on, loop.at + 1)]]

\* The end of the loop's body: keep the handler, or erase it, and go on.
Advance(m, loop) ==
    LET m2 == IF Active(m[loop.at]) THEN m
              ELSE [j \in DOMAIN m \ {loop.at} |-> m[j]]
    IN  [map |-> m2,
         loop |-> [loop EXCEPT !.state = "test",
                               !.at = From(m2, loop.on, loop.at + 1)]]

\* The innermost of the loops s has ended its body, with the handlers m.
GoOn(s, m) ==
    LET a == Advance(m, s[Len(s)])
    IN  handlers' = a.map /\ stack' = [s EXCEPT ![Len(s)] = a.loop]

-----------------------------------------------------------------------------
(* What application code does.                                             *)

Add(on, times) ==
    /\ UserRuns
    /\ handlerIdCounter < MaxHandlers
    /\ handlers' = [i \in DOMAIN handlers \cup {handlerIdCounter} |->
                      IF i = handlerIdCounter THEN [on |-> on, times |-> times]
                      ELSE handlers[i]]
    /\ handlerIdCounter' = handlerIdCounter + 1
    /\ granted' = [granted EXCEPT ![handlerIdCounter] = times]
    /\ UNCHANGED <<stack, done, removed>>

\* The handlers a loop will dereference its iterator for.
InFlight == {stack[k].at : k \in DOMAIN stack} \ {End}

\* An application may not remove a handler whose callback runs: the loop's
\* iterator would dangle.
removeHandler(id) ==
    /\ UserRuns
    /\ id \in DOMAIN handlers \ InFlight
    /\ handlers' = [j \in DOMAIN handlers \ {id} |-> handlers[j]]
    /\ removed' = removed \cup {id}
    /\ UNCHANGED <<handlerIdCounter, stack, granted, done>>

\* Nor may it dispatch while a handler with a budget is being called, or its
\* exception handled: the inner loop could erase that handler.
MayDispatch ==
    /\ UserRuns /\ Len(stack) < MaxDepth
    /\ \A i \in InFlight : handlers[i].times = Unlimited

NewLoop(on) ==
    [on |-> on, at |-> From(handlers, on, 0), state |-> "test",
     owed |-> {i \in DOMAIN handlers : handlers[i].on = on}]

\* dispatchEvent, dispatchException.
Dispatch(on) ==
    /\ MayDispatch
    /\ stack' = Append(stack, NewLoop(on))
    /\ UNCHANGED <<handlers, handlerIdCounter, history>>

-----------------------------------------------------------------------------
(* The loops.                                                              *)

\* EventHandler::call runs the callback of an active handler; the filter of an
\* event handler runs it only for its own type of event.
Runs(loop) == Active(handlers[loop.at]) /\ handlers[loop.at].on = loop.on

Testing == stack # <<>> /\ Top.state = "test" /\ Top.at # End

CallHandler ==
    /\ Testing /\ Runs(Top)
    /\ stack' = Append(Outer, [Top EXCEPT !.state = "calling",
                                          !.owed = @ \ {Top.at}])
    /\ UNCHANGED <<handlers, handlerIdCounter, history>>

PassOver ==
    /\ Testing /\ ~Runs(Top)
    /\ GoOn(stack, handlers)
    /\ UNCHANGED <<handlerIdCounter, history>>

Calling == stack # <<>> /\ Top.state = "calling"

Decrement(m, i) ==
    IF m[i].times = Unlimited THEN m ELSE [m EXCEPT ![i].times = @ - 1]

Return ==
    /\ Calling
    /\ GoOn(stack, Decrement(handlers, Top.at))
    /\ done' = IF granted[Top.at] = Unlimited THEN done
               ELSE [done EXCEPT ![Top.at] = @ + 1]
    /\ UNCHANGED <<handlerIdCounter, granted, removed>>

\* Mutants: a call that throws uses up the budget too; it ends the loop.
Throw_Decrements ==
    /\ Calling /\ Top.on # Exc
    /\ handlers' = Decrement(handlers, Top.at)
    /\ stack' = Append(Append(Outer, [Top EXCEPT !.state = "caught"]),
                       NewLoop(Exc))
    /\ UNCHANGED <<handlerIdCounter, history>>

Throw_Breaks ==
    /\ Calling /\ Top.on # Exc
    /\ stack' = Append(Append(Outer, [Top EXCEPT !.at = End, !.state = "test"]),
                       NewLoop(Exc))
    /\ UNCHANGED <<handlers, handlerIdCounter, history>>

\* An event handler throws: dispatchEvent catches and dispatches the exception.
Throw ==
    /\ Calling /\ Top.on # Exc
    /\ stack' = Append(Append(Outer, [Top EXCEPT !.state = "caught"]),
                       NewLoop(Exc))
    /\ UNCHANGED <<handlers, handlerIdCounter, history>>

\* An exception handler throws: both its loop and the dispatchEvent in whose
\* catch block it ran are left, without the test of isActive().
ThrowAgain ==
    /\ Calling /\ Top.on = Exc
    /\ stack' = IF Outer # <<>> /\ Outer[Len(Outer)].state = "caught"
                THEN SubSeq(Outer, 1, Len(Outer) - 1)
                ELSE Outer
    /\ UNCHANGED <<handlers, handlerIdCounter, history>>

\* The loop is at its end; the catch block it was called from is done too.
LoopEnds ==
    /\ stack # <<>> /\ Top.state = "test" /\ Top.at = End
    /\ IF Outer # <<>> /\ Outer[Len(Outer)].state = "caught"
       THEN GoOn(Outer, handlers)
       ELSE stack' = Outer /\ UNCHANGED handlers
    /\ UNCHANGED <<handlerIdCounter, history>>

-----------------------------------------------------------------------------

Init ==
    /\ handlers = <<>>
    /\ handlerIdCounter = 0
    /\ stack = <<>>
    /\ granted = [i \in Ids |-> Unlimited]
    /\ done = [i \in Ids |-> 0]
    /\ removed = {}

LoopStep == CallHandler \/ PassOver \/ LoopEnds
CallbackEnds == Return \/ Throw \/ ThrowAgain

Next ==
    \/ \E on \in Types \cup {Exc}, times \in Budgets : Add(on, times)
    \/ \E id \in Ids : removeHandler(id)
    \/ \E on \in Types \cup {Exc} : Dispatch(on)
    \/ LoopStep
    \/ CallbackEnds

Spec == Init /\ [][Next]_vars

-----------------------------------------------------------------------------
(* Properties.                                                             *)

\* No loop holds an iterator to an erased handler, however loops nest and
\* whatever the callbacks add and remove (under the two rules above).
IteratorsValid == InFlight \subseteq DOMAIN handlers

\* Every loop that ends by itself has called each active handler of its type
\* that was there when it began, and was not removed: also when others threw.
NobodySkipped ==
    stack # <<>> /\ Top.state = "test" /\ Top.at = End =>
        Top.owed \cap DOMAIN handlers = {}

\* A handler with a budget is dropped after exactly that many completed calls:
\* never before (a call that throws does not count), and never called after.
BudgetIsExact ==
    \A i \in 0..handlerIdCounter - 1 :
        granted[i] # Unlimited /\ i \notin removed =>
            IF i \in DOMAIN handlers THEN done[i] + handlers[i].times = granted[i]
            ELSE done[i] = granted[i]

\* When no loop runs, no handler is left that will never be called again.
NoneExpiredAtRest == stack = <<>> => \A i \in DOMAIN handlers : Active(handlers[i])

-----------------------------------------------------------------------------
(* The inductive invariant of EventDispatcher_proofs.                      *)

Handler == [on : Types \cup {Exc}, times : (Nat \ {0}) \cup {Unlimited}]
Loop == [on : Types \cup {Exc}, at : Ids \cup {End},
         state : {"test", "calling", "caught"}, owed : SUBSET Ids]

\* In particular, no handler in the maps has used up its budget.
TypeOK ==
    /\ handlerIdCounter \in 0..MaxHandlers
    /\ DOMAIN handlers \subseteq 0..handlerIdCounter - 1
    /\ handlers \in [DOMAIN handlers -> Handler]
    /\ stack \in Seq(Loop)
    /\ granted \in [Ids -> (Nat \ {0}) \cup {Unlimited}]
    /\ done \in [Ids -> Nat]
    /\ removed \subseteq 0..handlerIdCounter - 1

\* A loop's iterator is at a handler of the map it walks, and while it calls
\* that handler, or handles its exception, at one of its own type.
IteratorInv ==
    \A k \in DOMAIN stack :
        /\ stack[k].at # End =>
               /\ stack[k].at \in DOMAIN handlers
               /\ Walks(stack[k].on, handlers[stack[k].at])
        /\ stack[k].state # "test" =>
               stack[k].at # End /\ handlers[stack[k].at].on = stack[k].on

\* Only the innermost loop is between callbacks; above a loop that has caught
\* an exception runs the loop that dispatches it; any other outer loop is
\* calling a handler without a budget.
NestingInv ==
    \A k \in DOMAIN stack :
        /\ stack[k].state = "test" => k = Len(stack)
        /\ stack[k].state = "caught" =>
               stack[k].on # Exc /\ k < Len(stack) /\ stack[k + 1].on = Exc
        /\ k < Len(stack) =>
               \/ handlers[stack[k].at].times = Unlimited
               \/ k = Len(stack) - 1 /\ stack[k].state = "caught"

\* What a loop owes a call, and is still there, lies ahead of its iterator.
OwedInv ==
    \A k \in DOMAIN stack :
        /\ stack[k].owed \subseteq 0..handlerIdCounter - 1
        /\ \A i \in stack[k].owed \cap DOMAIN handlers :
               /\ handlers[i].on = stack[k].on
               /\ stack[k].at <= i
               /\ stack[k].state # "test" => stack[k].at # i

\* A handler keeps whether it has a budget, and what it has left of it.
BudgetInv ==
    /\ BudgetIsExact
    /\ \A i \in DOMAIN handlers : handlers[i].times = Unlimited <=> granted[i] = Unlimited
    /\ \A i \in Ids : i >= handlerIdCounter => done[i] = 0

IInv == TypeOK /\ IteratorInv /\ NestingInv /\ OwedInv /\ BudgetInv
=============================================================================
