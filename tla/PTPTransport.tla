---------------------------- MODULE PTPTransport -----------------------------
(***************************************************************************)
(* What PTP (src/cb/ptp/ptp.cpp) relies on from a PTPTransport: it is open *)
(* or not; transaction() runs one request at a time and returns the answer *)
(* to that request, or throws; a failed open() may leave it open or        *)
(* closed, and a connection may end at any time.  An exception may also    *)
(* leave it open but out of step: from then on a response answers whatever *)
(* request, until a closed transport is opened again.                      *)
(***************************************************************************)
EXTENDS Naturals

CONSTANTS
    Tids,    \* transaction ids
    NoTid    \* no transaction: not one of Tids

VARIABLES
    open,      \* isOpen()
    inStep,    \* no exception has left part of a reply on this connection
    pending,   \* the request in transaction()
    answered   \* the request that the last response returned answers

transportVars == <<open, inStep, pending, answered>>

Init == open = FALSE /\ inStep = TRUE /\ pending = NoTid /\ answered = NoTid

\* open(): returns, or throws; only a new connection is in step again.
Open ==
    /\ pending = NoTid
    /\ open' \in BOOLEAN
    /\ inStep' \in {inStep, inStep \/ ~open}
    /\ UNCHANGED <<pending, answered>>

Close == pending = NoTid /\ open' = FALSE /\ UNCHANGED <<inStep, pending, answered>>

ConnectionEnds == open' = FALSE /\ UNCHANGED <<inStep, pending, answered>>

Request(t) ==
    /\ open /\ pending = NoTid
    /\ pending' = t
    /\ UNCHANGED <<open, inStep, answered>>

Return ==
    /\ pending # NoTid
    /\ answered' \in (IF inStep THEN {pending} ELSE Tids)
    /\ pending' = NoTid
    /\ UNCHANGED <<open, inStep>>

Throw ==
    /\ pending # NoTid
    /\ pending' = NoTid
    /\ open' \in {open, FALSE}
    /\ inStep' \in {inStep, FALSE}
    /\ UNCHANGED answered

Next ==
    \/ Open \/ Close \/ ConnectionEnds \/ Return \/ Throw
    \/ \E t \in Tids : Request(t)

Spec == Init /\ [][Next]_transportVars
=============================================================================
