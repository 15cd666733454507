--------------------------- MODULE Subscriptions ----------------------------
(***************************************************************************)
(* include/skutils/event_manager.h: the handlers of one event type,        *)
(* Subscribe() and Publish(). mapMutex_ guards the map, and Add() on the   *)
(* list of the type; Publish() holds it only to find that list, and then   *)
(* iterates over its std::vector without a lock while other threads, or a  *)
(* handler it calls, may subscribe.                                        *)
(*                                                                         *)
(* The range-for of Publish() fixes begin() and end() when it starts. They *)
(* stay good as long as push_back() finds room; when the vector grows its  *)
(* elements move to a new buffer and iterating further is undefined: the   *)
(* model follows such a publication no further.                            *)
(***************************************************************************)
EXTENDS Integers, Sequences, FiniteSets

CONSTANTS
    Threads,    \* threads that subscribe and publish
    Handlers,   \* the callbacks, each subscribed at most once
    MaxPublish  \* bound on the publications of each thread

ASSUME MaxPublishAssumption == MaxPublish \in Nat

VARIABLES
    listed,          \* whether subscribers_ has the type
    callbacks,       \* HandlerList::callbacks
    buffer,          \* which buffer the vector is in
    capacity,        \* how many elements that buffer holds
    pc,              \* each thread: "idle", "begin", "end", "next", "calling", "undefined"
    cursor,          \* its [buf, end, i]: the buffer and bounds of its range-for
    called,          \* the handlers it has called for the present event
    handlersBefore,  \* history: callbacks when it began to iterate
    count            \* how many events it has published

subVars == <<listed, callbacks, buffer, capacity, pc, cursor, called, handlersBefore, count>>
registryVars == <<listed, callbacks, buffer, capacity>>

NoIter == [buf |-> 0, end |-> 0, i |-> 0]

SubInit ==
    /\ listed = FALSE
    /\ callbacks = <<>>
    /\ buffer = 0
    /\ capacity = 0
    /\ pc = [p \in Threads |-> "idle"]
    /\ cursor = [p \in Threads |-> NoIter]
    /\ called = [p \in Threads |-> <<>>]
    /\ handlersBefore = [p \in Threads |-> <<>>]
    /\ count = [p \in Threads |-> 0]

Elems(s) == {s[i] : i \in 1 .. Len(s)}

-----------------------------------------------------------------------------
(* A mistake that the property below must tell from the code.                *)

\* the first handler is skipped
Bug_ReadBegin(p) ==
    /\ pc[p] = "begin"
    /\ pc' = [pc EXCEPT ![p] = "end"]
    /\ cursor' = [cursor EXCEPT ![p].buf = buffer, ![p].i = 1]
    /\ UNCHANGED <<registryVars, called, handlersBefore, count>>

-----------------------------------------------------------------------------
(* Subscribe() *)

\* HandlerList::Add(): push_back, into a new buffer when the old one is full.
AddHandler(h) ==
    /\ callbacks' = Append(callbacks, h)
    /\ listed' = TRUE
    /\ IF Len(callbacks) < capacity
         THEN UNCHANGED <<buffer, capacity>>
         ELSE /\ buffer' = buffer + 1
              /\ capacity' = IF capacity = 0 THEN 1 ELSE 2 * capacity

\* A thread outside Publish(), or a handler that Publish() has called: Publish()
\* does not hold mapMutex_ then.
Subscribe(p, h) ==
    /\ pc[p] \in {"idle", "calling"}
    /\ h \notin Elems(callbacks)
    /\ AddHandler(h)
    /\ UNCHANGED <<pc, cursor, called, handlersBefore, count>>

-----------------------------------------------------------------------------
(* Publish() *)

\* GetHandlers(): nullptr, and nothing to do, if nobody ever subscribed.
GetHandlers(p) ==
    /\ pc[p] = "idle"
    /\ count[p] < MaxPublish
    /\ count' = [count EXCEPT ![p] = @ + 1]
    /\ pc' = [pc EXCEPT ![p] = IF listed THEN "begin" ELSE "idle"]
    /\ called' = [called EXCEPT ![p] = <<>>]
    /\ handlersBefore' = [handlersBefore EXCEPT ![p] = <<>>]
    /\ cursor' = [cursor EXCEPT ![p] = NoIter]
    /\ UNCHANGED registryVars

\* for (const auto& cb : handlers->callbacks): begin(), and then end()
ReadBegin(p) ==
    /\ pc[p] = "begin"
    /\ pc' = [pc EXCEPT ![p] = "end"]
    /\ cursor' = [cursor EXCEPT ![p].buf = buffer]
    /\ UNCHANGED <<registryVars, called, handlersBefore, count>>

ReadEnd(p) ==
    /\ pc[p] = "end"
    /\ IF cursor[p].buf # buffer
         THEN /\ pc' = [pc EXCEPT ![p] = "undefined"]
              /\ UNCHANGED <<cursor, handlersBefore>>
         ELSE /\ pc' = [pc EXCEPT ![p] = "next"]
              /\ cursor' = [cursor EXCEPT ![p].end = Len(callbacks)]
              /\ handlersBefore' = [handlersBefore EXCEPT ![p] = callbacks]
    /\ UNCHANGED <<registryVars, called, count>>

\* The loop is over, or the next handler is read and called.
StepOrEnd(p) ==
    /\ pc[p] = "next"
    /\ \/ /\ cursor[p].buf # buffer
          /\ pc' = [pc EXCEPT ![p] = "undefined"]
          /\ UNCHANGED called
       \/ /\ cursor[p].buf = buffer
          /\ cursor[p].i = cursor[p].end
          /\ pc' = [pc EXCEPT ![p] = "idle"]
          /\ UNCHANGED called
       \/ /\ cursor[p].buf = buffer
          /\ cursor[p].i < cursor[p].end
          /\ pc' = [pc EXCEPT ![p] = "calling"]
          /\ called' = [called EXCEPT ![p] = Append(@, callbacks[cursor[p].i + 1])]
    /\ UNCHANGED <<registryVars, cursor, handlersBefore, count>>

HandlerReturns(p) ==
    /\ pc[p] = "calling"
    /\ pc' = [pc EXCEPT ![p] = "next"]
    /\ cursor' = [cursor EXCEPT ![p].i = @ + 1]
    /\ UNCHANGED <<registryVars, called, handlersBefore, count>>

-----------------------------------------------------------------------------
SubNext ==
    \E p \in Threads :
        \/ GetHandlers(p)
        \/ ReadBegin(p)
        \/ ReadEnd(p)
        \/ StepOrEnd(p)
        \/ HandlerReturns(p)
        \/ \E h \in Handlers : Subscribe(p, h)

SubSpec == SubInit /\ [][SubNext]_subVars

-----------------------------------------------------------------------------
(* Properties *)

\* Every variable has the type its comment gives it.
SubTypeOK ==
    /\ listed \in BOOLEAN
    /\ callbacks \in Seq(Handlers)
    /\ buffer \in Nat
    /\ capacity \in Nat /\ Len(callbacks) <= capacity
    /\ pc \in [Threads -> {"idle", "begin", "end", "next", "calling", "undefined"}]
    /\ cursor \in [Threads -> [buf : Nat, end : Nat, i : Nat]]
    /\ called \in [Threads -> Seq(Handlers)]
    /\ handlersBefore \in [Threads -> Seq(Handlers)]
    /\ count \in [Threads -> 0 .. MaxPublish]

\* A publication calls the handlers that were subscribed when it began to
\* iterate, in the order of their subscription: never one that came later,
\* and none of them twice.
CallsAPrefix ==
    \A p \in Threads :
        /\ Len(called[p]) <= Len(handlersBefore[p])
        /\ called[p] = SubSeq(handlersBefore[p], 1, Len(called[p]))

\* A publication that runs to its end has called all of them.
CallsAll == \A p \in Threads : pc[p] = "idle" => called[p] = handlersBefore[p]

\* A publication that is not overtaken by a growing vector calls exactly the
\* handlers there were when it began to iterate, in order.
CallsInv == SubTypeOK /\ CallsAPrefix /\ CallsAll
=============================================================================
