----------------------------- MODULE Generator -----------------------------
(***************************************************************************)
(* include/skutils/coroutine/generator.h: Generator<T>, the sequence of    *)
(* what a coroutine yields.  A generator owns the coroutine's frame, and   *)
(* is moved, never copied; its iterator is a bare handle.  The body is     *)
(* whatever yields, returns or throws next; values are numbered in the     *)
(* order in which they are yielded.                                        *)
(***************************************************************************)
EXTENDS Integers, Sequences, FiniteSets

CONSTANTS
    Owners,     \* variables of type Generator
    Frames,     \* coroutine frames, as many as are ever made
    MaxYields,  \* bound on the values of one coroutine
    NoFrame     \* nullptr

ASSUME GeneratorAssumption == MaxYields \in Nat /\ NoFrame \notin Frames

VARIABLES
    handle,        \* handle_ of each generator
    frame,         \* "unborn", "suspended", "done" or "destroyed"
    currentValue,  \* current_value_: how many values the body has yielded
    exception,     \* whether exception_ is set
    iterator,      \* handle_ of the loop's iterator, NoFrame if it equals end()
    loop,          \* the range-for: "none", "body", "over" or "threw"
    seen,          \* history: the values of each frame that loops have seen
    destroyed      \* history: how often each frame was destroyed

genVars == <<handle, frame, currentValue, exception, iterator, loop, seen, destroyed>>

GenInit ==
    /\ handle = [o \in Owners |-> NoFrame]
    /\ frame = [f \in Frames |-> "unborn"]
    /\ currentValue = [f \in Frames |-> 0]
    /\ exception = [f \in Frames |-> FALSE]
    /\ iterator = NoFrame
    /\ loop = "none"
    /\ seen = [f \in Frames |-> <<>>]
    /\ destroyed = [f \in Frames |-> 0]

-----------------------------------------------------------------------------
(* Mistakes that the properties below must tell from the code.               *)

\* the moved-from generator keeps its handle
Bug_MoveAssign(o, p) ==
    /\ o # p
    /\ handle' = [handle EXCEPT ![o] = handle[p]]
    /\ frame' = [f \in Frames |-> IF f = handle[o] THEN "destroyed" ELSE frame[f]]
    /\ destroyed' = [f \in Frames |-> destroyed[f] + IF f = handle[o] THEN 1 ELSE 0]
    /\ UNCHANGED <<currentValue, exception, iterator, loop, seen>>

-----------------------------------------------------------------------------
(* The coroutine *)

\* The body makes its frame and suspends before its first statement.
Create(o) ==
    /\ handle[o] = NoFrame
    /\ \E f \in Frames :
          /\ frame[f] = "unborn"
          /\ frame' = [frame EXCEPT ![f] = "suspended"]
          /\ handle' = [handle EXCEPT ![o] = f]
    /\ UNCHANGED <<currentValue, exception, iterator, loop, seen, destroyed>>

\* resume(): the body runs to its next co_yield, to its end, or throws.
Resume(f) ==
    \/ /\ currentValue[f] < MaxYields
       /\ currentValue' = [currentValue EXCEPT ![f] = @ + 1]
       /\ UNCHANGED <<frame, exception>>
    \/ /\ frame' = [frame EXCEPT ![f] = "done"]
       /\ exception' \in {exception, [exception EXCEPT ![f] = TRUE]}
       /\ UNCHANGED currentValue

\* what begin() and ++ do with what became of the body: rethrow, equal end(), or have a
\* value, which the loop sees
Arrive(f) ==
    /\ Resume(f)
    /\ loop' = IF exception'[f] THEN "threw" ELSE IF frame'[f] = "done" THEN "over" ELSE "body"
    /\ iterator' = IF exception'[f] THEN iterator ELSE IF frame'[f] = "done" THEN NoFrame ELSE f
    /\ seen' = IF loop' = "body" THEN [seen EXCEPT ![f] = Append(@, currentValue'[f])] ELSE seen

\* for (auto v : generator): begin() of an empty generator equals end().  A loop over a
\* frame that was left by break goes on behind it; one that is done must not be resumed.
Begin(o) ==
    LET f == handle[o] IN
    /\ loop = "none"
    /\ IF f = NoFrame
         THEN loop' = "over" /\ UNCHANGED <<frame, currentValue, exception, iterator, seen>>
         ELSE frame[f] = "suspended" /\ Arrive(f)
    /\ UNCHANGED <<handle, destroyed>>

\* operator++
Advance ==
    /\ loop = "body"
    /\ Arrive(iterator)
    /\ UNCHANGED <<handle, destroyed>>

\* break, or the loop was left
EndLoop ==
    /\ loop # "none"
    /\ loop' = "none"
    /\ iterator' = NoFrame
    /\ UNCHANGED <<handle, frame, currentValue, exception, seen, destroyed>>

-----------------------------------------------------------------------------
(* The owner.  It does not destroy what a loop iterates over.                *)

InLoop(o) == loop \in {"body", "threw"} /\ handle[o] = iterator

\* Generator& operator=(Generator&&), and the constructor, for an empty generator
MoveAssign(o, p) ==
    /\ o # p
    /\ handle' = [handle EXCEPT ![o] = handle[p], ![p] = NoFrame]
    /\ frame' = [f \in Frames |-> IF f = handle[o] THEN "destroyed" ELSE frame[f]]
    /\ destroyed' = [f \in Frames |-> destroyed[f] + IF f = handle[o] THEN 1 ELSE 0]
    /\ UNCHANGED <<currentValue, exception, iterator, loop, seen>>

\* ~Generator()
Destroy(o) ==
    /\ handle[o] # NoFrame /\ ~InLoop(o)
    /\ handle' = [handle EXCEPT ![o] = NoFrame]
    /\ frame' = [frame EXCEPT ![handle[o]] = "destroyed"]
    /\ destroyed' = [destroyed EXCEPT ![handle[o]] = @ + 1]
    /\ UNCHANGED <<currentValue, exception, iterator, loop, seen>>

GenNext ==
    \/ \E o \in Owners : Create(o) \/ Begin(o) \/ Destroy(o)
    \/ \E o, p \in Owners : ~InLoop(o) /\ MoveAssign(o, p)
    \/ Advance \/ EndLoop

GenSpec == GenInit /\ [][GenNext]_genVars

-----------------------------------------------------------------------------
(* Properties *)

GenTypeOK ==
    /\ handle \in [Owners -> Frames \cup {NoFrame}]
    /\ frame \in [Frames -> {"unborn", "suspended", "done", "destroyed"}]
    /\ currentValue \in [Frames -> 0 .. MaxYields]
    /\ exception \in [Frames -> BOOLEAN]
    /\ iterator \in Frames \cup {NoFrame}
    /\ loop \in {"none", "body", "over", "threw"}
    /\ seen \in [Frames -> Seq(1 .. MaxYields)]

\* A frame that lives has one owner, and is destroyed once, however generators are moved.
OneOwner ==
    \A f \in Frames :
        /\ frame[f] \in {"suspended", "done"} =>
             Cardinality({o \in Owners : handle[o] = f}) = 1
        /\ frame[f] \in {"unborn", "destroyed"} => \A o \in Owners : handle[o] # f
        /\ destroyed[f] = IF frame[f] = "destroyed" THEN 1 ELSE 0

\* Loops see what the body yields, each value once and in order, and the body is never
\* ahead of them; an exception comes after the last value.
SeesAllInOrder ==
    /\ \A f \in Frames : seen[f] = [i \in 1 .. currentValue[f] |-> i]
    /\ loop = "body" => frame[iterator] = "suspended" /\ ~exception[iterator]
    /\ \A f \in Frames : exception[f] => frame[f] \in {"done", "destroyed"}

GeneratorCorrect == GenTypeOK /\ OneOwner /\ SeesAllInOrder
=============================================================================
