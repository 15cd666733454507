------------------------------- MODULE Logger -------------------------------
(***************************************************************************)
(* What threads write to the terminal: the macros of logger.h and test.h   *)
(* and print(), dump() and dumpWithName() of printer.h, with the spin lock *)
(* and the counters of config.h.  What is written is left out but for the  *)
(* verdict, the [FAILED] blocks and their order.                           *)
(***************************************************************************)
EXTENDS Integers, FiniteSets

CONSTANTS
    Writers,   \* threads
    MaxWrites  \* bound on the calls

ASSUME LoggerAssumption == IsFiniteSet(Writers) /\ MaxWrites \in Nat

\* "log": print(), println(), SK_LOG, SK_WARN, SK_ERROR, NEW_LINE, RUN_DEMO, the timers
\* "message": TODO, LINE_BREAKER, which evaluate and format their message under the lock
\* "pass", "fail": ASSERT_TRUE, ASSERT_EQUAL, ASSERT_STR_EQUAL
\* "dump": dump(), without the lock
\* "named": DUMP(), which locks for each value, formats it under the lock, and ends the line
\*   without the lock
\* "verdict": ASSERT_ALL_PASSED()
\* "assert", "assertMsg": a failing ASSERT or ASSERT_MSG, which exits; ASSERT_MSG evaluates
\*   its message under the lock
Writings == {"log", "message", "pass", "fail", "dump", "named", "verdict", "assert", "assertMsg"}

\* what evaluates expressions of its caller under the lock, which may log; what exits under it
Evaluating == {"message", "named", "assertMsg"}
Exiting == {"assert", "assertMsg"}

VARIABLES
    does,          \* what each thread is doing, "nothing" between calls
    writerAt,      \* how far it is, one of WriterPlaces
    log,           \* holder of globalLogSpinLock, as a set
    failed,        \* gFailedTest
    total,         \* gTotalTest
    exited,        \* whether exit() is over
    writes,        \* how many calls were begun
    failedBlocks,  \* history: how many [FAILED] blocks were written
    asserts,       \* history: how many results of assertions were written
    verdicts       \* history: of each verdict, whether it was "passed all", and blocks then

logVars == <<does, writerAt, log, failed, total, exited, writes, failedBlocks, asserts,
             verdicts>>

\* "again": in lock() while it holds the lock
WriterPlaces == {"count", "lock", "write", "again", "unlock", "newline", "total", "exit"}

LogInit ==
    /\ does = [t \in Writers |-> "nothing"]
    /\ writerAt = [t \in Writers |-> "count"]
    /\ log = {}
    /\ failed = 0
    /\ total = 0
    /\ exited = FALSE
    /\ writes = 0
    /\ failedBlocks = 0
    /\ asserts = 0
    /\ verdicts = {}

Goes(t, place) == writerAt' = [writerAt EXCEPT ![t] = place]
Over(t) == does' = [does EXCEPT ![t] = "nothing"]

\* What is printed is formatted before the lock is taken, but for what is Evaluating.
BeginWrite(t, w) ==
    /\ does[t] = "nothing"
    /\ writes < MaxWrites
    /\ writes' = writes + 1
    /\ does' = [does EXCEPT ![t] = w]
    /\ Goes(t, CASE w = "fail" -> "count" [] w = "dump" -> "write" [] OTHER -> "lock")
    /\ UNCHANGED <<log, failed, total, exited, failedBlocks, asserts, verdicts>>

\* ++gFailedTest, before the block is written
CountFailure(t) ==
    /\ does[t] = "fail" /\ writerAt[t] = "count"
    /\ failed' = failed + 1
    /\ Goes(t, "lock")
    /\ UNCHANGED <<does, log, total, exited, writes, failedBlocks, asserts, verdicts>>

\* A mistake that the property below must tell from the code: lock() tests the flag once.
Bug_TakeLog(t) ==
    /\ does[t] # "nothing" /\ writerAt[t] = "lock"
    /\ log' = {t}
    /\ Goes(t, "write")
    /\ UNCHANGED <<does, failed, total, exited, writes, failedBlocks, asserts, verdicts>>

\* GUARD_LOG: SpinLock::lock()
TakeLog(t) ==
    /\ does[t] # "nothing" /\ writerAt[t] = "lock"
    /\ log = {}
    /\ log' = {t}
    /\ Goes(t, "write")
    /\ UNCHANGED <<does, failed, total, exited, writes, failedBlocks, asserts, verdicts>>

\* The text; the verdict reads the counters.  What is evaluated under the lock may log.
WriteText(t) ==
    /\ does[t] # "nothing" /\ writerAt[t] = "write"
    /\ failedBlocks' = failedBlocks + IF does[t] = "fail" THEN 1 ELSE 0
    /\ verdicts' = IF does[t] = "verdict" THEN verdicts \cup {<<failed = 0, failedBlocks>>}
                                           ELSE verdicts
    /\ \/ does[t] = "dump" /\ Over(t) /\ UNCHANGED writerAt
       \/ does[t] \in Exiting /\ Goes(t, "exit") /\ UNCHANGED does
       \/ does[t] \in Evaluating /\ Goes(t, "again") /\ UNCHANGED does
       \/ does[t] \notin {"dump"} \cup Exiting /\ Goes(t, "unlock") /\ UNCHANGED does
    /\ asserts' = asserts + IF does[t] \in {"pass", "fail"} THEN 1 ELSE 0
    /\ UNCHANGED <<log, failed, total, exited, writes>>

\* The guard leaves its scope; after it DUMP() goes on to the next value, or to the newline.
LeaveLog(t) ==
    /\ does[t] # "nothing" /\ writerAt[t] = "unlock"
    /\ log' = {}
    /\ \/ does[t] \in {"pass", "fail"} /\ Goes(t, "total") /\ UNCHANGED does
       \/ does[t] = "named" /\ (Goes(t, "lock") \/ Goes(t, "newline")) /\ UNCHANGED does
       \/ does[t] \notin {"pass", "fail", "named"} /\ Over(t) /\ UNCHANGED writerAt
    /\ UNCHANGED <<failed, total, exited, writes, failedBlocks, asserts, verdicts>>

\* std::cout << "\n" of DUMP()
EndLine(t) ==
    /\ does[t] = "named" /\ writerAt[t] = "newline"
    /\ Over(t)
    /\ UNCHANGED <<writerAt, log, failed, total, exited, writes, failedBlocks, asserts, verdicts>>

\* ++gTotalTest, after it
CountTest(t) ==
    /\ does[t] \in {"pass", "fail"} /\ writerAt[t] = "total"
    /\ total' = total + 1
    /\ Over(t)
    /\ UNCHANGED <<writerAt, log, failed, exited, writes, failedBlocks, asserts, verdicts>>

\* exit() under the lock: a destructor of a static object that logs never returns.
Exit(t) ==
    /\ writerAt[t] = "exit"
    /\ \/ exited' = TRUE /\ UNCHANGED writerAt
       \/ Goes(t, "again") /\ UNCHANGED exited
    /\ UNCHANGED <<does, log, failed, total, writes, failedBlocks, asserts, verdicts>>

LogNext ==
    /\ ~exited
    /\ \E t \in Writers :
          \/ \E w \in Writings : BeginWrite(t, w)
          \/ CountFailure(t) \/ TakeLog(t) \/ WriteText(t) \/ LeaveLog(t) \/ EndLine(t)
          \/ CountTest(t) \/ Exit(t)

LogSpec == LogInit /\ [][LogNext]_logVars

-----------------------------------------------------------------------------
(* Properties *)

LogTypeOK ==
    /\ does \in [Writers -> Writings \cup {"nothing"}]
    /\ writerAt \in [Writers -> WriterPlaces]
    /\ log \subseteq Writers
    /\ writes \in 0 .. MaxWrites

\* While one thread is inside a locked piece of output no other is.  The text of dump() and the
\* end of a line of DUMP() are not locked, and may come anywhere.
OneWrites ==
    \A t \in Writers :
      /\ does[t] \notin {"nothing", "dump"}
      /\ writerAt[t] \in {"write", "again", "unlock", "exit"}
      => log = {t}

\* "PASSED ALL" is never printed below a [FAILED]: a failure is counted before its block is
\* written, although the test itself is counted after it.
VerdictIsHonest == \A v \in verdicts : v[1] => v[2] = 0

\* gTotalTest lags behind the results by those that are being written, so that two results
\* may bear one number, and gFailedTest is ahead of the blocks; at rest both are right.
Counted ==
    /\ total = asserts - Cardinality({t \in Writers : does[t] \in {"pass", "fail"}
                                                     /\ writerAt[t] \in {"unlock", "total"}})
    /\ failed = failedBlocks + Cardinality({t \in Writers : does[t] = "fail"
                                                           /\ writerAt[t] \in {"lock", "write"}})

\* A thread that holds the lock waits for it only in toString() below DUMP(), in the message of
\* TODO, LINE_BREAKER or ASSERT_MSG, or in a static destructor below exit(); nothing else can
\* keep the others from writing.
WaitsForItself ==
    \A t \in log : /\ writerAt[t] # "lock"
                   /\ writerAt[t] = "again" => does[t] \in Evaluating \cup Exiting

\* What is locked comes in whole pieces, and a verdict agrees with what stands above it.
LoggerCorrect == LogTypeOK /\ OneWrites /\ VerdictIsHonest /\ Counted /\ WaitsForItself
=============================================================================
