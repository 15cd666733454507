------------------------------- MODULE Tools -------------------------------
(***************************************************************************)
(* The two small programs of src/src, which share nothing.                 *)
(*                                                                         *)
(* stdtalker.cpp: tasks of a pool that print numbered messages until       *)
(* SIGINT.  A task sleeps between its messages, half a second at a time.   *)
(* The pool is that of module ThreadPool: a task is taken when a thread is *)
(* free, in the order of their submission.                                 *)
(*                                                                         *)
(* combine_files.cpp: combine_files().  The files of an extension are      *)
(* collected and copied, one after the other, to an output, which may be   *)
(* one of them.  What is written stays in the buffer of the stream until   *)
(* it is full; what is read is what is in the file by then.                *)
(***************************************************************************)
EXTENDS Integers, Sequences, FiniteSets

-----------------------------------------------------------------------------
(* stdtalker *)

CONSTANTS
    Talkers,      \* thread_num
    TalkThreads,  \* threads of the pool
    Naps,         \* time_sep, in naps of half a second; 0 if it is not positive
    MaxMessages   \* bound on the messages

ASSUME TalkAssumption == Talkers \in Nat /\ TalkThreads \in Nat \ {0} /\ Naps \in Nat

VARIABLES
    running,   \* the atomic flag
    seqNumber, \* the atomic counter seq
    talker,    \* where each task is: "queued", "test", "print", "sleep" or "done"
    number,    \* the number of the message it prints
    naps,      \* remaining_time
    said,      \* history: the numbers printed
    sinceStop, \* history: how many were printed by each task since SIGINT
    mainOver   \* whether main() has got every future

talkVars == <<running, seqNumber, talker, number, naps, said, sinceStop, mainOver>>

Ids == 1 .. Talkers

TalkInit ==
    /\ running = TRUE
    /\ seqNumber = 1
    /\ talker = [i \in Ids |-> "queued"]
    /\ number = [i \in Ids |-> 0]
    /\ naps = [i \in Ids |-> 0]
    /\ said = {}
    /\ sinceStop = [i \in Ids |-> 0]
    /\ mainOver = FALSE

\* A thread of the pool takes the first task.
TakeTalker(i) ==
    /\ talker[i] = "queued"
    /\ \A j \in 1 .. i - 1 : talker[j] # "queued"
    /\ Cardinality({j \in Ids : talker[j] \in {"test", "print", "sleep"}}) < TalkThreads
    /\ talker' = [talker EXCEPT ![i] = "test"]
    /\ UNCHANGED <<running, seqNumber, number, naps, said, sinceStop, mainOver>>

\* A mistake that the property below must tell from the code: the flag is not looked at.
Bug_Test(i) ==
    /\ talker[i] = "test"
    /\ seqNumber <= MaxMessages
    /\ talker' = [talker EXCEPT ![i] = "print"]
    /\ number' = [number EXCEPT ![i] = seqNumber]
    /\ seqNumber' = seqNumber + 1
    /\ UNCHANGED <<running, naps, said, sinceStop, mainOver>>

\* while (running.load()), and seq.fetch_add(1) for the message
Test(i) ==
    /\ talker[i] = "test"
    /\ \/ /\ ~running
          /\ talker' = [talker EXCEPT ![i] = "done"]
          /\ UNCHANGED <<number, seqNumber>>
       \/ /\ running
          /\ seqNumber <= MaxMessages
          /\ talker' = [talker EXCEPT ![i] = "print"]
          /\ number' = [number EXCEPT ![i] = seqNumber]
          /\ seqNumber' = seqNumber + 1
    /\ UNCHANGED <<running, naps, said, sinceStop, mainOver>>

PrintMessage(i) ==
    /\ talker[i] = "print"
    /\ said' = said \cup {number[i]}
    /\ sinceStop' = [sinceStop EXCEPT ![i] = @ + IF running THEN 0 ELSE 1]
    /\ naps' = [naps EXCEPT ![i] = Naps]
    /\ talker' = [talker EXCEPT ![i] = "sleep"]
    /\ UNCHANGED <<running, seqNumber, number, mainOver>>

\* A nap, unless the time is over or SIGINT has come
Nap(i) ==
    /\ talker[i] = "sleep"
    /\ \/ /\ naps[i] > 0 /\ running
          /\ \E left \in 0 .. naps[i] - 1 : naps' = [naps EXCEPT ![i] = left]  \* it may oversleep
          /\ UNCHANGED talker
       \/ /\ naps[i] = 0 \/ ~running
          /\ talker' = [talker EXCEPT ![i] = "test"]
          /\ UNCHANGED naps
    /\ UNCHANGED <<running, seqNumber, number, said, sinceStop, mainOver>>

\* sig_handler(SIGINT)
Interrupt ==
    /\ running
    /\ running' = FALSE
    /\ UNCHANGED <<seqNumber, talker, number, naps, said, sinceStop, mainOver>>

EndMain ==
    /\ ~mainOver
    /\ \A i \in Ids : talker[i] = "done"
    /\ mainOver' = TRUE
    /\ UNCHANGED <<running, seqNumber, talker, number, naps, said, sinceStop>>

TalkNext ==
    \/ \E i \in Ids : TakeTalker(i) \/ Test(i) \/ PrintMessage(i) \/ Nap(i)
    \/ Interrupt
    \/ EndMain

TalkSpec == TalkInit /\ [][TalkNext]_talkVars

-----------------------------------------------------------------------------
(* Properties of stdtalker *)

TalkTypeOK ==
    /\ talker \in [Ids -> {"queued", "test", "print", "sleep", "done"}]
    /\ naps \in [Ids -> 0 .. Naps]

\* Every number is printed by one task, and none is left out but those that are being printed,
\* which later numbers may overtake.
NumbersOnce ==
    LET printing == {i \in Ids : talker[i] = "print"}
    IN /\ 1 .. seqNumber - 1 = said \cup {number[i] : i \in printing}
       /\ \A i, j \in printing : number[i] \notin said /\ (number[i] = number[j] => i = j)

\* After SIGINT a task prints at most what it was about to print, and only if a thread had
\* taken it before; main() is over only after SIGINT and after every task.
StopsSoon ==
    /\ \A i \in Ids : sinceStop[i] <= 1
    /\ Cardinality({i \in Ids : sinceStop[i] > 0}) <= TalkThreads
    /\ mainOver /\ Talkers > 0 => ~running

\* The talkers number their messages and stop when they are told.
TalkerCorrect == TalkTypeOK /\ NumbersOnce /\ StopsSoon

-----------------------------------------------------------------------------
(* combine_files *)

CONSTANTS
    TextFiles,  \* the files below the paths that are given, in the order of collect_files()
    Lines,      \* [files -> how many lines each has]
    Output,     \* -o
    Buffer,     \* how many lines the buffer of the output holds
    MaxFile     \* bound on the lines of the output, at which this model stops

ASSUME CombineAssumption ==
    /\ \A k \in DOMAIN TextFiles : Lines[TextFiles[k]] \in Nat
    /\ Buffer \in Nat \ {0}

VARIABLES
    inputs,   \* files, what collect_files() found
    missing,  \* files that were removed since
    stepOf,   \* "open", "next", "lines", "over" or "failed"
    nth,      \* which of the inputs is copied
    pos,      \* how many of its lines were read
    buffered, \* lines that are written and not in the file
    output    \* lines of the file; a line is <<file, "begin", "end" or a number>>

combineVars == <<inputs, missing, stepOf, nth, pos, buffered, output>>

Members(s) == {s[k] : k \in DOMAIN s}

CombineInit ==
    /\ \E n \in 0 .. Len(TextFiles) : \E at \in [1 .. n -> DOMAIN TextFiles] :
         /\ \A j, k \in 1 .. n : j < k => at[j] < at[k]
         /\ inputs = [k \in 1 .. n |-> TextFiles[at[k]]]
    /\ missing = {}
    /\ stepOf = "open"
    /\ nth = 1
    /\ pos = 0
    /\ buffered = <<>>
    /\ output = <<>>

File == inputs[nth]

\* out << line: a full buffer goes to the file.
Put(line) ==
    IF Len(buffered) < Buffer
      THEN buffered' = Append(buffered, line) /\ UNCHANGED output
      ELSE buffered' = <<line>> /\ output' = output \o buffered

\* What a file holds.  Of the output, only what has been flushed.
Held(f) == IF f = Output THEN output ELSE [k \in 1 .. Lines[f] |-> <<f, k>>]

\* Somebody removes a file that was collected.
RemoveFile(f) ==
    /\ stepOf \notin {"over", "failed"}
    /\ f \in Members(inputs) \ (missing \cup {Output})
    /\ missing = {}
    /\ missing' = missing \cup {f}
    /\ UNCHANGED <<inputs, stepOf, nth, pos, buffered, output>>

\* The output is created, or emptied, or cannot be.
OpenOutput ==
    /\ stepOf = "open"
    /\ stepOf' \in {"next", "failed"}
    /\ UNCHANGED <<inputs, missing, nth, pos, buffered, output>>

\* What cannot be opened is skipped; a file that is open stays readable when it is removed.
OpenInput ==
    /\ stepOf = "next"
    /\ nth <= Len(inputs)
    /\ \/ /\ File \in missing
          /\ nth' = nth + 1
          /\ UNCHANGED <<stepOf, buffered, output>>
       \/ /\ File \notin missing
          /\ Put(<<File, "begin">>)
          /\ stepOf' = "lines"
          /\ UNCHANGED nth
    /\ pos' = 0
    /\ UNCHANGED <<inputs, missing>>

CopyLine ==
    /\ stepOf = "lines"
    /\ pos < Len(Held(File))
    /\ Len(output) < MaxFile
    /\ Put(Held(File)[pos + 1])
    /\ pos' = pos + 1
    /\ UNCHANGED <<inputs, missing, stepOf, nth>>

EndInput ==
    /\ stepOf = "lines"
    /\ pos >= Len(Held(File))
    /\ Put(<<File, "end">>)
    /\ stepOf' = "next"
    /\ nth' = nth + 1
    /\ UNCHANGED <<inputs, missing, pos>>

\* A mistake that the property below must tell from the code: the rest is not flushed.
Bug_CloseOutput ==
    /\ stepOf = "next"
    /\ nth > Len(inputs)
    /\ buffered' = <<>>
    /\ stepOf' = "over"
    /\ UNCHANGED <<inputs, missing, nth, pos, output>>

CloseOutput ==
    /\ stepOf = "next"
    /\ nth > Len(inputs)
    /\ output' = output \o buffered
    /\ buffered' = <<>>
    /\ stepOf' = "over"
    /\ UNCHANGED <<inputs, missing, nth, pos>>

CombineNext ==
    \/ OpenOutput \/ OpenInput \/ CopyLine \/ EndInput \/ CloseOutput
    \/ \E f \in Members(TextFiles) : RemoveFile(f)

CombineSpec == CombineInit /\ [][CombineNext]_combineVars

-----------------------------------------------------------------------------
(* Properties of combine_files *)

CombineTypeOK ==
    /\ missing \subseteq Members(inputs)
    /\ nth \in 1 .. Len(inputs) + 1
    /\ Len(buffered) <= Buffer

Copy(f) == <<<<f, "begin">>>> \o [k \in 1 .. Lines[f] |-> <<f, k>>] \o <<<<f, "end">>>>

\* The copies of the inputs, one after the other, without those at the places in S
CopiesWithout(S) ==
    LET copies[n \in 0 .. Len(inputs)] ==
          IF n = 0 THEN <<>> ELSE copies[n - 1] \o (IF n \in S THEN <<>> ELSE Copy(inputs[n]))
    IN copies[Len(inputs)]

\* If the output is not itself an input, it is the inputs in their order, whole, each between
\* its marks, without some that were removed meanwhile.  One that was collected twice may have
\* been copied before it was removed.
CopiesInOrder ==
    stepOf = "over" /\ Output \notin Members(inputs) =>
      \E S \in SUBSET {k \in DOMAIN inputs : inputs[k] \in missing} : output = CopiesWithout(S)

\* An output that is an input, as in a second run with the same -o, is copied to its end only
\* if nothing was flushed before: otherwise it grows as fast as it is read.
EndsUnlessFlushed ==
    \A k \in DOMAIN inputs :
      stepOf = "over" /\ inputs[k] = Output =>
        \A j \in DOMAIN output : output[j] = <<Output, "end">> => j <= Buffer + 1

\* The combined file is what its inputs were.
CombineCorrect == CombineTypeOK /\ CopiesInOrder /\ EndsUnlessFlushed

-----------------------------------------------------------------------------
(* Both *)

ToolsSpec == TalkSpec /\ CombineSpec

\* The talkers number their messages and stop when told; the combined file is its inputs.
ToolsCorrect == TalkerCorrect /\ CombineCorrect
=============================================================================
