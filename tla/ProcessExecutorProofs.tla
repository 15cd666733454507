----------------------- MODULE ProcessExecutorProofs ------------------------
(***************************************************************************)
(* ExecuteCommand(), on either platform: whatever the child writes, closes *)
(* or leaves open, and whichever call fails, the output is captured in     *)
(* order and to its end, no descriptor is left open, the exit code is the  *)
(* child's and no call is timed out too early. The strengthening says      *)
(* what is the case while the call is set up, what the last poll() knew of *)
(* a stream that cannot come back, and when the time began.                *)
(***************************************************************************)
EXTENDS ProcessExecutor, SequenceTheorems, WellFoundedInduction,
        TLAPS

Posix == platform = "posix"
SettingUp == pc \in {"outPipe", "errPipe", "fork", "create"}

\* Until the process is created nothing has been read, said or timed.
SetUpInv ==
    SettingUp =>
        /\ child = "none" /\ now = start
        /\ result = [success |-> FALSE, exitCode |-> 0, message |-> "none"]
        /\ \A s \in Streams : ~closed[s] /\ revents[s] = {}

\* Each platform has its own program; without a child the call has failed.
ProgramInv ==
    /\ platform \in {"posix", "windows"}
    /\ Posix => /\ pc # "create"
                /\ pc = "wait" => \A s \in Streams : ~readOpen[s]
    /\ ~Posix => /\ pc \in {"outPipe", "errPipe", "create", "readOut", "readErr", "wait",
                            "returned"}
                 /\ \A s \in Streams : ~closed[s] /\ revents[s] = {}
    /\ pc = "outPipe" => \A s \in Streams : ~readOpen[s] /\ ~writeOpen[s]
    /\ child = "none" => SettingUp \/ (pc = "returned" /\ result.message = "failed")
    /\ result.message = "failed" => pc = "returned" /\ ~result.success
    /\ ~result.success => SettingUp \/ pc = "returned"

\* A stream that poll() reported hung up stays so, and if there was nothing in it
\* there is nothing to come.
HangupInv ==
    \A s \in Streams : "HUP" \in revents[s] =>
        ~writeOpen[s] /\ ("IN" \in revents[s] \/ pipe[s] = <<>>)

\* On Windows a stream is left only at its end, or when reading it seems to fail.
InTurnInv ==
    LET Left(s) == readFailed[s] \/ (~writeOpen[s] /\ pipe[s] = <<>>)
    IN ~Posix =>
        /\ pc \in {"readErr", "wait"} => Left("out")
        /\ pc = "wait" => Left("err")
        /\ pc = "returned" /\ result.success => \A s \in Streams : Left(s)

\* The exit code is -1 only after a timeout, and the time ends when it should.
VerdictInv ==
    /\ result.exitCode = -1 => result.message = "timedOut"
    /\ now >= start
    /\ Posix /\ timeout > 0 /\ ~SettingUp /\ pc # "returned" =>
          endTime > start - Second + timeout
    /\ Posix /\ pc \in {"terminate", "kill"} => timeout > 0 /\ now >= endTime
    /\ ~Posix /\ ~SettingUp /\ pc \notin {"wait", "returned"} => now = start
    /\ ~Posix /\ pc = "wait" /\ timeout >= 0 => endTime >= start + timeout

Captured == Nul \notin Bytes => NothingLost

IInv ==
    /\ TypeOK /\ SetUpInv /\ ProgramInv
    /\ Captured /\ ClosedMeansDrained /\ HangupInv /\ InTurnInv
    /\ VerdictInv /\ NoDescriptorLeak /\ ExitCodeOfChild /\ AtMostASecondEarly

-----------------------------------------------------------------------------
(* The clock of time(NULL) is behind by less than a second, and not ahead.   *)
LEMMA ClockGrain ==
    ASSUME NEW n \in Nat
    PROVE  LET t == (n \div Second) * Second
           IN  t \in Int /\ t <= n /\ n < t + Second
<1>1. n = Second * (n \div Second) + (n % Second) /\ (n % Second) \in 0 .. Second - 1
  BY TimeAssumption
<1> QED
  BY <1>1, TimeAssumption

(* A chunk without a Nul is appended as it is.                               *)
LEMMA ChunkWhole ==
    ASSUME Nul \notin Bytes, NEW chunk \in Seq(Bytes)
    PROVE  AsCString(chunk) = chunk
<1>1. \A i \in 1 .. Len(chunk) : chunk[i] \in Bytes
  BY ElementOfSeq
<1> QED
  BY <1>1 DEF AsCString

(* A set of numbers that is not empty has a least one.                       *)
LEMMA SmallestNat ==
    ASSUME NEW S \in SUBSET Nat, S # {}
    PROVE  \E i \in S : \A j \in S : i <= j
<1>1. PICK i \in S : \A j \in S : ~ <<j, i>> \in OpToRel(<, Nat)
  BY NatLessThanWellFounded, WFMin, Zenon
<1>2. \A j \in S : <<j, i>> \in OpToRel(<, Nat) <=> j < i
  BY DEF OpToRel
<1>3. \A j \in S : j \in Nat /\ ~(j < i)
  BY <1>1, <1>2, Zenon
<1> QED
  BY <1>3

(* What AsCString makes of a chunk is a sequence of bytes in any case.       *)
LEMMA ChunkType ==
    ASSUME NEW chunk \in Seq(Bytes)
    PROVE  AsCString(chunk) \in Seq(Bytes)
<1> DEFINE nuls == {i \in 1 .. Len(chunk) : chunk[i] = Nul}
           first == CHOOSE i \in nuls : \A j \in nuls : i <= j
<1>1. CASE nuls = {}
  BY <1>1 DEF AsCString
<1>2. CASE nuls # {}
  <2>1. first \in nuls
    <3>1. nuls \subseteq Nat /\ nuls # {}
      BY <1>2
    <3>2. \E i \in nuls : \A j \in nuls : i <= j
      BY <3>1, SmallestNat
    <3> QED
      BY <3>2
  <2>2. Len(chunk) \in Nat /\ first - 1 \in Int /\ first - 1 <= Len(chunk)
    BY <2>1, LenProperties
  <2>3. \A i \in 1 .. first - 1 : chunk[i] \in Bytes
    BY <2>2, ElementOfSeq
  <2>4. SubSeq(chunk, 1, first - 1) \in Seq(Bytes)
    <3> HIDE DEF first
    <3> QED
      BY <2>2, <2>3, SubSeqProperties
  <2> QED
    BY <1>2, <2>4 DEF AsCString
<1> QED
  BY <1>1, <1>2

(* Concatenation of texts is associative.                                    *)
LEMMA Associative ==
    \A a, b, c \in Seq(Bytes) : (a \o b) \o c = a \o (b \o c)
BY ConcatAssociative, SMTT(30)

(* One read() moves the front of a pipe to what was captured, and changes no *)
(* other stream.                                                             *)
LEMMA ReadMoves ==
    ASSUME TypeOK, NEW s \in Streams,
           got' = [got EXCEPT ![s] = @ \o AsCString(SubSeq(pipe[s], 1, Available(s, Chunk)))],
           pipe' = [pipe EXCEPT ![s] = SubSeq(@, Available(s, Chunk) + 1, Len(@))],
           written' = written
    PROVE  /\ got' \in [Streams -> Seq(Bytes)] /\ pipe' \in [Streams -> Seq(Bytes)]
           /\ \A t \in Streams : pipe[t] = <<>> => pipe'[t] = <<>>
           /\ Captured => Captured'
<1> DEFINE n == Available(s, Chunk)
           taken == SubSeq(pipe[s], 1, n)
           left == SubSeq(pipe[s], n + 1, Len(pipe[s]))
<1>1. /\ pipe[s] \in Seq(Bytes) /\ got[s] \in Seq(Bytes) /\ Len(pipe[s]) \in Nat
      /\ \A i \in 1 .. Len(pipe[s]) : pipe[s][i] \in Bytes
  BY LenProperties, ElementOfSeq DEF TypeOK, ChildTypeOK
<1>2. n \in 0 .. Len(pipe[s])
  BY <1>1, TimeAssumption DEF Available
<1>3. taken \in Seq(Bytes) /\ left \in Seq(Bytes) /\ AsCString(taken) \in Seq(Bytes)
  <2> HIDE DEF n
  <2>1. /\ \A i \in 1 .. n : pipe[s][i] \in Bytes
        /\ \A i \in n + 1 .. Len(pipe[s]) : pipe[s][i] \in Bytes
    BY <1>1, <1>2
  <2>2. n \in Int /\ 1 \in Int /\ n + 1 \in Int /\ Len(pipe[s]) \in Int
    BY <1>1, <1>2
  <2>3. taken \in Seq(Bytes) /\ left \in Seq(Bytes)
    BY <2>1, <2>2, SubSeqProperties
  <2> HIDE DEF taken
  <2> QED
    BY <2>3, ChunkType
<1>4. taken \o left = pipe[s]
  <2> HIDE DEF n
  <2>1. 1 \in 1 .. Len(pipe[s]) + 1 /\ n \in 1 - 1 .. Len(pipe[s])
        /\ Len(pipe[s]) \in n .. Len(pipe[s])
    BY <1>1, <1>2
  <2> QED
    BY <1>1, <2>1, ConcatAdjacentSubSeq, SubSeqFull
<1>5. pipe[s] = <<>> => left = <<>>
  BY <1>3, <1>4, ConcatEqualIffEmpty
<1> HIDE DEF taken, left, n
<1>6. /\ got' = [got EXCEPT ![s] = @ \o AsCString(taken)]
      /\ pipe' = [pipe EXCEPT ![s] = left]
  BY DEF taken, left, n
<1>7. got[s] \o AsCString(taken) \in Seq(Bytes)
  BY <1>1, <1>3, ConcatProperties
<1>8. /\ got' \in [Streams -> Seq(Bytes)] /\ pipe' \in [Streams -> Seq(Bytes)]
      /\ \A t \in Streams : pipe[t] = <<>> => pipe'[t] = <<>>
  <2> DEFINE Text == Seq(Bytes)
  <2>1. /\ got \in [Streams -> Text] /\ pipe \in [Streams -> Text]
        /\ left \in Text /\ got[s] \o AsCString(taken) \in Text
    BY <1>3, <1>7 DEF TypeOK, ChildTypeOK
  <2> HIDE DEF Text
  <2>2. /\ got' \in [Streams -> Text] /\ pipe' \in [Streams -> Text]
        /\ \A t \in Streams : pipe'[t] = IF t = s THEN left ELSE pipe[t]
    BY <1>6, <2>1, ZenonT(30)
  <2> QED
    BY <1>5, <2>2 DEF Text
<1>9. ASSUME Captured, Nul \notin Bytes, NEW t \in Streams
      PROVE  got'[t] \o pipe'[t] = written'[t]
  <2>1. got[t] \o pipe[t] = written[t]
    BY <1>9 DEF Captured, NothingLost
  <2>2. CASE t # s
    BY <1>6, <2>1, <2>2 DEF TypeOK, ChildTypeOK
  <2>3. CASE t = s
    <3>1. AsCString(taken) = taken
      BY <1>3, <1>9, ChunkWhole
    <3>2. got'[t] = got[s] \o taken /\ pipe'[t] = left
      BY <1>6, <2>3, <3>1 DEF TypeOK, ChildTypeOK
    <3>3. (got[s] \o taken) \o left = got[s] \o (taken \o left)
      <4>1. got[s] \in Seq(Bytes) /\ taken \in Seq(Bytes) /\ left \in Seq(Bytes)
        BY <1>1, <1>3
      <4> QED
        BY <4>1, Associative
    <3> QED
      BY <1>4, <2>1, <2>3, <3>2, <3>3, Zenon
  <2> QED
    BY <2>2, <2>3
<1> QED
  BY <1>8, <1>9 DEF Captured, NothingLost

(* A write appends to the pipe and to the history alike.                     *)
LEMMA WriteMoves ==
    ASSUME TypeOK, NEW s \in Streams, NEW b \in Bytes, Write(s, b), got' = got
    PROVE  /\ pipe' \in [Streams -> Seq(Bytes)] /\ written' \in [Streams -> Seq(Bytes)]
           /\ Captured => Captured'
<1>1. /\ pipe' = [pipe EXCEPT ![s] = Append(@, b)]
      /\ written' = [written EXCEPT ![s] = Append(@, b)]
  BY DEF Write
<1>2. /\ pipe[s] \in Seq(Bytes) /\ got[s] \in Seq(Bytes) /\ written[s] \in Seq(Bytes)
      /\ Append(pipe[s], b) \in Seq(Bytes) /\ Append(written[s], b) \in Seq(Bytes)
  BY AppendProperties DEF TypeOK, ChildTypeOK
<1>3. pipe' \in [Streams -> Seq(Bytes)] /\ written' \in [Streams -> Seq(Bytes)]
  BY <1>1, <1>2 DEF TypeOK, ChildTypeOK
<1>4. got[s] \o Append(pipe[s], b) = Append(got[s] \o pipe[s], b)
  <2>1. <<b>> \in Seq(Bytes) /\ got[s] \o pipe[s] \in Seq(Bytes)
    BY <1>2, ConcatProperties
  <2>2. Append(pipe[s], b) = pipe[s] \o <<b>>
    BY <1>2, AppendIsConcat
  <2>3. Append(got[s] \o pipe[s], b) = (got[s] \o pipe[s]) \o <<b>>
    BY <2>1, AppendIsConcat
  <2>4. (got[s] \o pipe[s]) \o <<b>> = got[s] \o (pipe[s] \o <<b>>)
    <3>1. got[s] \in Seq(Bytes) /\ pipe[s] \in Seq(Bytes) /\ <<b>> \in Seq(Bytes)
      BY <1>2, <2>1
    <3> QED
      BY <3>1, Associative
  <2> QED
    BY <2>2, <2>3, <2>4, Zenon
<1>5. ASSUME NothingLost, NEW t \in Streams
      PROVE  got'[t] \o pipe'[t] = written'[t]
  <2>1. got[t] \o pipe[t] = written[t]
    BY <1>5 DEF NothingLost
  <2>2. CASE t # s
    BY <1>1, <2>1, <2>2 DEF TypeOK, ChildTypeOK
  <2>3. CASE t = s
    BY <1>1, <1>4, <2>1, <2>3 DEF TypeOK, ChildTypeOK
  <2> QED
    BY <2>2, <2>3
<1> QED
  BY <1>3, <1>5 DEF Captured, NothingLost

-----------------------------------------------------------------------------
(* Before the call the invariant holds.                                      *)
LEMMA IInvInit == ExecuteInit => IInv
<1> SUFFICES ASSUME ExecuteInit PROVE IInv
  OBVIOUS
<1>1. <<>> \in Seq(Bytes) /\ <<>> \o <<>> = <<>>
  BY EmptySeq, ConcatEmptySeq
<1>2. /\ child = "none" /\ exitStatus = 0 /\ pc = "outPipe" /\ endTime = -1
      /\ pollUntil = -1 /\ broke = FALSE /\ now \in 0 .. Second - 1 /\ start = now
      /\ timeout \in TimeoutsMs /\ platform \in {"posix", "windows"}
      /\ result = [success |-> FALSE, exitCode |-> 0, message |-> "none"]
  BY Zenon DEF ExecuteInit, Init, ChildInit
<1>3. \A s \in Streams : /\ pipe[s] = <<>> /\ got[s] = <<>> /\ written[s] = <<>>
                         /\ revents[s] = {} /\ ~closed[s]
                         /\ ~writeOpen[s] /\ ~readOpen[s]
  BY DEF ExecuteInit, Init, ChildInit, NoEvents
<1>4. TypeOK
  <2>1. /\ pipe \in [Streams -> Seq(Bytes)] /\ got \in [Streams -> Seq(Bytes)]
        /\ written \in [Streams -> Seq(Bytes)]
    BY <1>1 DEF ExecuteInit, Init, ChildInit
  <2>2. now \in 0 .. MaxTime /\ start \in 0 .. MaxTime
    <3>1. now \in 0 .. Second - 1 /\ start = now
      BY <1>2, Zenon
    <3>2. Second \in Nat /\ MaxTime \in Nat /\ MaxTime >= Second
      BY TimeAssumption
    <3> QED
      BY <3>1, <3>2
  <2>3. /\ revents \in [Streams -> SUBSET {"IN", "HUP"}]
        /\ readFailed \in [Streams -> BOOLEAN]
        /\ closed \in [Streams -> BOOLEAN] /\ writeOpen \in [Streams -> BOOLEAN]
        /\ readOpen \in [Streams -> BOOLEAN]
    BY DEF ExecuteInit, Init, ChildInit, NoEvents
  <2>4. /\ result \in [success : BOOLEAN,
                       exitCode : {-1} \cup ExitCodes \cup {Killed, Terminated, BrokenPipe},
                       message : {"none", "failed", "timedOut"}]
        /\ exitStatus \in ExitCodes
    BY <1>2 DEF ExitCodes
  <2>5. ChildTypeOK
    BY <1>2, <2>1, <2>3, <2>4 DEF ChildTypeOK
  <2>6. endTime \in Int /\ pollUntil \in Int
    <3>1. endTime = -1 /\ pollUntil = -1
      BY <1>2, Zenon
    <3> QED
      BY <3>1
  <2> QED
    BY <1>2, <2>1, <2>2, <2>3, <2>4, <2>5, <2>6 DEF TypeOK
<1>5. Captured
  BY <1>1, <1>3 DEF Captured, NothingLost
<1>6. SetUpInv /\ ClosedMeansDrained /\ HangupInv
  BY <1>2, <1>3 DEF SetUpInv, ClosedMeansDrained, HangupInv
<1>7. ProgramInv /\ InTurnInv
  BY <1>2, <1>3 DEF ProgramInv, InTurnInv, SettingUp, Posix
<1>8. VerdictInv /\ NoDescriptorLeak /\ ExitCodeOfChild /\ AtMostASecondEarly
  <2>1. now \in 0 .. MaxTime /\ start = now
    BY <1>2, <1>4, Zenon DEF TypeOK
  <2>2. result.message = "none" /\ result.exitCode = 0
    BY <1>2
  <2>3. VerdictInv
    <3>1. now \in 0 .. MaxTime /\ MaxTime \in Nat
      BY <1>4, TimeAssumption, Zenon DEF TypeOK
    <3>2. pc = "outPipe" /\ now = start
      BY <1>2, Zenon
    <3>3. now >= start /\ pc \notin {"wait", "terminate", "kill"} /\ SettingUp
      BY <3>1, <3>2 DEF SettingUp
    <3>4. result.exitCode # -1
      BY <2>2
    <3> QED
      BY <3>3, <3>4, Zenon DEF VerdictInv
  <2> QED
    BY <1>2, <2>2, <2>3 DEF NoDescriptorLeak, ExitCodeOfChild, AtMostASecondEarly
<1> QED
  BY <1>4, <1>5, <1>6, <1>7, <1>8 DEF IInv

-----------------------------------------------------------------------------
(* What the child does, on either platform, and what SIGTERM and SIGKILL do, *)
(* keeps the invariant.                                                      *)
LEMMA ChildStep ==
    ASSUME IInv, ChildNext, UNCHANGED <<parentVars, platform>>
    PROVE  IInv'
<1> USE DEF SettingUp, Posix
<1>0. /\ TypeOK /\ SetUpInv /\ ProgramInv /\ Captured /\ ClosedMeansDrained /\ HangupInv
      /\ InTurnInv /\ VerdictInv /\ NoDescriptorLeak /\ ExitCodeOfChild /\ AtMostASecondEarly
  BY DEF IInv
<1>1. UNCHANGED <<pc, now, timeout, start, endTime, pollUntil, revents, closed, got, result,
                  broke, readFailed, platform>>
  BY DEF parentVars, callVars
<1>2. VerdictInv' /\ AtMostASecondEarly'
  BY <1>0, <1>1 DEF VerdictInv, AtMostASecondEarly
<1>3. ASSUME /\ child' \in {"zombie", child} /\ child \in {"running", child'}
             /\ child' # child => exitStatus' \in ExitCodes \cup {BrokenPipe}
             /\ child' = child => exitStatus' = exitStatus /\ child # "none"
             /\ readOpen' = readOpen /\ writeOpen' \in [Streams -> BOOLEAN]
             /\ \A s \in Streams : writeOpen'[s] => writeOpen[s]
             /\ \A s \in Streams : ~writeOpen[s] => pipe'[s] = pipe[s]
             /\ pipe' \in [Streams -> Seq(Bytes)] /\ written' \in [Streams -> Seq(Bytes)]
             /\ Captured'
      PROVE  IInv'
  <2>1. TypeOK'
    <3>1. ChildTypeOK'
      BY <1>0, <1>3 DEF TypeOK, ChildTypeOK
    <3> QED
      BY <1>0, <1>1, <3>1, ZenonT(30) DEF TypeOK
  <2>2. SetUpInv' /\ ProgramInv' /\ NoDescriptorLeak'
    BY <1>0, <1>1, <1>3 DEF SetUpInv, ProgramInv, NoDescriptorLeak
  <2>3. ClosedMeansDrained' /\ HangupInv' /\ InTurnInv'
    BY <1>0, <1>1, <1>3 DEF ClosedMeansDrained, HangupInv, InTurnInv, Streams
  <2>4. ExitCodeOfChild'
    BY <1>0, <1>1, <1>3 DEF ExitCodeOfChild
  <2> QED
    BY <1>2, <1>3, <2>1, <2>2, <2>3, <2>4 DEF IInv
<1>4. ASSUME NEW code \in ExitCodes \cup {BrokenPipe}, child = "running", End(code)
      PROVE  IInv'
  <2>1. /\ child' = "zombie" /\ exitStatus' = code
        /\ \/ writeOpen' = [s \in Streams |-> FALSE]
           \/ writeOpen' = writeOpen
        /\ pipe' = pipe /\ readOpen' = readOpen /\ written' = written
    BY <1>4 DEF End
  <2>2. Captured'
    BY <1>0, <1>1, <2>1 DEF Captured, NothingLost
  <2> QED
    BY <1>0, <1>3, <1>4, <2>1, <2>2 DEF TypeOK, ChildTypeOK
<1>5. ASSUME NEW s \in Streams, CloseStream(s)
      PROVE  IInv'
  <2>1. /\ child # "none" /\ writeOpen' = [writeOpen EXCEPT ![s] = FALSE]
        /\ UNCHANGED <<child, exitStatus, pipe, readOpen, written>>
    BY <1>5 DEF CloseStream
  <2>2. Captured'
    BY <1>0, <1>1, <2>1 DEF Captured, NothingLost
  <2> QED
    BY <1>0, <1>3, <2>1, <2>2 DEF TypeOK, ChildTypeOK
<1>6. ASSUME NEW s \in Streams, NEW b \in Bytes, Write(s, b)
      PROVE  IInv'
  <2>1. /\ pipe' \in [Streams -> Seq(Bytes)] /\ written' \in [Streams -> Seq(Bytes)]
        /\ Captured'
    BY <1>0, <1>1, <1>6, WriteMoves
  <2>2. /\ child = "running" /\ writeOpen[s] /\ pipe' = [pipe EXCEPT ![s] = Append(@, b)]
        /\ UNCHANGED <<child, exitStatus, writeOpen, readOpen>>
    BY <1>6 DEF Write
  <2>3. \A t \in Streams : ~writeOpen[t] => pipe'[t] = pipe[t]
    BY <1>0, <2>2 DEF TypeOK, ChildTypeOK
  <2> QED
    BY <1>0, <1>3, <2>1, <2>2, <2>3 DEF TypeOK, ChildTypeOK
<1> QED
  BY <1>4, <1>5, <1>6 DEF ChildNext, WriteBroken, Exit

Results == [success : BOOLEAN,
            exitCode : {-1} \cup ExitCodes \cup {Killed, Terminated, BrokenPipe},
            message : {"none", "failed", "timedOut"}]

(* The assignments to the result keep its type.                              *)
LEMMA ResultFields ==
    ASSUME NEW r \in Results,
           NEW e \in {-1} \cup ExitCodes \cup {Killed, Terminated, BrokenPipe}
    PROVE  /\ [r EXCEPT !.success = TRUE] \in Results
           /\ [r EXCEPT !.exitCode = e] \in Results
           /\ [r EXCEPT !.message = "failed"] \in Results
           /\ [r EXCEPT !.message = "timedOut", !.exitCode = e] \in Results
<1> DEFINE Codes == {-1} \cup ExitCodes \cup {Killed, Terminated, BrokenPipe}
<1>1. e \in Codes /\ r \in [success : BOOLEAN, exitCode : Codes,
                            message : {"none", "failed", "timedOut"}]
  BY DEF Results
<1> HIDE DEF Codes
<1>2. /\ [r EXCEPT !.success = TRUE] \in [success : BOOLEAN, exitCode : Codes,
                                         message : {"none", "failed", "timedOut"}]
      /\ [r EXCEPT !.exitCode = e] \in [success : BOOLEAN, exitCode : Codes,
                                        message : {"none", "failed", "timedOut"}]
      /\ [r EXCEPT !.message = "failed"] \in
            [success : BOOLEAN, exitCode : Codes, message : {"none", "failed", "timedOut"}]
      /\ [r EXCEPT !.message = "timedOut", !.exitCode = e] \in
            [success : BOOLEAN, exitCode : Codes, message : {"none", "failed", "timedOut"}]
  BY <1>1
<1> QED
  BY <1>2 DEF Results, Codes

(* The time that the program sees is close to the clock. *)
LEMMA TimeRounds ==
    ASSUME TypeOK
    PROVE  /\ Time \in Int /\ timeout \in Int /\ now \in Nat /\ start \in Nat
           /\ Time <= now /\ now < Time + Second
<1>1. now \in 0 .. MaxTime /\ start \in 0 .. MaxTime /\ timeout \in TimeoutsMs
  BY Zenon DEF TypeOK
<1>2. now \in Nat /\ start \in Nat /\ timeout \in Int
  BY <1>1, TimeAssumption DEF TimeoutsMs
<1> QED
  BY <1>2, ClockGrain DEF Time

-----------------------------------------------------------------------------
(* Every step of the POSIX program keeps the types.                          *)
LEMMA PosixTyping ==
    ASSUME TypeOK, Parent \/ PollFails \/ Tick
    PROVE  TypeOK'
<1> USE DEF childVars, callVars
<1>0. result \in Results /\ -1 \in {-1} \cup ExitCodes \cup {Killed, Terminated, BrokenPipe}
  BY DEF TypeOK, Results
<1>2. CASE OutPipe
  <2>1. result' \in Results
    BY <1>0, <1>2, ResultFields, Zenon DEF OutPipe
  <2>2. readOpen' \in [Streams -> BOOLEAN] /\ writeOpen' \in [Streams -> BOOLEAN]
    BY <1>2 DEF OutPipe, TypeOK, ChildTypeOK
  <2> QED
    BY <1>0, <1>2, <2>1, <2>2, Zenon DEF OutPipe, TypeOK, ChildTypeOK, Results
<1>3. CASE ErrPipe
  <2>1. result' \in Results
    BY <1>0, <1>3, ResultFields, Zenon DEF ErrPipe
  <2>2. readOpen' \in [Streams -> BOOLEAN] /\ writeOpen' \in [Streams -> BOOLEAN]
    BY <1>3 DEF ErrPipe, TypeOK, ChildTypeOK
  <2> QED
    BY <1>0, <1>3, <2>1, <2>2, Zenon DEF ErrPipe, TypeOK, ChildTypeOK, Results
<1>4. CASE Fork
  <2>1. result' \in Results
    BY <1>0, <1>4, ResultFields, Zenon DEF Fork
  <2>2. readOpen' \in [Streams -> BOOLEAN] /\ writeOpen' \in [Streams -> BOOLEAN]
    BY <1>4 DEF Fork, TypeOK, ChildTypeOK
  <2>3. endTime' \in Int
    BY <1>4, TimeRounds DEF Fork, TypeOK
  <2> QED
    BY <1>0, <1>4, <2>1, <2>2, <2>3, Zenon DEF Fork, TypeOK, ChildTypeOK, Results
<1>5. CASE LoopTest
  BY <1>5, ZenonT(30) DEF LoopTest, TypeOK, ChildTypeOK
<1>6. CASE CheckTime
  <2>1. pollUntil' \in Int
    BY <1>6, TimeRounds DEF CheckTime, TypeOK, ChildTypeOK
  <2>2. /\ pc' \in {"terminate", "poll"} /\ now' = now
        /\ UNCHANGED <<childVars, callVars, endTime, revents, closed, got, result, broke,
                        readFailed>>
    BY <1>6 DEF CheckTime
  <2>3. ChildTypeOK'
    BY <2>2, Zenon DEF TypeOK, ChildTypeOK
  <2>4. UNCHANGED <<timeout, start, endTime, revents, closed, got, result, broke,
                        readFailed>>
    BY <2>2
  <2> QED
    BY <2>1, <2>2, <2>3, <2>4, Zenon DEF TypeOK
<1>7. CASE Terminate
  <2>1. exitStatus' \in ExitCodes \cup {Killed, Terminated, BrokenPipe} /\ writeOpen' \in [Streams -> BOOLEAN]
    BY <1>7 DEF Terminate, End, TypeOK, ChildTypeOK
  <2> QED
    BY <1>7, <2>1, ZenonT(30) DEF Terminate, End, TypeOK, ChildTypeOK
<1>8. CASE Kill
  <2>1. result' \in Results
    BY <1>0, <1>8, ResultFields, Zenon DEF Kill
  <2>2. exitStatus' \in ExitCodes \cup {Killed, Terminated, BrokenPipe} /\ writeOpen' \in [Streams -> BOOLEAN]
    BY <1>8 DEF Kill, End, TypeOK, ChildTypeOK
  <2> QED
    BY <1>0, <1>8, <2>1, <2>2, Zenon DEF Kill, End, TypeOK, ChildTypeOK, Results
<1>9. CASE Poll
  <2>1. revents' \in [Streams -> SUBSET {"IN", "HUP"}]
    BY <1>9 DEF Poll, Events, NoEvents, TypeOK, ChildTypeOK
  <2> QED
    BY <1>9, <2>1, ZenonT(30) DEF Poll, Events, NoEvents, TypeOK, ChildTypeOK
<1>10. ASSUME NEW s \in Streams, Read(s)
       PROVE  TypeOK'
  <2>1. got' \in [Streams -> Seq(Bytes)] /\ pipe' \in [Streams -> Seq(Bytes)]
    <3>1. CASE UNCHANGED <<got, pipe>>
      BY <3>1 DEF TypeOK, ChildTypeOK
    <3>2. CASE ~ UNCHANGED <<got, pipe>>
      BY <1>10, <3>2, ReadMoves DEF Read
    <3> QED
      BY <3>1, <3>2
  <2>2. /\ pc' \in {"readErr", "hangup"}
        /\ closed' \in [Streams -> BOOLEAN] /\ readFailed' \in [Streams -> BOOLEAN]
    BY <1>10 DEF Read, TypeOK
  <2>3. UNCHANGED <<child, exitStatus, writeOpen, readOpen, written, now, timeout, start,
                    endTime, pollUntil, revents, result, broke>>
    BY <1>10 DEF Read
  <2>4. ChildTypeOK'
    BY <2>1, <2>3, Zenon DEF TypeOK, ChildTypeOK
  <2> QED
    BY <2>1, <2>2, <2>3, <2>4, ZenonT(30) DEF TypeOK
<1>11. CASE Hangup
  <2>1. closed' \in [Streams -> BOOLEAN]
    BY <1>11 DEF Hangup, TypeOK, ChildTypeOK
  <2> QED
    BY <1>11, <2>1, ZenonT(30) DEF Hangup, TypeOK, ChildTypeOK
<1>12. CASE CloseRead
  <2>1. readOpen' \in [Streams -> BOOLEAN] /\ pc' \in {"wait", "returned"}
    BY <1>12 DEF CloseRead, TypeOK, ChildTypeOK
  <2> QED
    BY <1>12, <2>1, ZenonT(30) DEF CloseRead, TypeOK, ChildTypeOK
<1>13. CASE WaitPid
  <2>1. result' \in Results
    BY <1>0, <1>13, ResultFields, Zenon DEF WaitPid, TypeOK, ChildTypeOK
  <2> QED
    BY <1>0, <1>13, <2>1, Zenon DEF WaitPid, TypeOK, ChildTypeOK, Results
<1>14. CASE PollFails
  BY <1>14, ZenonT(30) DEF PollFails, TypeOK, ChildTypeOK
<1>15. CASE Tick
  <2>1. now' \in 0 .. MaxTime
    BY <1>15, TimeAssumption DEF Tick, TypeOK, ChildTypeOK
  <2>2. /\ pc' = pc /\ pollUntil' = pollUntil
        /\ UNCHANGED <<childVars, callVars, endTime, revents, closed, got, result, broke,
                        readFailed>>
    BY <1>15 DEF Tick
  <2>3. ChildTypeOK'
    BY <2>2, Zenon DEF TypeOK, ChildTypeOK
  <2>4. UNCHANGED <<timeout, start, endTime, revents, closed, got, result, broke,
                        readFailed>>
    BY <2>2
  <2> QED
    BY <2>1, <2>2, <2>3, <2>4, Zenon DEF TypeOK
<1> QED
  BY <1>2, <1>3, <1>4, <1>5, <1>6, <1>7, <1>8, <1>9, <1>10, <1>11, <1>12, <1>13, <1>14, <1>15
  DEF Parent
-----------------------------------------------------------------------------
(* Every step of the POSIX program keeps the invariant.                      *)
LEMMA PosixStep ==
    ASSUME IInv, Posix, Parent \/ PollFails \/ Tick, UNCHANGED platform
    PROVE  IInv'
<1> USE DEF SettingUp, Posix, childVars, callVars
<1>0. /\ TypeOK /\ SetUpInv /\ ProgramInv /\ Captured /\ ClosedMeansDrained /\ HangupInv
      /\ InTurnInv /\ VerdictInv /\ NoDescriptorLeak /\ ExitCodeOfChild /\ AtMostASecondEarly
      /\ TypeOK'
  BY PosixTyping DEF IInv
<1>1. ASSUME UNCHANGED <<got, pipe, written>> PROVE Captured'
  BY <1>0, <1>1 DEF Captured, NothingLost
<1>16. /\ child \in {"none", "running", "zombie", "reaped"} /\ result \in Results
       /\ now \in Int /\ start \in Int /\ timeout \in Int /\ endTime \in Int
       /\ closed \in [Streams -> BOOLEAN] /\ revents \in [Streams -> SUBSET {"IN", "HUP"}]
       /\ pipe \in [Streams -> Seq(Bytes)]
       /\ readOpen \in [Streams -> BOOLEAN] /\ writeOpen \in [Streams -> BOOLEAN]
  BY <1>0, TimeRounds DEF TypeOK, ChildTypeOK, Results
<1>2. CASE OutPipe
  <2>0. \/ result' = result
        \/ /\ result'.success = result.success /\ result'.exitCode = result.exitCode
           /\ result'.message = "failed"
    BY <1>16, <1>2 DEF OutPipe, Results
  <2>1. SetUpInv' /\ ProgramInv' /\ NoDescriptorLeak' /\ ExitCodeOfChild'
    BY <1>0, <1>2, <1>16, <2>0
    DEF OutPipe, SetUpInv, ProgramInv, NoDescriptorLeak, ExitCodeOfChild, VerdictInv
  <2>2. ClosedMeansDrained' /\ HangupInv' /\ InTurnInv'
    BY <1>0, <1>2, <1>16
    DEF OutPipe, ClosedMeansDrained, HangupInv, InTurnInv, SetUpInv
  <2>3. VerdictInv' /\ AtMostASecondEarly'
    BY <1>0, <1>2, <1>16, TimeAssumption, <2>0
    DEF OutPipe, SetUpInv, VerdictInv, AtMostASecondEarly
  <2>4. Captured'
    BY <1>1, <1>2 DEF OutPipe
  <2> QED
    BY <1>0, <2>1, <2>2, <2>3, <2>4 DEF IInv
<1>3. CASE ErrPipe
  <2>0. \/ result' = result
        \/ /\ result'.success = result.success /\ result'.exitCode = result.exitCode
           /\ result'.message = "failed"
    BY <1>16, <1>3 DEF ErrPipe, Results
  <2>1. SetUpInv' /\ ProgramInv' /\ NoDescriptorLeak' /\ ExitCodeOfChild'
    BY <1>0, <1>3, <1>16, <2>0
    DEF ErrPipe, SetUpInv, ProgramInv, NoDescriptorLeak, ExitCodeOfChild, VerdictInv
  <2>2. ClosedMeansDrained' /\ HangupInv' /\ InTurnInv'
    BY <1>0, <1>3, <1>16
    DEF ErrPipe, ClosedMeansDrained, HangupInv, InTurnInv, SetUpInv
  <2>3. VerdictInv' /\ AtMostASecondEarly'
    BY <1>0, <1>3, <1>16, TimeAssumption, <2>0
    DEF ErrPipe, SetUpInv, VerdictInv, AtMostASecondEarly
  <2>4. Captured'
    BY <1>1, <1>3 DEF ErrPipe
  <2> QED
    BY <1>0, <2>1, <2>2, <2>3, <2>4 DEF IInv
<1>4. CASE Fork
  <2>0. /\ result'.exitCode = result.exitCode
        /\ \/ /\ result'.success = TRUE /\ result'.message = result.message
              /\ child' = "running"
           \/ /\ result'.success = result.success /\ result'.message = "failed"
              /\ child' = child
    BY <1>16, <1>4 DEF Fork, Results
  <2>1. SetUpInv' /\ ProgramInv' /\ NoDescriptorLeak' /\ ExitCodeOfChild'
    BY <1>0, <1>4, <1>16, <2>0
    DEF Fork, SetUpInv, ProgramInv, NoDescriptorLeak, ExitCodeOfChild, VerdictInv
  <2>2. ClosedMeansDrained' /\ HangupInv' /\ InTurnInv'
    BY <1>0, <1>4, <1>16
    DEF Fork, ClosedMeansDrained, HangupInv, InTurnInv, SetUpInv
  <2>3. VerdictInv' /\ AtMostASecondEarly'
    BY <1>0, <1>4, <1>16, TimeAssumption, TimeRounds, <2>0
    DEF Fork, SetUpInv, VerdictInv, AtMostASecondEarly
  <2>4. Captured'
    BY <1>1, <1>4 DEF Fork
  <2> QED
    BY <1>0, <2>1, <2>2, <2>3, <2>4 DEF IInv
<1>5. CASE LoopTest
  <2>1. SetUpInv' /\ ProgramInv' /\ NoDescriptorLeak' /\ ExitCodeOfChild'
    BY <1>0, <1>5, <1>16
    DEF LoopTest, SetUpInv, ProgramInv, NoDescriptorLeak, ExitCodeOfChild, VerdictInv
  <2>2. ClosedMeansDrained' /\ HangupInv' /\ InTurnInv'
    BY <1>0, <1>5, <1>16
    DEF LoopTest, ClosedMeansDrained, HangupInv, InTurnInv, SetUpInv
  <2>3. VerdictInv' /\ AtMostASecondEarly'
    BY <1>0, <1>5, <1>16, TimeAssumption
    DEF LoopTest, SetUpInv, VerdictInv, AtMostASecondEarly
  <2>4. Captured'
    BY <1>1, <1>5 DEF LoopTest
  <2> QED
    BY <1>0, <2>1, <2>2, <2>3, <2>4 DEF IInv
<1>6. CASE CheckTime
  <2>1. SetUpInv' /\ ProgramInv' /\ NoDescriptorLeak' /\ ExitCodeOfChild'
    BY <1>0, <1>6, <1>16
    DEF CheckTime, SetUpInv, ProgramInv, NoDescriptorLeak, ExitCodeOfChild, VerdictInv
  <2>2. ClosedMeansDrained' /\ HangupInv' /\ InTurnInv'
    BY <1>0, <1>6, <1>16
    DEF CheckTime, ClosedMeansDrained, HangupInv, InTurnInv, SetUpInv
  <2>3. VerdictInv' /\ AtMostASecondEarly'
    BY <1>0, <1>6, <1>16, TimeAssumption, TimeRounds
    DEF CheckTime, SetUpInv, VerdictInv, AtMostASecondEarly
  <2>4. Captured'
    BY <1>1, <1>6 DEF CheckTime
  <2> QED
    BY <1>0, <2>1, <2>2, <2>3, <2>4 DEF IInv
<1>7. CASE Terminate
  <2>1. SetUpInv' /\ ProgramInv' /\ NoDescriptorLeak' /\ ExitCodeOfChild'
    BY <1>0, <1>7, <1>16
    DEF Terminate, End, SetUpInv, ProgramInv, NoDescriptorLeak, ExitCodeOfChild, VerdictInv
  <2>2. ClosedMeansDrained' /\ HangupInv' /\ InTurnInv'
    BY <1>0, <1>7, <1>16
    DEF Terminate, End, ClosedMeansDrained, HangupInv, InTurnInv, SetUpInv
  <2>3. VerdictInv' /\ AtMostASecondEarly'
    BY <1>0, <1>7, <1>16, TimeAssumption
    DEF Terminate, End, SetUpInv, VerdictInv, AtMostASecondEarly
  <2>4. Captured'
    BY <1>1, <1>7 DEF Terminate, End
  <2> QED
    BY <1>0, <2>1, <2>2, <2>3, <2>4 DEF IInv
<1>8. CASE Kill
  <2>0. /\ result'.success = result.success /\ result'.exitCode = -1
        /\ result'.message = "timedOut"
    BY <1>16, <1>8 DEF Kill, Results
  <2>1. SetUpInv' /\ ProgramInv' /\ NoDescriptorLeak' /\ ExitCodeOfChild'
    BY <1>0, <1>8, <1>16, <2>0
    DEF Kill, End, SetUpInv, ProgramInv, NoDescriptorLeak, ExitCodeOfChild, VerdictInv
  <2>2. ClosedMeansDrained' /\ HangupInv' /\ InTurnInv'
    BY <1>0, <1>8, <1>16
    DEF Kill, End, ClosedMeansDrained, HangupInv, InTurnInv, SetUpInv
  <2>3. VerdictInv' /\ AtMostASecondEarly'
    BY <1>0, <1>8, <1>16, TimeAssumption, <2>0
    DEF Kill, End, SetUpInv, VerdictInv, AtMostASecondEarly
  <2>4. Captured'
    BY <1>1, <1>8 DEF Kill, End
  <2> QED
    BY <1>0, <2>1, <2>2, <2>3, <2>4 DEF IInv
<1>9. CASE Poll
  <2>1. SetUpInv' /\ ProgramInv' /\ NoDescriptorLeak' /\ ExitCodeOfChild'
    BY <1>0, <1>9, <1>16
    DEF Poll, Events, NoEvents, SetUpInv, ProgramInv, NoDescriptorLeak, ExitCodeOfChild, VerdictInv
  <2>2. ClosedMeansDrained' /\ HangupInv' /\ InTurnInv'
    BY <1>0, <1>9, <1>16
    DEF Poll, Events, NoEvents, ClosedMeansDrained, HangupInv, InTurnInv, SetUpInv
  <2>3. VerdictInv' /\ AtMostASecondEarly'
    BY <1>0, <1>9, <1>16, TimeAssumption
    DEF Poll, Events, NoEvents, SetUpInv, VerdictInv, AtMostASecondEarly
  <2>4. Captured'
    BY <1>1, <1>9 DEF Poll, Events, NoEvents
  <2> QED
    BY <1>0, <2>1, <2>2, <2>3, <2>4 DEF IInv
<1>10. ASSUME NEW s \in Streams, Read(s)
       PROVE  IInv'
  <2>4. Captured' /\ (\A t \in Streams : pipe[t] = <<>> => pipe'[t] = <<>>)
    <3>1. CASE UNCHANGED <<got, pipe>>
      BY <1>1, <1>10, <3>1 DEF Read
    <3>2. CASE ~ UNCHANGED <<got, pipe>>
      BY <1>0, <1>10, <3>2, ReadMoves DEF Read
    <3> QED
      BY <3>1, <3>2
  <2>5. /\ pc \in {"readOut", "readErr"} /\ pc' \in {"readErr", "hangup"}
        /\ UNCHANGED <<child, exitStatus, writeOpen, readOpen, now, callVars, endTime,
                       revents, result>>
        /\ \A t \in Streams : closed'[t] => closed[t] \/ readFailed'[t]
        /\ \A t \in Streams : readFailed[t] => readFailed'[t]
    BY <1>0, <1>10 DEF Read, TypeOK
  <2>1. SetUpInv' /\ ProgramInv' /\ NoDescriptorLeak' /\ ExitCodeOfChild'
    BY <1>0, <1>16, <2>4, <2>5
    DEF SetUpInv, ProgramInv, NoDescriptorLeak, ExitCodeOfChild, VerdictInv
  <2>2. ClosedMeansDrained' /\ HangupInv' /\ InTurnInv'
    BY <1>0, <1>16, <2>4, <2>5
    DEF ClosedMeansDrained, HangupInv, InTurnInv, SetUpInv
  <2>3. VerdictInv' /\ AtMostASecondEarly'
    BY <1>0, <1>16, <2>4, <2>5, TimeAssumption
    DEF SetUpInv, VerdictInv, AtMostASecondEarly
  <2> QED
    BY <1>0, <2>1, <2>2, <2>3, <2>4 DEF IInv
<1>11. CASE Hangup
  <2>1. SetUpInv' /\ ProgramInv' /\ NoDescriptorLeak' /\ ExitCodeOfChild'
    BY <1>0, <1>11, <1>16
    DEF Hangup, SetUpInv, ProgramInv, NoDescriptorLeak, ExitCodeOfChild, VerdictInv
  <2>2. ClosedMeansDrained' /\ HangupInv' /\ InTurnInv'
    BY <1>0, <1>11, <1>16
    DEF Hangup, ClosedMeansDrained, HangupInv, InTurnInv, SetUpInv
  <2>3. VerdictInv' /\ AtMostASecondEarly'
    BY <1>0, <1>11, <1>16, TimeAssumption
    DEF Hangup, SetUpInv, VerdictInv, AtMostASecondEarly
  <2>4. Captured'
    BY <1>1, <1>11 DEF Hangup
  <2> QED
    BY <1>0, <2>1, <2>2, <2>3, <2>4 DEF IInv
<1>12. CASE CloseRead
  <2>1. SetUpInv' /\ ProgramInv' /\ NoDescriptorLeak' /\ ExitCodeOfChild'
    BY <1>0, <1>12, <1>16
    DEF CloseRead, SetUpInv, ProgramInv, NoDescriptorLeak, ExitCodeOfChild, VerdictInv
  <2>2. ClosedMeansDrained' /\ HangupInv' /\ InTurnInv'
    BY <1>0, <1>12, <1>16
    DEF CloseRead, ClosedMeansDrained, HangupInv, InTurnInv, SetUpInv
  <2>3. VerdictInv' /\ AtMostASecondEarly'
    BY <1>0, <1>12, <1>16, TimeAssumption
    DEF CloseRead, SetUpInv, VerdictInv, AtMostASecondEarly
  <2>4. Captured'
    BY <1>1, <1>12 DEF CloseRead
  <2> QED
    BY <1>0, <2>1, <2>2, <2>3, <2>4 DEF IInv
<1>13. CASE WaitPid
  <2>0. /\ result'.success = result.success /\ result'.message = result.message
        /\ result'.exitCode = exitStatus
    BY <1>16, <1>13 DEF WaitPid, Results
  <2>5. exitStatus # -1
    BY <1>0 DEF TypeOK, ChildTypeOK, ExitCodes, Killed, Terminated, BrokenPipe
  <2>1. SetUpInv' /\ ProgramInv' /\ NoDescriptorLeak' /\ ExitCodeOfChild'
    <3>1. SetUpInv' /\ NoDescriptorLeak'
      BY <1>0, <1>13, <1>16, <2>0 DEF WaitPid, SetUpInv, ProgramInv, NoDescriptorLeak
    <3>2. ProgramInv'
      BY <1>0, <1>13, <1>16, <2>0 DEF WaitPid, ProgramInv
    <3>3. ExitCodeOfChild'
      BY <1>0, <1>13, <1>16, <2>0 DEF WaitPid, ProgramInv, ExitCodeOfChild
    <3> QED
      BY <3>1, <3>2, <3>3
  <2>2. ClosedMeansDrained' /\ HangupInv' /\ InTurnInv'
    BY <1>0, <1>13, <1>16
    DEF WaitPid, ClosedMeansDrained, HangupInv, InTurnInv, SetUpInv
  <2>3. VerdictInv' /\ AtMostASecondEarly'
    BY <1>0, <1>13, <1>16, TimeAssumption, <2>0, <2>5
    DEF WaitPid, SetUpInv, VerdictInv, AtMostASecondEarly
  <2>4. Captured'
    BY <1>1, <1>13 DEF WaitPid
  <2> QED
    BY <1>0, <2>1, <2>2, <2>3, <2>4 DEF IInv
<1>14. CASE PollFails
  <2>1. SetUpInv' /\ ProgramInv' /\ NoDescriptorLeak' /\ ExitCodeOfChild'
    BY <1>0, <1>14, <1>16
    DEF PollFails, SetUpInv, ProgramInv, NoDescriptorLeak, ExitCodeOfChild, VerdictInv
  <2>2. ClosedMeansDrained' /\ HangupInv' /\ InTurnInv'
    BY <1>0, <1>14, <1>16
    DEF PollFails, ClosedMeansDrained, HangupInv, InTurnInv, SetUpInv
  <2>3. VerdictInv' /\ AtMostASecondEarly'
    BY <1>0, <1>14, <1>16, TimeAssumption
    DEF PollFails, SetUpInv, VerdictInv, AtMostASecondEarly
  <2>4. Captured'
    BY <1>1, <1>14 DEF PollFails
  <2> QED
    BY <1>0, <2>1, <2>2, <2>3, <2>4 DEF IInv
<1>15. CASE Tick
  <2>1. SetUpInv' /\ ProgramInv' /\ NoDescriptorLeak' /\ ExitCodeOfChild'
    <3>1. SetUpInv' /\ NoDescriptorLeak'
      BY <1>0, <1>15, <1>16 DEF Tick, SetUpInv, ProgramInv, NoDescriptorLeak
    <3>2. ProgramInv'
      BY <1>0, <1>15, <1>16 DEF Tick, ProgramInv
    <3>3. ExitCodeOfChild'
      BY <1>0, <1>15, <1>16 DEF Tick, ProgramInv, ExitCodeOfChild
    <3> QED
      BY <3>1, <3>2, <3>3
  <2>2. ClosedMeansDrained' /\ HangupInv' /\ InTurnInv'
    BY <1>0, <1>15, <1>16
    DEF Tick, ClosedMeansDrained, HangupInv, InTurnInv, SetUpInv
  <2>3. VerdictInv' /\ AtMostASecondEarly'
    BY <1>0, <1>15, <1>16, TimeAssumption
    DEF Tick, SetUpInv, VerdictInv, AtMostASecondEarly
  <2>4. Captured'
    BY <1>1, <1>15 DEF Tick
  <2> QED
    BY <1>0, <2>1, <2>2, <2>3, <2>4 DEF IInv
<1> QED
  BY <1>2, <1>3, <1>4, <1>5, <1>6, <1>7, <1>8, <1>9, <1>10, <1>11, <1>12, <1>13, <1>14, <1>15
  DEF Parent
-----------------------------------------------------------------------------
(* The steps of the Windows program do, on what the two programs share, what *)
(* is said of them here.                                                     *)
LEMMA WindowsNames ==
    /\ Windows!Streams = Streams
    /\ Windows!ChildNext <=> ChildNext
    /\ \A s \in Streams : Windows!Available(s, Chunk) = Available(s, Chunk)
    /\ \A c : Windows!AsCString(c) = AsCString(c)
<1>1. Windows!ChildNext <=> ChildNext
  <2>1. \A s : /\ Windows!WriteBroken(s) <=> WriteBroken(s)
               /\ Windows!CloseStream(s) <=> CloseStream(s)
               /\ \A b : Windows!Write(s, b) <=> Write(s, b)
    BY Zenon DEF WriteBroken, Windows!WriteBroken, CloseStream, Windows!CloseStream, Write,
                 Windows!Write, End, Windows!End, Streams, Windows!Streams, BrokenPipe,
                 Windows!BrokenPipe
  <2>2. Windows!Exit <=> Exit
    BY Zenon DEF Exit, Windows!Exit, End, Windows!End, ExitCodes, Windows!ExitCodes, Streams,
                 Windows!Streams
  <2> QED
    BY <2>1, <2>2, Zenon DEF ChildNext, Windows!ChildNext, Streams, Windows!Streams
<1>2. \A c : Windows!AsCString(c) = AsCString(c)
  BY Zenon DEF AsCString, Windows!AsCString
<1> QED
  BY <1>1, <1>2 DEF Streams, Windows!Streams, Available, Windows!Available

WindowsStep == Windows!WinParent \/ Windows!WinTick

(* Every step of the Windows program keeps the types.                        *)
LEMMA WindowsTyping ==
    ASSUME TypeOK, WindowsStep, UNCHANGED <<start, pollUntil, revents, closed, broke>>
    PROVE  TypeOK'
<1> USE DEF Windows!childVars, Windows!Streams, Streams
<1>0. result \in Results /\ -1 \in {-1} \cup ExitCodes \cup {Killed, Terminated, BrokenPipe}
  BY DEF TypeOK, Results
<1>2. CASE Windows!CreateOutPipe
  <2>1. result' \in Results
    BY <1>0, <1>2, ResultFields, Zenon DEF Windows!CreateOutPipe
  <2>2. /\ readOpen' \in [Streams -> BOOLEAN] /\ writeOpen' \in [Streams -> BOOLEAN]
        /\ pc' \in {"errPipe", "create", "readOut", "readErr", "wait", "returned"}
    BY <1>2, ZenonT(30) DEF Windows!CreateOutPipe, TypeOK, ChildTypeOK, Streams
  <2> QED
    BY <1>2, <2>1, <2>2, Zenon DEF Windows!CreateOutPipe, TypeOK, ChildTypeOK, Results
<1>3. CASE Windows!CreateErrPipe
  <2>1. result' \in Results
    BY <1>0, <1>3, ResultFields, Zenon DEF Windows!CreateErrPipe
  <2>2. /\ readOpen' \in [Streams -> BOOLEAN] /\ writeOpen' \in [Streams -> BOOLEAN]
        /\ pc' \in {"errPipe", "create", "readOut", "readErr", "wait", "returned"}
    BY <1>3, ZenonT(30) DEF Windows!CreateErrPipe, TypeOK, ChildTypeOK, Streams
  <2> QED
    BY <1>3, <2>1, <2>2, Zenon DEF Windows!CreateErrPipe, TypeOK, ChildTypeOK, Results
<1>4. CASE Windows!CreateProcess
  <2>1. result' \in Results
    BY <1>0, <1>4, ResultFields, Zenon DEF Windows!CreateProcess
  <2>2. /\ readOpen' \in [Streams -> BOOLEAN] /\ writeOpen' \in [Streams -> BOOLEAN]
        /\ pc' \in {"errPipe", "create", "readOut", "readErr", "wait", "returned"}
    BY <1>4 DEF Windows!CreateProcess, TypeOK, ChildTypeOK, Streams
  <2> QED
    BY <1>4, <2>1, <2>2, Zenon DEF Windows!CreateProcess, TypeOK, ChildTypeOK, Results
<1>5. ASSUME NEW s \in Streams, Windows!ReadFile(s)
      PROVE  TypeOK'
  <2>1. got' \in [Streams -> Seq(Bytes)] /\ pipe' \in [Streams -> Seq(Bytes)]
    BY <1>5, WindowsNames, ReadMoves DEF Windows!ReadFile
  <2>2. UNCHANGED <<child, exitStatus, writeOpen, readOpen, written, pc, now, timeout, endTime,
                    result, readFailed>>
    BY <1>5 DEF Windows!ReadFile
  <2>3. ChildTypeOK'
    BY <2>1, <2>2, Zenon DEF TypeOK, ChildTypeOK
  <2> QED
    BY <2>1, <2>2, <2>3, ZenonT(30) DEF TypeOK
<1>6. ASSUME NEW s \in Streams, Windows!EndOfStream(s)
      PROVE  TypeOK'
  <2>1. endTime' \in Int /\ pc' \in {"readErr", "wait"}
    BY <1>6, TimeRounds DEF Windows!EndOfStream
  <2>2. readFailed' \in [Streams -> BOOLEAN]
    <3>1. /\ readFailed \in [Streams -> BOOLEAN]
          /\ readFailed' \in {readFailed, [readFailed EXCEPT ![s] = TRUE]}
      BY <1>6, Zenon DEF Windows!EndOfStream, TypeOK
    <3> QED
      BY <3>1
  <2> QED
    BY <1>6, <2>1, <2>2, ZenonT(30) DEF Windows!EndOfStream, TypeOK, ChildTypeOK
<1>7. CASE Windows!WaitForChild
  <2>1. result' \in Results
    BY <1>0, <1>7, ResultFields, Zenon DEF Windows!WaitForChild, TypeOK, ChildTypeOK
  <2>2. readOpen' \in [Streams -> BOOLEAN]
    BY <1>7 DEF Windows!WaitForChild, TypeOK, ChildTypeOK, Streams
  <2> QED
    BY <1>7, <2>1, <2>2, Zenon DEF Windows!WaitForChild, TypeOK, ChildTypeOK, Results
<1>8. CASE Windows!WaitTimeout
  <2>1. result' \in Results
    BY <1>0, <1>8, ResultFields, Zenon DEF Windows!WaitTimeout
  <2>2. /\ readOpen' \in [Streams -> BOOLEAN] /\ writeOpen' \in [Streams -> BOOLEAN]
        /\ exitStatus' \in ExitCodes
    BY <1>8 DEF Windows!WaitTimeout, Windows!TimedOut, ExitCodes, TypeOK, ChildTypeOK, Streams
  <2> QED
    BY <1>8, <2>1, <2>2, Zenon DEF Windows!WaitTimeout, TypeOK, ChildTypeOK, Results
<1>9. CASE Windows!WinTick
  <2>1. now' \in 0 .. MaxTime
    BY <1>9, TimeAssumption DEF Windows!WinTick, TypeOK, ChildTypeOK
  <2>2. UNCHANGED <<child, exitStatus, pipe, writeOpen, readOpen, written, pc, timeout, endTime,
                    got, result, readFailed>>
    BY <1>9 DEF Windows!WinTick
  <2>3. ChildTypeOK'
    BY <2>2, Zenon DEF TypeOK, ChildTypeOK
  <2> QED
    BY <2>1, <2>2, <2>3, ZenonT(30) DEF TypeOK
<1> QED
  BY <1>2, <1>3, <1>4, <1>5, <1>6, <1>7, <1>8, <1>9 DEF WindowsStep, Windows!WinParent

(* Every step of the Windows program keeps the invariant.                    *)
LEMMA WindowsKeeps ==
    ASSUME IInv, ~Posix, WindowsStep,
           UNCHANGED <<start, pollUntil, revents, closed, broke, platform>>
    PROVE  IInv'
<1> USE DEF SettingUp, Posix, Windows!childVars, Windows!Streams, Streams
<1>0. /\ TypeOK /\ SetUpInv /\ ProgramInv /\ Captured /\ ClosedMeansDrained /\ HangupInv
      /\ InTurnInv /\ VerdictInv /\ NoDescriptorLeak /\ ExitCodeOfChild /\ AtMostASecondEarly
      /\ TypeOK'
  BY WindowsTyping DEF IInv
<1>1. ASSUME UNCHANGED <<got, pipe, written>> PROVE Captured'
  BY <1>0, <1>1 DEF Captured, NothingLost
<1>16. /\ child \in {"none", "running", "zombie", "reaped"} /\ result \in Results
       /\ now \in Int /\ start \in Int /\ timeout \in Int /\ endTime \in Int
       /\ pipe \in [Streams -> Seq(Bytes)]
       /\ readOpen \in [Streams -> BOOLEAN] /\ writeOpen \in [Streams -> BOOLEAN]
  BY <1>0, TimeRounds, SMTT(30) DEF TypeOK, ChildTypeOK, Results
<1>2. CASE Windows!CreateOutPipe
  <2>0. \/ result' = result
        \/ /\ result'.success = result.success /\ result'.exitCode = result.exitCode
           /\ result'.message = "failed"
    BY <1>16, <1>2 DEF Windows!CreateOutPipe, Results
  <2>1. SetUpInv' /\ ProgramInv' /\ NoDescriptorLeak' /\ ExitCodeOfChild'
    BY <1>0, <1>2, <1>16, <2>0
    DEF Windows!CreateOutPipe, SetUpInv, ProgramInv, NoDescriptorLeak, ExitCodeOfChild, VerdictInv
  <2>2. ClosedMeansDrained' /\ HangupInv' /\ InTurnInv'
    BY <1>0, <1>2, <1>16
    DEF Windows!CreateOutPipe, ClosedMeansDrained, HangupInv, InTurnInv, SetUpInv, Streams
  <2>3. VerdictInv' /\ AtMostASecondEarly'
    BY <1>0, <1>2, <1>16, TimeAssumption, <2>0
    DEF Windows!CreateOutPipe, SetUpInv, VerdictInv, AtMostASecondEarly
  <2>4. Captured'
    BY <1>1, <1>2 DEF Windows!CreateOutPipe
  <2> QED
    BY <1>0, <2>1, <2>2, <2>3, <2>4 DEF IInv
<1>3. CASE Windows!CreateErrPipe
  <2>0. \/ result' = result
        \/ /\ result'.success = result.success /\ result'.exitCode = result.exitCode
           /\ result'.message = "failed"
    BY <1>16, <1>3 DEF Windows!CreateErrPipe, Results
  <2>1. SetUpInv' /\ ProgramInv' /\ NoDescriptorLeak' /\ ExitCodeOfChild'
    BY <1>0, <1>3, <1>16, <2>0
    DEF Windows!CreateErrPipe, SetUpInv, ProgramInv, NoDescriptorLeak, ExitCodeOfChild, VerdictInv
  <2>2. ClosedMeansDrained' /\ HangupInv' /\ InTurnInv'
    BY <1>0, <1>3, <1>16, SMTT(30)
    DEF Windows!CreateErrPipe, ClosedMeansDrained, HangupInv, InTurnInv, SetUpInv, Streams
  <2>3. VerdictInv' /\ AtMostASecondEarly'
    BY <1>0, <1>3, <1>16, TimeAssumption, <2>0
    DEF Windows!CreateErrPipe, SetUpInv, VerdictInv, AtMostASecondEarly
  <2>4. Captured'
    BY <1>1, <1>3 DEF Windows!CreateErrPipe
  <2> QED
    BY <1>0, <2>1, <2>2, <2>3, <2>4 DEF IInv
<1>4. CASE Windows!CreateProcess
  <2>0. /\ result'.exitCode = result.exitCode
        /\ \/ /\ result'.success = TRUE /\ result'.message = result.message
              /\ child' = "running"
           \/ /\ result'.success = result.success /\ result'.message = "failed"
              /\ child' = child
    BY <1>16, <1>4 DEF Windows!CreateProcess, Results
  <2>1. SetUpInv' /\ ProgramInv' /\ NoDescriptorLeak' /\ ExitCodeOfChild'
    BY <1>0, <1>4, <1>16, <2>0
    DEF Windows!CreateProcess, SetUpInv, ProgramInv, NoDescriptorLeak, ExitCodeOfChild, VerdictInv
  <2>2. ClosedMeansDrained' /\ HangupInv' /\ InTurnInv'
    BY <1>0, <1>4, <1>16, <2>0
    DEF Windows!CreateProcess, ClosedMeansDrained, HangupInv, InTurnInv, SetUpInv, Streams
  <2>3. VerdictInv' /\ AtMostASecondEarly'
    BY <1>0, <1>4, <1>16, TimeAssumption, <2>0
    DEF Windows!CreateProcess, SetUpInv, VerdictInv, AtMostASecondEarly
  <2>4. Captured'
    BY <1>1, <1>4 DEF Windows!CreateProcess
  <2> QED
    BY <1>0, <2>1, <2>2, <2>3, <2>4 DEF IInv
<1>5. ASSUME NEW s \in Streams, Windows!ReadFile(s)
      PROVE  IInv'
  <2>4. Captured' /\ (\A t \in Streams : pipe[t] = <<>> => pipe'[t] = <<>>)
    BY <1>0, <1>5, WindowsNames, ReadMoves DEF Windows!ReadFile
  <2>5. /\ pc \in {"readOut", "readErr"}
        /\ UNCHANGED <<child, exitStatus, writeOpen, readOpen, pc, now, timeout, endTime,
                       result, readFailed>>
    BY <1>5 DEF Windows!ReadFile
  <2>1. SetUpInv' /\ ProgramInv' /\ NoDescriptorLeak' /\ ExitCodeOfChild'
    BY <1>0, <1>16, <2>4, <2>5
    DEF SetUpInv, ProgramInv, NoDescriptorLeak, ExitCodeOfChild, VerdictInv
  <2>2. ClosedMeansDrained' /\ HangupInv' /\ InTurnInv'
    BY <1>0, <1>16, <2>4, <2>5
    DEF ClosedMeansDrained, HangupInv, InTurnInv, SetUpInv, Streams
  <2>3. VerdictInv' /\ AtMostASecondEarly'
    BY <1>0, <1>16, <2>4, <2>5, TimeAssumption
    DEF SetUpInv, VerdictInv, AtMostASecondEarly
  <2> QED
    BY <1>0, <2>1, <2>2, <2>3, <2>4 DEF IInv
<1>6. ASSUME NEW s \in Streams, Windows!EndOfStream(s)
      PROVE  IInv'
  <2>1. SetUpInv' /\ ProgramInv' /\ NoDescriptorLeak' /\ ExitCodeOfChild'
    BY <1>0, <1>6, <1>16
    DEF Windows!EndOfStream, SetUpInv, ProgramInv, NoDescriptorLeak, ExitCodeOfChild, VerdictInv
  <2>2. ClosedMeansDrained' /\ HangupInv' /\ InTurnInv'
    <3>1. /\ UNCHANGED <<revents, closed, writeOpen, pipe, platform>>
          /\ \/ s = "out" /\ pc = "readOut" /\ pc' = "readErr"
             \/ s = "err" /\ pc = "readErr" /\ pc' = "wait"
      BY <1>6 DEF Windows!EndOfStream
    <3>4. /\ (pipe[s] = <<>> /\ ~writeOpen[s]) \/ readFailed'[s]
          /\ \A t \in Streams : readFailed[t] => readFailed'[t]
      <4>1. readFailed \in [Streams -> BOOLEAN]
        BY <1>0, Zenon DEF TypeOK
      <4>2. \/ readFailed' = readFailed /\ pipe[s] = <<>> /\ ~writeOpen[s]
            \/ readFailed' = [readFailed EXCEPT ![s] = TRUE]
        BY <1>6, Zenon DEF Windows!EndOfStream
      <4> QED
        BY <4>1, <4>2
    <3>2. ClosedMeansDrained' /\ HangupInv'
      BY <1>0, <3>1, <3>4 DEF ClosedMeansDrained, HangupInv, SetUpInv
    <3>3. InTurnInv'
      BY <1>0, <3>1, <3>4 DEF InTurnInv
    <3> QED
      BY <3>2, <3>3
  <2>3. VerdictInv' /\ AtMostASecondEarly'
    BY <1>0, <1>6, <1>16, TimeAssumption
    DEF Windows!EndOfStream, SetUpInv, VerdictInv, AtMostASecondEarly
  <2>4. Captured'
    BY <1>1, <1>6 DEF Windows!EndOfStream
  <2> QED
    BY <1>0, <2>1, <2>2, <2>3, <2>4 DEF IInv
<1>7. CASE Windows!WaitForChild
  <2>0. /\ result'.success = result.success /\ result'.message = result.message
        /\ result'.exitCode = exitStatus
    BY <1>16, <1>7 DEF Windows!WaitForChild, Results
  <2>5. exitStatus # -1
    BY <1>0 DEF TypeOK, ChildTypeOK, ExitCodes, Killed, Terminated, BrokenPipe
  <2>1. SetUpInv' /\ ProgramInv' /\ NoDescriptorLeak' /\ ExitCodeOfChild'
    BY <1>0, <1>7, <1>16, <2>0
    DEF Windows!WaitForChild, SetUpInv, ProgramInv, NoDescriptorLeak, ExitCodeOfChild, VerdictInv
  <2>2. ClosedMeansDrained' /\ HangupInv' /\ InTurnInv'
    BY <1>0, <1>7, <1>16
    DEF Windows!WaitForChild, ClosedMeansDrained, HangupInv, InTurnInv, SetUpInv, Streams
  <2>3. VerdictInv' /\ AtMostASecondEarly'
    BY <1>0, <1>7, <1>16, TimeAssumption, <2>0, <2>5
    DEF Windows!WaitForChild, SetUpInv, VerdictInv, AtMostASecondEarly
  <2>4. Captured'
    BY <1>1, <1>7 DEF Windows!WaitForChild
  <2> QED
    BY <1>0, <2>1, <2>2, <2>3, <2>4 DEF IInv
<1>8. CASE Windows!WaitTimeout
  <2>0. /\ result'.success = result.success /\ result'.exitCode = -1
        /\ result'.message = "timedOut"
    BY <1>16, <1>8 DEF Windows!WaitTimeout, Results
  <2>1. SetUpInv' /\ ProgramInv' /\ NoDescriptorLeak' /\ ExitCodeOfChild'
    BY <1>0, <1>8, <1>16, <2>0
    DEF Windows!WaitTimeout, Windows!TimedOut, SetUpInv, ProgramInv, NoDescriptorLeak, ExitCodeOfChild, VerdictInv
  <2>2. ClosedMeansDrained' /\ HangupInv' /\ InTurnInv'
    BY <1>0, <1>8, <1>16
    DEF Windows!WaitTimeout, Windows!TimedOut, ClosedMeansDrained, HangupInv, InTurnInv, SetUpInv, Streams
  <2>3. VerdictInv' /\ AtMostASecondEarly'
    BY <1>0, <1>8, <1>16, TimeAssumption, <2>0
    DEF Windows!WaitTimeout, Windows!TimedOut, SetUpInv, VerdictInv, AtMostASecondEarly
  <2>4. Captured'
    BY <1>1, <1>8 DEF Windows!WaitTimeout, Windows!TimedOut
  <2> QED
    BY <1>0, <2>1, <2>2, <2>3, <2>4 DEF IInv
<1>9. CASE Windows!WinTick
  <2>1. SetUpInv' /\ ProgramInv' /\ NoDescriptorLeak' /\ ExitCodeOfChild'
    BY <1>0, <1>9, <1>16
    DEF Windows!WinTick, SetUpInv, ProgramInv, NoDescriptorLeak, ExitCodeOfChild, VerdictInv
  <2>2. ClosedMeansDrained' /\ HangupInv' /\ InTurnInv'
    BY <1>0, <1>9, <1>16
    DEF Windows!WinTick, ClosedMeansDrained, HangupInv, InTurnInv, SetUpInv, Streams
  <2>3. VerdictInv' /\ AtMostASecondEarly'
    BY <1>0, <1>9, <1>16, TimeAssumption
    DEF Windows!WinTick, SetUpInv, VerdictInv, AtMostASecondEarly
  <2>4. Captured'
    BY <1>1, <1>9 DEF Windows!WinTick
  <2> QED
    BY <1>0, <2>1, <2>2, <2>3, <2>4 DEF IInv
<1> QED
  BY <1>2, <1>3, <1>4, <1>5, <1>6, <1>7, <1>8, <1>9 DEF WindowsStep, Windows!WinParent

-----------------------------------------------------------------------------
(* Whatever the child does, the facts above hold throughout the call.        *)
THEOREM Invariance == ExecuteSpec => []IInv
<1>1. ASSUME IInv, [ExecuteCommand]_allVars
      PROVE  IInv'
  <2>1. CASE UNCHANGED allVars
    <3>1. Captured'
      BY <1>1, <2>1 DEF IInv, Captured, NothingLost, allVars, vars
    <3>4. TypeOK'
      <4>1. ChildTypeOK'
        BY <1>1, <2>1, Zenon DEF IInv, allVars, vars, TypeOK, ChildTypeOK
      <4> QED
        BY <1>1, <2>1, <4>1, ZenonT(30) DEF IInv, allVars, vars, TypeOK
    <3>2. SetUpInv' /\ ProgramInv' /\ NoDescriptorLeak' /\ ExitCodeOfChild'
      BY <1>1, <2>1
      DEF IInv, allVars, vars, SetUpInv, ProgramInv, NoDescriptorLeak, ExitCodeOfChild,
          SettingUp, Posix
    <3>3. /\ ClosedMeansDrained' /\ HangupInv' /\ InTurnInv' /\ VerdictInv'
          /\ AtMostASecondEarly'
      BY <1>1, <2>1, ZenonT(30)
      DEF IInv, allVars, vars, ClosedMeansDrained, HangupInv, InTurnInv, VerdictInv,
          AtMostASecondEarly, SettingUp, Posix
    <3> QED
      BY <3>1, <3>2, <3>3, <3>4 DEF IInv
  <2>2. ASSUME Posix, Next, UNCHANGED platform
        PROVE  IInv'
    BY <1>1, <2>2, PosixStep, ChildStep DEF Next
  <2>3. ASSUME ~Posix, Windows!WinNext,
               UNCHANGED <<start, pollUntil, revents, closed, broke, platform>>
        PROVE  IInv'
    BY <1>1, <2>3, WindowsKeeps, ChildStep, WindowsNames
    DEF Windows!WinNext, WindowsStep, Windows!winVars, parentVars, callVars
  <2> QED
    BY <1>1, <2>1, <2>2, <2>3 DEF ExecuteCommand, Posix
<1> QED
  BY <1>1, IInvInit, PTL DEF ExecuteSpec

(* For output without a Nul, what was captured and what is still in the pipe *)
(* are what the child wrote, in its order, and a stream is given up only at  *)
(* its end or because reading it failed.                                     *)
THEOREM OutputCaptured ==
    ASSUME Nul \notin Bytes
    PROVE  ExecuteSpec => []OutputInv
<1>1. IInv => OutputInv
  BY DEF IInv, OutputInv, Captured
<1> QED
  BY <1>1, Invariance, PTL

(* On every path the descriptors are closed, the exit code is the child's    *)
(* and no call is timed out early, whatever bytes are written; without a Nul *)
(* the Windows program has all the output of a stream before it waits, but   *)
(* for a stream that it left early.                                          *)
THEOREM ResultCorrect ==
    /\ ExecuteSpec => [](NoDescriptorLeak /\ ExitCodeOfChild /\ AtMostASecondEarly)
    /\ Nul \notin Bytes => (ExecuteSpec => []ResultInv)
<1>1. IInv => NoDescriptorLeak /\ ExitCodeOfChild /\ AtMostASecondEarly
  BY DEF IInv
<1>2. ASSUME Nul \notin Bytes
      PROVE  IInv => ResultInv
  <2> SUFFICES ASSUME IInv, platform = "windows", pc \in {"wait", "returned"}, result.success,
                      NEW s \in Streams, ~readFailed[s]
               PROVE  got[s] = written[s]
    BY <1>1 DEF ResultInv, AllOutputBeforeWait
  <2>1. pipe[s] = <<>> /\ got[s] \o pipe[s] = written[s]
    BY <1>2 DEF IInv, InTurnInv, Posix, Captured, NothingLost, Streams
  <2>2. got[s] \in Seq(Bytes)
    BY DEF IInv, TypeOK
  <2> QED
    BY <2>1, <2>2, ConcatEmptySeq
<1>3. ExecuteSpec => [](NoDescriptorLeak /\ ExitCodeOfChild /\ AtMostASecondEarly)
  BY <1>1, Invariance, PTL
<1>4. ASSUME Nul \notin Bytes
      PROVE  ExecuteSpec => []ResultInv
  <2>1. IInv => ResultInv
    BY <1>2, <1>4
  <2> QED
    BY <2>1, Invariance, PTL
<1> QED
  BY <1>3, <1>4
=============================================================================
