----------------------------- MODULE FileReader ------------------------------
(***************************************************************************)
(* include/skutils/file.h: ReadLine() and ReadAll() on one stream, in any  *)
(* order, while another program may change the file.  A character is "c"   *)
(* or a line feed, "n".  The state bits of the stream are those of         *)
(* std::ifstream, whose operations are modelled by what the reader uses.   *)
(***************************************************************************)
EXTENDS Integers, Sequences
LOCAL INSTANCE SequencesExt

CONSTANTS
    MaxContent,    \* bound on the length of the file
    MaxReads,      \* bound on the calls
    MaxRewrites    \* bound on the changes by others

ASSUME ReaderAssumption == {MaxContent, MaxReads, MaxRewrites} \subseteq Nat

VARIABLES
    content,   \* the file
    rewrites,  \* how often it was changed
    valid,     \* valid_
    eof, fail, \* state bits of in_
    position,       \* position of in_
    held,      \* what in_ has in its buffer from there on
    readerAt,  \* "idle", "sized" between the seek to the end and the read, or "threw"
    sized,     \* size
    reads,     \* how many calls were begun
    gaveLines, \* history: lines that ReadLine() returned since ReadAll(), with their line feeds
    gaveAll    \* history: what the last ReadAll() returned, and the file at its seek

readerVars == <<content, rewrites, valid, eof, fail, position, held, readerAt, sized, reads,
                gaveLines, gaveAll>>

Contents == UNION {[1 .. n -> {"c", "n"}] : n \in 0 .. MaxContent}
Rest(s, n) == SubSeq(s, n + 1, Len(s))

\* The constructor; what is missing or cannot be opened is not valid.
ReaderInit ==
    /\ content \in Contents
    /\ valid \in BOOLEAN
    /\ rewrites = 0
    /\ eof = FALSE /\ fail = FALSE
    /\ position = 0 /\ held = <<>>
    /\ readerAt = "idle" /\ sized = 0
    /\ reads = 0
    /\ gaveLines = <<>> /\ gaveAll = [text |-> <<>>, file |-> <<>>, ok |-> FALSE]

BeginRead == readerAt = "idle" /\ reads < MaxReads /\ reads' = reads + 1

\* Every call on a reader that is not valid returns "".
ReadInvalid ==
    /\ BeginRead
    /\ ~valid
    /\ UNCHANGED <<content, rewrites, valid, eof, fail, position, held, readerAt, sized,
                   gaveLines, gaveAll>>

\* Two mistakes that the property below must tell from the code: eof is taken for a failure,
\* and the line feed is left in the stream.
Bug_LineFails(line, found) == ~found
Bug_Consumed(line, found) == Len(line)

\* getline() fails if it took no character at all; a line feed is taken but not returned.
LineFails(line, found) == line = <<>> /\ ~found
Consumed(line, found) == Len(line) + IF found THEN 1 ELSE 0

\* ReadLine(): getline() on a stream that is good, or that fails at once
ReadLine ==
    /\ BeginRead
    /\ valid
    /\ IF eof \/ fail
       THEN fail' = TRUE /\ UNCHANGED <<eof, position, held, gaveLines>>
       ELSE LET avail == IF Contains(held, "n") THEN held
                         ELSE held \o Rest(content, position + Len(held))
                found == Contains(avail, "n")
                line == IF found
                        THEN SubSeq(avail, 1, (CHOOSE i \in DOMAIN avail :
                               avail[i] = "n" /\ \A j \in 1 .. i - 1 : avail[j] # "n") - 1)
                        ELSE avail
            IN /\ eof' = ~found
               /\ fail' = LineFails(line, found)
               /\ position' = position + Consumed(line, found)
               /\ held' = Rest(avail, Consumed(line, found))
               /\ gaveLines' = gaveLines \o line \o (IF found THEN <<"n">> ELSE <<>>)
    /\ UNCHANGED <<content, rewrites, valid, readerAt, sized, gaveAll>>

\* ReadAll(): seekg() clears eof, but not fail, with which tellg() is -1 and resize() throws.
SeekEnd ==
    /\ BeginRead
    /\ valid
    /\ eof' = FALSE
    /\ IF fail THEN readerAt' = "threw" /\ UNCHANGED <<sized, position, held, gaveAll>>
       ELSE /\ readerAt' = "sized"
            /\ sized' = Len(content)
            /\ position' = 0
            /\ held' = <<>>
            /\ gaveAll' = [text |-> <<>>, file |-> content, ok |-> FALSE]
    /\ gaveLines' = <<>>
    /\ UNCHANGED <<content, rewrites, valid, fail>>

\* read() of that many; a file that has become shorter makes it fail, and "" is returned.
ReadAll ==
    /\ readerAt = "sized"
    /\ IF Len(content) < sized
       THEN /\ eof' = TRUE /\ fail' = TRUE
            /\ position' = Len(content)
            /\ UNCHANGED gaveAll
       ELSE /\ gaveAll' = [gaveAll EXCEPT !.text = SubSeq(content, 1, sized), !.ok = TRUE]
            /\ position' = sized
            /\ UNCHANGED <<eof, fail>>
    /\ readerAt' = "idle"
    /\ UNCHANGED <<content, rewrites, valid, held, sized, reads, gaveLines>>

\* Another program writes the file.
Rewrite ==
    /\ readerAt # "threw"
    /\ rewrites < MaxRewrites
    /\ rewrites' = rewrites + 1
    /\ content' \in Contents \ {content}
    /\ UNCHANGED <<valid, eof, fail, position, held, readerAt, sized, reads, gaveLines, gaveAll>>

ReaderNext == ReadInvalid \/ ReadLine \/ SeekEnd \/ ReadAll \/ Rewrite

-----------------------------------------------------------------------------
(* Properties *)

ReaderTypeOK ==
    /\ content \in Contents
    /\ readerAt \in {"idle", "sized", "threw"}
    /\ held \in Seq({"c", "n"}) /\ position \in Nat

\* The lines that were read are, with their line feeds, the beginning of a file that nobody
\* changed, up to where the stream is, and all of it once the stream has failed.
LinesAreTheFile ==
    rewrites = 0 /\ readerAt = "idle" /\ ~gaveAll.ok =>
      /\ gaveLines = SubSeq(content, 1, position)
      /\ fail => position = Len(content)

\* What ReadAll() returns has the size of the file when it was measured, and is that file if
\* nobody changed it; wherever in the file the lines had got to.
AllIsTheFile ==
    gaveAll.ok =>
      /\ Len(gaveAll.text) = Len(gaveAll.file)
      /\ rewrites = 0 => gaveAll.text = content

\* How many lines the file has, the last one with or without its line feed
LineCount ==
    Len(SelectSeq(content, LAMBDA c : c = "n")) + IF IsSuffix(<<"c">>, content) THEN 1 ELSE 0

\* A file that nobody changes makes a stream fail by a line read behind its end only, which
\* takes as many calls as it has lines and one more; ReadAll() throws from then on.
ThrowsPastTheEnd ==
    rewrites = 0 =>
      /\ readerAt = "threw" => fail
      /\ fail => position = Len(content)
      /\ fail /\ ~gaveAll.ok => reads > LineCount

\* Lines and the whole file are what is in it, as long as no line is read behind its end.
ReaderCorrect == ReaderTypeOK /\ LinesAreTheFile /\ AllIsTheFile /\ ThrowsPastTheEnd
=============================================================================
