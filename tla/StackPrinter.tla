---------------------------- MODULE StackPrinter ----------------------------
(***************************************************************************)
(* include/skutils/stack_printer.h: getStackWithBacktrace().  Frames are   *)
(* parsed from what backtrace_symbols() prints of them, one a step.  A     *)
(* text is a sequence of tokens, of which "(", "+", ")", "[", "]", "/" and *)
(* "dbg::" are searched for.                                               *)
(***************************************************************************)
EXTENDS Integers, Sequences
LOCAL INSTANCE SequencesExt

CONSTANTS
    Executables,  \* paths of programs and libraries, sequences of tokens
    Symbols,      \* names of functions, sequences of tokens
    MaxFrames     \* bound on the depth of the stack

ASSUME StackAssumption == MaxFrames \in Nat

VARIABLES
    stack,   \* the frames, the innermost first: [exe, name], where a name may be
             \*   empty, or NoSymbol where even the parentheses are
    parsed,  \* i, how many were parsed
    lines    \* what was printed of each: its number, and what was made of it

stackVars == <<stack, parsed, lines>>

NoSymbol == <<"?">>
Offset == <<"0x1">>
Address == <<"0x2">>

StackInit ==
    /\ stack \in UNION {[1 .. n -> [exe : Executables, name : Symbols \cup {NoSymbol}]] : n \in 0 .. MaxFrames}
    /\ parsed = 0
    /\ lines = <<>>

\* backtrace_symbols(): exe(name+0x1) [0x2]
Symbol(f) ==
    f.exe \o <<"(">> \o (IF f.name = NoSymbol THEN <<>> ELSE f.name \o <<"+">> \o Offset)
      \o <<")", " ", "[">> \o Address \o <<"]">>

\* find() and rfind(), 0 for npos
Find(s, c) == IF Contains(s, c) THEN CHOOSE i \in DOMAIN s : s[i] = c /\ \A j \in 1 .. i - 1 : s[j] # c ELSE 0
RFind(s, c) == IF Contains(s, c) THEN Len(s) + 1 - Find(Reverse(s), c) ELSE 0

\* substr(from + 1, to - from - 1): a length that would be negative is huge.
Between(s, from, to) == SubSeq(s, from + 1, IF to <= from THEN Len(s) ELSE to - 1)

\* fileBaseName()
FileBaseName(s) == SubSeq(s, RFind(s, "/") + 1, Len(s))

\* A frame of the printer: what is no symbol is not demangled, and looks like none.
OfThisFile(name) == name \in Symbols /\ Contains(name, "dbg::")

Invalid == [as |-> "invalid"]

\* A mistake that the property below must tell from the code: the offset begins at "(".
Bug_ParseSymbolEntry(s) ==
    IF 0 \in {Find(s, "("), Find(s, "+"), Find(s, ")")} THEN Invalid
    ELSE [as |-> IF OfThisFile(Between(s, Find(s, "("), Find(s, "+"))) THEN "own" ELSE "frame",
          exe |-> FileBaseName(SubSeq(s, 1, Find(s, "(") - 1)),
          name |-> Between(s, Find(s, "("), Find(s, "+")),
          offset |-> Between(s, Find(s, "("), Find(s, ")")),
          address |-> Between(s, RFind(s, "["), RFind(s, "]"))]

\* parseSymbolEntryOfBacktrace()
ParseSymbolEntry(s) ==
    LET pos1 == Find(s, "(")
        pos2 == Find(s, "+")
        pos3 == Find(s, ")")
        name == Between(s, pos1, pos2)
    IN IF 0 \in {pos1, pos2, pos3} THEN Invalid
       ELSE [as |-> IF OfThisFile(name) THEN "own" ELSE "frame",
             exe |-> FileBaseName(SubSeq(s, 1, pos1 - 1)),
             name |-> name,
             offset |-> Between(s, pos2, pos3),
             address |-> Between(s, RFind(s, "["), RFind(s, "]"))]

\* A frame of the printer itself is left out and not counted.
ParseFrame ==
    /\ parsed < Len(stack)
    /\ LET entry == ParseSymbolEntry(Symbol(stack[parsed + 1]))
       IN lines' = IF entry.as = "own" THEN lines ELSE Append(lines, <<Len(lines), entry>>)
    /\ parsed' = parsed + 1
    /\ UNCHANGED stack

-----------------------------------------------------------------------------
(* Properties *)

StackTypeOK == parsed \in 0 .. Len(stack) /\ Len(lines) <= parsed

\* Whether the path of the executable has none of these characters
Without(f, chars) == \A c \in chars : ~Contains(f.exe, c)

\* What should be printed: the frames that are not the printer's own
Foreign == SelectSeq(SubSeq(stack, 1, parsed),
                     LAMBDA f : ~(OfThisFile(f.name) /\ Without(f, {"(", "+"})))

\* No frame of the program is lost, they are numbered in order, and each is printed as what
\* it is unless its executable is called as libstdc++.so.6 is: with a "+" or a parenthesis
\* in front of the symbol the positions are in another order, a length wraps around, and
\* the printer does not know its own frames.
PrintsFrames ==
    /\ Len(lines) = Len(Foreign)
    /\ \A k \in DOMAIN lines :
         LET f == Foreign[k] IN
         /\ lines[k][1] = k - 1
         /\ f.name = NoSymbol /\ Without(f, {"(", "+", ")"}) => lines[k][2] = Invalid
         /\ f.name # NoSymbol /\ Without(f, {"(", "+", ")"}) =>
              lines[k][2] = [as |-> "frame", exe |-> FileBaseName(f.exe), name |-> f.name,
                             offset |-> Offset, address |-> Address]

\* A stack is printed frame by frame, whole and in order.
StackCorrect == StackTypeOK /\ PrintsFrames
=============================================================================
