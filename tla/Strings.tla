------------------------------ MODULE Strings -------------------------------
(***************************************************************************)
(* include/skutils/string_utils.h: split(), its users, strip(), count()    *)
(* and expandUser().  A text is a sequence of letters.  A call is chosen   *)
(* by Init; the loop of _split() and that of count() are one step an       *)
(* iteration.                                                              *)
(* Positions count from 1, where the code counts from 0.                   *)
(***************************************************************************)
EXTENDS Integers, Sequences, FiniteSets
LOCAL INSTANCE SequencesExt

CONSTANTS
    Letters,  \* strings of one character, among them " ", ".", "/" and "\\"
    MaxText,  \* bound on the length of a text
    Delims    \* what may be split at or counted, sequences of letters

\* An empty delimiter makes split() and count() loop for ever.
ASSUME StringsAssumption == Delims \subseteq Seq(Letters) \ {<<>>} /\ MaxText \in Nat

VARIABLES
    call,     \* the function that was called
    status,   \* "running", "over", "threw", or "undefined" behaviour
    text,     \* its argument
    delims,   \* the delimiters of split(), what count() looks for, or the home directory
    idx,      \* locals of _split(): where it is,
    starter,  \*   where the piece began,
    pieces,   \*   and ret
    eaten,    \* history: where each delimiter was found
    returned  \* what the call returned

strVars == <<call, status, text, delims, idx, starter, pieces, eaten, returned>>

\* Letters of the paths of which expandUser() is asked
UserLetters == {"~", "/", "a"}

\* The home directory, in a set that is empty if there is none in the environment
Home == {<<"/", "home">>}

Separators == {<<"/">>, <<"\\">>}
Splitters == {"split", "basename", "basenameWithoutExt"}

From(i) == SubSeq(text, i, Len(text))
Places(d) == {i \in 1 .. Len(text) : IsPrefix(d, From(i))}

\* find_last_of(): 0 is npos
LastOf(t, c) == LET at == {i \in 1 .. Len(t) : t[i] = c}
                IN IF at = {} THEN 0 ELSE CHOOSE i \in at : \A j \in at : j <= i

StrInit ==
    /\ \/ call = "split" /\ delims \in SUBSET Delims \ {{}}
       \/ call \in {"basename", "basenameWithoutExt"} /\ delims = Separators
       \/ call = "count" /\ delims \in {{d} : d \in Delims}
       \/ call \in {"strip", "dirname"} /\ delims = {}
       \/ call = "expandUser" /\ delims \in {{}, Home}
    /\ \E n \in 0 .. MaxText :
          text \in [1 .. n -> IF call = "expandUser" THEN UserLetters ELSE Letters]
    /\ status = "running"
    /\ idx = 1
    /\ starter = 1
    /\ pieces = <<>>
    /\ eaten = {}
    /\ returned = <<>>

\* A mistake that the property below must tell from the code: the shorter of two
\* delimiters that both begin the rest.
Bug_Matching(i) ==
    LET found == {d \in delims : IsPrefix(d, From(i))}
    IN {d \in found : \A e \in found : IsPrefix(d, e)}

\* The delimiter with which the rest of the text begins, if there is one.  They are tried
\* in descending order, in which one comes before those that it begins with.
Matching(i) ==
    LET found == {d \in delims : IsPrefix(d, From(i))}
    IN {d \in found : \A e \in found : IsPrefix(e, d)}

\* An iteration of _split()
SplitStep ==
    /\ call \in Splitters
    /\ status = "running"
    /\ idx <= Len(text)
    /\ \/ /\ Matching(idx) = {}
          /\ idx' = idx + 1
          /\ UNCHANGED <<starter, pieces, eaten>>
       \/ \E d \in Matching(idx) :
             /\ pieces' = IF idx > starter THEN Append(pieces, SubSeq(text, starter, idx - 1))
                                           ELSE pieces
             /\ idx' = idx + Len(d)
             /\ starter' = idx'
             /\ eaten' = eaten \cup {<<idx, d>>}
    /\ UNCHANGED <<call, status, text, delims, returned>>

\* The rest is a piece.  basename() takes the last of them, also when there is none;
\* basenameWithoutExt() cuts it at its last dot.
SplitEnd ==
    /\ call \in Splitters
    /\ status = "running"
    /\ idx > Len(text)
    /\ pieces' = IF starter <= Len(text) THEN Append(pieces, From(starter)) ELSE pieces
    /\ status' = IF call # "split" /\ pieces' = <<>> THEN "undefined" ELSE "over"
    /\ LET base == Last(pieces')
           dot == LastOf(base, ".")
       IN returned' = CASE status' = "undefined" -> <<>>
                      [] call = "split" -> pieces'
                      [] call = "basename" \/ dot = 0 -> base
                      [] OTHER -> SubSeq(base, 1, dot - 1)
    /\ UNCHANGED <<call, text, delims, idx, starter, eaten>>

\* substr() throws on a text of blanks, where find_first_not_of() is npos.
Strip ==
    LET ink == {i \in 1 .. Len(text) : text[i] # " "}
    IN /\ call = "strip"
       /\ status = "running"
       /\ \/ ink = {} /\ status' = "threw" /\ UNCHANGED returned
          \/ /\ ink # {}
             /\ status' = "over"
             /\ \E l, r \in ink : /\ \A i \in ink : l <= i /\ i <= r
                                 /\ returned' = SubSeq(text, l, r)
       /\ UNCHANGED <<call, text, delims, idx, starter, pieces, eaten>>

\* An iteration of count(): find() from pos, and on behind what it found.
CountNext ==
    /\ call = "count"
    /\ status = "running"
    /\ \E sub \in delims :
          LET found == {i \in Places(sub) : i >= idx}
          IN \/ /\ found = {}
                /\ status' = "over"
                /\ returned' = <<Cardinality(eaten)>>
                /\ UNCHANGED <<idx, eaten>>
             \/ \E i \in found :
                   /\ \A j \in found : i <= j
                   /\ idx' = i + Len(sub)
                   /\ eaten' = eaten \cup {<<i, sub>>}
                   /\ UNCHANGED <<status, returned>>
    /\ UNCHANGED <<call, text, delims, starter, pieces>>

\* up to the last slash, or else the last backslash; without one, all of the text
DirnameOf(t) ==
    LET at == IF LastOf(t, "/") # 0 THEN LastOf(t, "/") ELSE LastOf(t, "\\")
    IN IF at = 0 THEN t ELSE SubSeq(t, 1, at - 1)

Dirname ==
    /\ call = "dirname"
    /\ status = "running"
    /\ returned' = DirnameOf(text)
    /\ status' = "over"
    /\ UNCHANGED <<call, text, delims, idx, starter, pieces, eaten>>

\* A mistake that the property below must tell from the code: the tilde is kept.
Bug_Replaced(home) ==
    FlattenSeq([i \in DOMAIN text |-> (IF text[i] = "~" THEN home ELSE <<>>) \o <<text[i]>>])

\* replace() is regex_replace(): it replaces every tilde, not only the first.
Replaced(home) ==
    FlattenSeq([i \in DOMAIN text |-> IF text[i] = "~" THEN home ELSE <<text[i]>>])

\* A std::string is made of a null pointer if there is no home.
ExpandUser ==
    /\ call = "expandUser"
    /\ status = "running"
    /\ \/ /\ ~IsPrefix(<<"~">>, text)
          /\ returned' = text
          /\ status' = "over"
       \/ /\ IsPrefix(<<"~">>, text)
          /\ delims = {}
          /\ status' = "undefined"
          /\ UNCHANGED returned
       \/ /\ IsPrefix(<<"~">>, text)
          /\ \E home \in delims : returned' = Replaced(home)
          /\ status' = "over"
    /\ UNCHANGED <<call, text, delims, idx, starter, pieces, eaten>>

StrNext == SplitStep \/ SplitEnd \/ Strip \/ CountNext \/ Dirname \/ ExpandUser

-----------------------------------------------------------------------------
(* Properties *)

StrTypeOK ==
    /\ status \in {"running", "over", "threw", "undefined"}
    /\ starter \in 1 .. idx
    /\ \A e \in eaten : e[1] \in Places(e[2]) /\ e[1] + Len(e[2]) <= idx

\* Of two delimiters that both match, the longer is eaten; a piece is not empty and holds
\* no delimiter; and what was eaten and the pieces are together the text.
SplitLosesNothing ==
    call \in Splitters =>
      /\ \A e \in eaten, d \in delims : e[1] \in Places(d) => Len(d) <= Len(e[2])
      /\ \A k \in 1 .. Len(pieces) :
            /\ pieces[k] # <<>>
            /\ \A d \in delims, i \in 1 .. Len(pieces[k]) :
                  ~IsPrefix(d, SubSeq(pieces[k], i, Len(pieces[k])))
      /\ status # "running" =>
           Len(text) = Len(FlattenSeq(pieces)) + FoldSet(LAMBDA e, n : Len(e[2]) + n, 0, eaten)

\* count() finds as many places as can be had without an overlap.
CountsMost ==
    call = "count" /\ status = "over" =>
      \A d \in delims : \A S \in SUBSET Places(d) :
        (\A i, j \in S : i < j => i + Len(d) <= j) => Cardinality(S) <= returned[1]

\* With slashes only, and none at the end, a path is its dirname(), a slash and its basename().
PathSplits ==
    /\ call = "basename" /\ status = "over"
    /\ LastOf(text, "/") \in 1 .. Len(text) - 1 /\ LastOf(text, "\\") = 0
    => text = DirnameOf(text) \o <<"/">> \o returned

\* A path has its first tilde replaced by the home directory, whose tail it keeps unless it
\* holds another; and a tilde in the middle of any other path is its own.
ExpandsHome ==
    call = "expandUser" /\ status = "over" =>
      \/ text = returned /\ ~IsPrefix(<<"~">>, text)
      \/ \E home \in delims :
            /\ IsPrefix(home, returned)
            /\ Contains(From(2), "~") \/ returned = home \o From(2)

\* The string functions answer as their users rely on: nothing but delimiters is lost,
\* nothing is counted twice, and a path comes apart at its last slash.
StringsCorrect == StrTypeOK /\ SplitLosesNothing /\ CountsMost /\ PathSplits /\ ExpandsHome
=============================================================================
