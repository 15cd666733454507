----------------------------- MODULE Formatter ------------------------------
(***************************************************************************)
(* include/skutils/printer.h: format(), colorful_format() without colours, *)
(* and toString() of sequences, maps, stacks and queues.  A text is a      *)
(* sequence of letters, and so is what toString() makes of an element.     *)
(* Each argument, and each element, is one step.                           *)
(***************************************************************************)
EXTENDS Integers, Sequences, FiniteSets
LOCAL INSTANCE SequencesExt

CONSTANTS
    FormatLetters,  \* strings of one character, with "{" and "}"
    MaxFormat,      \* bound on the length of a format
    Strings,        \* what the arguments and elements are printed as, sequences of letters
    MaxItems        \* bound on their number

ASSUME FormatAssumption == {"{", "}"} \subseteq FormatLetters /\ MaxFormat \in Nat /\ MaxItems \in Nat

VARIABLES
    maker,    \* "format", "container", "stack" or "queue"
    template, \* fmt
    items,    \* the arguments or the elements, a stack with its top first
    done,     \* how many of them are in the text
    made,     \* fmtStr, or what is in the stream
    finished  \* whether it was returned

formatVars == <<maker, template, items, done, made, finished>>

\* where find("{}") may find something
Holes(t) == {k \in 1 .. Len(t) - 1 : t[k] = "{" /\ t[k + 1] = "}"}

Opening == CASE maker = "stack" -> <<"Stack[">> [] maker = "queue" -> <<"Queue[">> [] OTHER -> <<"[">>
\* ELEM_SEP, or stack_sep and queue_sep
Separator == IF maker = "container" THEN <<",">> ELSE <<"<", "-">>

FormatInit ==
    /\ maker \in {"format", "container", "stack", "queue"}
    /\ template \in IF maker = "format" THEN UNION {[1 .. n -> FormatLetters] : n \in 0 .. MaxFormat}
                                        ELSE {<<>>}
    /\ items \in UNION {[1 .. n -> Strings] : n \in 0 .. MaxItems}
    /\ done = 0
    /\ made = IF maker = "format" THEN template ELSE IF items = <<>> THEN <<"[", "]">> ELSE Opening
    /\ finished = FALSE

\* A mistake that the property below must tell from the code: the last hole is filled.
Bug_ReplaceNext ==
    /\ maker = "format"
    /\ done < Len(items)
    /\ done' = done + 1
    /\ \/ Holes(made) = {} /\ UNCHANGED made
       \/ \E k \in Holes(made) :
            /\ \A j \in Holes(made) : j <= k
            /\ made' = SubSeq(made, 1, k - 1) \o items[done + 1] \o SubSeq(made, k + 2, Len(made))
    /\ UNCHANGED <<maker, template, items, finished>>

\* replace_next(): the first hole of what is there by now; without one nothing happens.
ReplaceNext ==
    /\ maker = "format"
    /\ done < Len(items)
    /\ done' = done + 1
    /\ \/ Holes(made) = {} /\ UNCHANGED made
       \/ \E k \in Holes(made) :
            /\ \A j \in Holes(made) : k <= j
            /\ made' = SubSeq(made, 1, k - 1) \o items[done + 1] \o SubSeq(made, k + 2, Len(made))
    /\ UNCHANGED <<maker, template, items, finished>>

\* An element and a separator
PutElement ==
    /\ maker # "format"
    /\ done < Len(items)
    /\ made' = made \o items[done + 1] \o Separator
    /\ done' = done + 1
    /\ UNCHANGED <<maker, template, items, finished>>

\* The last separator is dropped, as many characters as it has.
FinishText ==
    /\ ~finished
    /\ done = Len(items)
    /\ made' = IF maker = "format" \/ items = <<>> THEN made
               ELSE SubSeq(made, 1, Len(made) - Len(Separator)) \o <<"]">>
    /\ finished' = TRUE
    /\ UNCHANGED <<maker, template, items, done>>

FormatNext == ReplaceNext \/ PutElement \/ FinishText

-----------------------------------------------------------------------------
(* Properties *)

FormatTypeOK == done \in 0 .. Len(items) /\ finished \in BOOLEAN

\* What stands where in a template: the hole that begins at k is the how-manieth
Rank(k) == Cardinality({j \in Holes(template) : j <= k})
Filled ==
    FlattenSeq([k \in DOMAIN template |->
      IF k \in Holes(template)
        THEN IF Rank(k) <= Len(items) THEN items[Rank(k)] ELSE <<"{">>
      ELSE IF k - 1 \in Holes(template) /\ Rank(k - 1) <= Len(items) THEN <<>>
      ELSE <<template[k]>>])

\* Whether braces stand in holes only, and in no argument
NoOtherBraces ==
    /\ \A k \in DOMAIN template : template[k] \in {"{", "}"} => {k, k - 1} \cap Holes(template) # {}
    /\ \A i \in DOMAIN items : {items[i][k] : k \in DOMAIN items[i]} \cap {"{", "}"} = {}

\* The arguments go to the holes in order; those that are too many are dropped, and holes
\* that are too many stay.  With other braces this is not so: an argument that is printed
\* with a hole, or that closes one, takes the next argument.
FillsInOrder == maker = "format" /\ finished /\ NoOtherBraces => made = Filled

\* Elements are joined by separators, between brackets.
JoinsElements ==
    maker # "format" /\ finished /\ items # <<>> =>
      made = Opening \o FlattenSeq([i \in DOMAIN items |->
                          IF i < Len(items) THEN items[i] \o Separator ELSE items[i]]) \o <<"]">>

\* Texts are put together from what they are given, in order.
FormatterCorrect == FormatTypeOK /\ FillsInOrder /\ JoinsElements
=============================================================================
