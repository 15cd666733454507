----------------------------- MODULE ArgParser ------------------------------
(***************************************************************************)
(* include/skutils/argparser.h: parse().  A token is an option, of one of  *)
(* the types below, a number, another word, or blank.  An argument is the  *)
(* tokens that "=" separates in it.  parse() walks along the tokens; an    *)
(* iteration of its loop is a step.                                        *)
(***************************************************************************)
EXTENDS Integers, Sequences, FiniteSets
Seqs == INSTANCE SequencesExt

CONSTANTS
    ArgvItems,  \* what argv may hold, sequences of tokens
    MaxArgs     \* bound on argc - 1

ASSUME ArgAssumption == ArgvItems \subseteq Seq(STRING) /\ MaxArgs \in Nat

VARIABLES
    argv,      \* the arguments
    args,      \* locals of parse(): their tokens,
    next,      \*   and idx
    front,     \* front_default_args
    back,      \* back_default_args
    optValue,  \* value of each option, the tokens of which it is made
    has,       \* has_value of each option
    parse      \* "begin", "front", "middle", "over" or "threw"

argVars == <<argv, args, next, front, back, optValue, has, parse>>

\* One option of each type; ArgType::FLOAT is parsed as INT is.
Options == {"bool", "int", "str", "list"}
Number == "7"
Blank == " "

ArgInit ==
    /\ argv \in UNION {[1 .. n -> ArgvItems] : n \in 0 .. MaxArgs}
    /\ args = <<>>
    /\ next = 1
    /\ front = <<>>
    /\ back = <<>>
    /\ optValue = [o \in Options |-> <<>>]
    /\ has = [o \in Options |-> FALSE]
    /\ parse = "begin"

\* The arguments are taken apart; strip() throws for a blank token.
Flatten ==
    /\ parse = "begin"
    /\ args' = Seqs!FlattenSeq(argv)
    /\ parse' = IF \E k \in DOMAIN args' : args'[k] = Blank THEN "threw" ELSE "front"
    /\ UNCHANGED <<argv, next, front, back, optValue, has>>

\* What comes before the first option
TakeFront ==
    /\ parse = "front"
    /\ \/ /\ next <= Len(args) /\ args[next] \notin Options
          /\ front' = Append(front, args[next])
          /\ next' = next + 1
          /\ UNCHANGED parse
       \/ /\ next <= Len(args) => args[next] \in Options
          /\ parse' = "middle"
          /\ UNCHANGED <<front, next>>
    /\ UNCHANGED <<argv, args, back, optValue, has>>

\* A token that belongs to no option: it and all that follow are collected.
Unexpected ==
    /\ parse = "middle"
    /\ next <= Len(args) /\ args[next] \notin Options
    /\ back' = SubSeq(args, next, Len(args))
    /\ next' = Len(args) + 1
    /\ UNCHANGED <<argv, args, front, optValue, has, parse>>

IsBool ==
    /\ parse = "middle"
    /\ next <= Len(args) /\ args[next] = "bool"
    /\ has' = [has EXCEPT !["bool"] = TRUE]
    /\ next' = next + 1
    /\ UNCHANGED <<argv, args, front, back, optValue, parse>>

\* A mistake that the property below must tell from the code: idx is not put back.
Bug_HasValue(o) ==
    /\ parse = "middle"
    /\ next <= Len(args) /\ args[next] = o
    /\ IF next = Len(args) THEN next' = next + 1 /\ UNCHANGED <<optValue, has>>
       ELSE /\ next' = next + 2
            /\ IF o = "int" /\ args[next + 1] # Number THEN UNCHANGED <<optValue, has>>
               ELSE /\ optValue' = [optValue EXCEPT ![o] = <<args[next + 1]>>]
                    /\ has' = [has EXCEPT ![o] = TRUE]
    /\ UNCHANGED <<argv, args, front, back, parse>>

\* PARSE_ARGUMENT: of a string anything is the value, an option too; what is no number is
\* left for the next iteration.
HasValue(o) ==
    /\ parse = "middle"
    /\ next <= Len(args) /\ args[next] = o
    /\ IF next = Len(args) \/ (o = "int" /\ args[next + 1] # Number)
         THEN next' = next + 1 /\ UNCHANGED <<optValue, has>>
         ELSE /\ next' = next + 2
              /\ optValue' = [optValue EXCEPT ![o] = <<args[next + 1]>>]
              /\ has' = [has EXCEPT ![o] = TRUE]
    /\ UNCHANGED <<argv, args, front, back, parse>>

\* A list takes what follows, up to the next option, in addition to what it has.
IsList ==
    /\ parse = "middle"
    /\ next <= Len(args) /\ args[next] = "list"
    /\ \E last \in next .. Len(args) :
          /\ \A k \in next + 1 .. last : args[k] \notin Options
          /\ last < Len(args) => args[last + 1] \in Options
          /\ optValue' = [optValue EXCEPT !["list"] = @ \o SubSeq(args, next + 1, last)]
          /\ next' = last + 1
    /\ has' = [has EXCEPT !["list"] = optValue'["list"] # <<>>]
    /\ UNCHANGED <<argv, args, front, back, parse>>

EndParse ==
    /\ parse = "middle"
    /\ next > Len(args)
    /\ parse' = "over"
    /\ UNCHANGED <<argv, args, next, front, back, optValue, has>>

ArgNext ==
    \/ Flatten \/ TakeFront \/ Unexpected \/ IsBool \/ IsList \/ EndParse
    \/ \E o \in {"int", "str"} : HasValue(o)

ArgSpec == ArgInit /\ [][ArgNext]_argVars

\* get_value_with_default() of the list: what it has, and what stands at either end.
WithDefault == optValue["list"] \o front \o back

-----------------------------------------------------------------------------
(* Properties *)

ArgTypeOK ==
    /\ next \in 1 .. Len(args) + 1
    /\ \A o \in Options \ {"list"} : Len(optValue[o]) <= 1
    /\ parse \in {"begin", "front", "middle", "over", "threw"}

\* What stands between the arguments of the two ends
Middle == SubSeq(args, Len(front) + 1, Len(args) - Len(back))

\* Whether each token of the middle is the value of a string
Swallowed ==
    LET is[k \in DOMAIN Middle] == k > 1 /\ Middle[k - 1] = "str" /\ ~is[k - 1]
    IN [k \in DOMAIN Middle |-> is[k]]

\* Where the option o stands and is read as an option
Read(o) == {k \in DOMAIN Middle : Middle[k] = o /\ ~Swallowed[k]}

\* Whether the word at k belongs to the list
InList(k) ==
    /\ ~Swallowed[k]
    /\ \E l \in Read("list") : l < k /\ \A j \in l + 1 .. k : Middle[j] \notin Options

\* No token is lost and none is used twice: those before the first option and those behind
\* the first unexpected one are kept as they stand, and each option in between has the
\* value that the words behind it give it.
EveryTokenOnce ==
    parse = "over" =>
      /\ args = front \o Middle \o back
      /\ \A k \in DOMAIN front : front[k] \notin Options
      /\ Len(front) < Len(args) => args[Len(front) + 1] \in Options
      /\ back # <<>> => back[1] \notin Options
      /\ has["bool"] <=> Read("bool") # {}
      /\ has["int"] <=> \E k \in Read("int") : k + 1 \in DOMAIN Middle /\ Middle[k + 1] = Number
      /\ has["str"] <=> \E k \in Read("str") : k + 1 \in DOMAIN Middle
      /\ \A k \in Read("str") : k + 1 \in DOMAIN Middle =>  \* the last one counts
            \/ optValue["str"] = <<Middle[k + 1]>>
            \/ \E l \in Read("str") : l > k /\ l + 1 \in DOMAIN Middle
      /\ has["list"] <=> \E k \in DOMAIN Middle : InList(k)
      /\ Len(optValue["list"]) = Cardinality({k \in DOMAIN Middle : InList(k)})
      /\ \A k \in DOMAIN Middle : InList(k) =>
            optValue["list"][Cardinality({j \in 1 .. k : InList(j)})] = Middle[k]
      /\ \A k \in DOMAIN Middle :  \* a word is a value, or it would have been unexpected
            Middle[k] \in Options \/ InList(k) \/ Swallowed[k]
              \/ (Middle[k] = Number /\ k - 1 \in Read("int"))

\* parse() uses every token once.
ArgParserCorrect == ArgTypeOK /\ EveryTokenOnce
=============================================================================
