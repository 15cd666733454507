------------------------------ MODULE Toolbox ------------------------------
(***************************************************************************)
(* The containers, utilities, programs and examples that stand beside the  *)
(* concurrent components, one at a time: they share no state, so that a    *)
(* behaviour is that of the one chosen at its start and leaves the others  *)
(* as they are.  Each is a module of its own, with a specification of its  *)
(* own that such a behaviour satisfies: its steps are taken or nothing is. *)
(***************************************************************************)
EXTENDS Lists, UnionFind, TopKQueue, Graph, Generator, Subscriptions,
        Strings, Formatter, StackPrinter, ArgParser, Logger, Ducpp, Downloader,
        Tools, RandomUtil, FileReader, Trees, DrawingPad

VARIABLE which  \* the component that this behaviour is about

vars == <<which,
          heapVars, unionVars, skipVars, topVars, graphVars, listVars, genVars, subVars,
          strVars, formatVars, stackVars, argVars, logVars, duVars, downVars, combineVars,
          talkVars, chainVars, imageVars, echoVars, randomVars, readerVars, treeVars, padVars>>

Components ==
    {"heap", "union", "skip", "top", "graph", "list", "generator", "subscriptions",
     "strings", "formatter", "stack", "arguments", "logger", "ducpp", "downloader",
     "combine", "talker", "chain", "images", "echo", "random", "reader", "tree", "pad"}

-----------------------------------------------------------------------------
\* A component that is not chosen has one of the inputs that it could have.
InputsFixed ==
    /\ which = "graph" \/ isYouXiang = TRUE
    /\ which = "list" \/ data = 0
    /\ which = "strings" \/ (call = "strip" /\ text = <<>> /\ delims = {})
    /\ which = "formatter" \/ (maker = "stack" /\ template = <<>> /\ items = <<>>)
    /\ which = "stack" \/ stack = <<>>
    /\ which = "arguments" \/ argv = <<>>
    /\ which = "ducpp" \/ (mode = "sum" /\ size = [g \in DuFiles |-> CHOOSE s \in DuSizes : TRUE])
    /\ which = "downloader" \/ (command = "all" /\ toFile = FALSE)
    /\ which = "combine" \/ inputs = <<>>
    /\ which = "chain" \/ demo = "pipeline"
    /\ which = "images" \/ (version = "sequential" /\ images = <<>> /\ threads = 1)
    /\ which = "random" \/ (lower = (CHOOSE b \in Bounds : TRUE) /\ upper = lower /\ length = 0)
    /\ which = "reader" \/ (content = <<>> /\ valid = TRUE)
    /\ which = "tree" \/ left = <<>>

Init ==
    /\ which \in Components
    /\ InputsFixed
    /\ HeapInit
    /\ UnionInit
    /\ SkipInit
    /\ TopInit
    /\ GraphInit
    /\ ListInit
    /\ GenInit
    /\ SubInit
    /\ StrInit
    /\ FormatInit
    /\ StackInit
    /\ ArgInit
    /\ LogInit
    /\ DuInit
    /\ DownInit
    /\ CombineInit
    /\ TalkInit
    /\ ChainInit
    /\ ImagesInit
    /\ EchoInit
    /\ RandomInit
    /\ ReaderInit
    /\ TreeInit
    /\ PadInit

\* All but the one that is chosen stay as they are.
Next ==
    /\ UNCHANGED which
    /\ IF which = "heap" THEN HeapNext ELSE UNCHANGED heapVars
    /\ IF which = "union" THEN UnionNext ELSE UNCHANGED unionVars
    /\ IF which = "skip" THEN SkipNext ELSE UNCHANGED skipVars
    /\ IF which = "top" THEN TopNext ELSE UNCHANGED topVars
    /\ IF which = "graph" THEN GraphNext ELSE UNCHANGED graphVars
    /\ IF which = "list" THEN ListNext ELSE UNCHANGED listVars
    /\ IF which = "generator" THEN GenNext ELSE UNCHANGED genVars
    /\ IF which = "subscriptions" THEN SubNext ELSE UNCHANGED subVars
    /\ IF which = "strings" THEN StrNext ELSE UNCHANGED strVars
    /\ IF which = "formatter" THEN FormatNext ELSE UNCHANGED formatVars
    /\ IF which = "stack" THEN ParseFrame ELSE UNCHANGED stackVars
    /\ IF which = "arguments" THEN ArgNext ELSE UNCHANGED argVars
    /\ IF which = "logger" THEN LogNext ELSE UNCHANGED logVars
    /\ IF which = "ducpp" THEN DuNext ELSE UNCHANGED duVars
    /\ IF which = "downloader" THEN DownNext ELSE UNCHANGED downVars
    /\ IF which = "combine" THEN CombineNext ELSE UNCHANGED combineVars
    /\ IF which = "talker" THEN TalkNext ELSE UNCHANGED talkVars
    /\ IF which = "chain" THEN ChainNext ELSE UNCHANGED chainVars
    /\ IF which = "images" THEN ImagesNext ELSE UNCHANGED imageVars
    /\ IF which = "echo" THEN EchoNext ELSE UNCHANGED echoVars
    /\ IF which = "random" THEN DrawNumber ELSE UNCHANGED randomVars
    /\ IF which = "reader" THEN ReaderNext ELSE UNCHANGED readerVars
    /\ IF which = "tree" THEN TreeNext ELSE UNCHANGED treeVars
    /\ IF which = "pad" THEN PadNext ELSE UNCHANGED padVars

Spec == Init /\ [][Next]_vars

-----------------------------------------------------------------------------
(* Properties: each component against what it stands for.  One that is not   *)
(* chosen stays as it began.                                                 *)

\* Texts are split, filled in, joined, parsed and read without losing a part of them, random
\* ones are made of what they should be, and a tree's text describes it.
TextCorrect ==
    /\ which = "strings" => StringsCorrect
    /\ which = "formatter" => FormatterCorrect
    /\ which = "stack" => StackCorrect
    /\ which = "reader" => ReaderCorrect
    /\ which = "random" => RandomCorrect
    /\ which = "tree" => TreeCorrect
=============================================================================
