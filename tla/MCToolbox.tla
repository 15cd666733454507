----------------------------- MODULE MCToolbox ------------------------------
(***************************************************************************)
(* Toolbox on small inputs.                                                *)
(***************************************************************************)
EXTENDS Toolbox, TLC

CONSTANTS
    f1, f2, f3, d1, d2,  \* files of ducpp and the entries they belong to
    r1, r2, u1, u2,      \* repositories and links
    n1, n2,              \* names of tools
    fa, fb, out          \* files that are written

SomeLetters == {"a", "/", "\\", " ", "."}

\* One delimiter begins another, and one overlaps itself.
SomeDelims == {<<"/">>, <<"a">>, <<"a", "/">>, <<"a", "a">>}

\* What is printed empty, as a word, and as a hole
SomeStrings == {<<>>, <<"x">>, <<"{", "}">>}

\* Plain, in a directory, and with what is searched for in front of the symbol
SomeExecutables ==
    {<<"app">>, <<"lib", "/", "app">>, <<"lib", "+">>, <<"d", "(", "1", ")">>, <<"p", ")">>}
SomeSymbols == {<<>>, <<"f">>, <<"dbg::", "g">>}

\* Nothing, one token, and a list with its value
SomeArgvItems == {<<>>, <<"list", "w">>} \cup {<<t>> : t \in Options \cup {Number, "w", Blank}}

TwoEntries == (f1 :> d1) @@ (f2 :> d1) @@ (f3 :> d2)

\* Bounds on either side of 0, in any order, with ranges wider than what is drawn
SomeBounds == -2 .. 4

\* Two repositories of one name; nothing has the other.
SameName == (r1 :> n1) @@ (r2 :> n1)
OneDefault == <<r1>>
LinkOfEach == (r1 :> {u1}) @@ (r2 :> {u2})
NameOfEach == (u1 :> fa) @@ (u2 :> fb)

\* The output is in the middle of the inputs.
ThreeFiles == <<fa, out, fb>>
LinesOfEach == (fa :> 1) @@ (fb :> 2) @@ (out :> 1)
=============================================================================
