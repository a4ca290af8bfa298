--------------------------- MODULE MCNekoScript ---------------------------
EXTENDS NekoScript

\* Two texts, of which one is cut by a SUB and one has a line end.
MCTexts == {<<"sp", "x", "cr", "lf">>, <<"y", "sub">>}

\* A source, and a hidden bytecode file, both the same in the two encodings.
MCNames == {"main.js", ".main.jsc"}
MCHidden == {".main.jsc"}
MCBytecode == {".main.jsc"}
MCAnsi == [n \in MCNames |-> n]

\* No argument, arguments of every kind that is taken, and two that are refused.
MCArgLists == {<<>>, <<"number", "null", "string", "negative">>,
               <<"buffer", "empty", "other">>}
===========================================================================
