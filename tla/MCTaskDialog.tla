--------------------------- MODULE MCTaskDialog ---------------------------
(* Small instances of TaskDialog for TLC. *)
EXTENDS TaskDialog, TLC

Plain == [buttons |-> None, radios |-> None]

\* No custom button, or two of them.
MCConfigs == {Plain, [buttons |-> 2, radios |-> None]}

MCPlain == {Plain}

\* Radio buttons too, fewer than buttons.
MCRadioConfigs == {Plain, [buttons |-> 2, radios |-> 1]}

Symmetry == Permutations(Dialogs)
===========================================================================
