-------------------------- MODULE MCEventEmitter --------------------------
(* Small instances of EventEmitter for TLC. *)
EXTENDS EventEmitter, TLC

\* Two events and the regular expression that matches both.
MCRegexes == {Events}

\* No regular expression: selectors are names only.
MCNoRegexes == {}

Symmetry == Permutations(Listeners)
===========================================================================
