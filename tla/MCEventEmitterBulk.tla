------------------------ MODULE MCEventEmitterBulk ------------------------
(* Small instances of EventEmitterBulk for TLC. *)
EXTENDS EventEmitterBulk

MCRegexes == {Events}

\* Every array of two or three listeners, repetitions included.
MCBulks == UNION {[1..n -> Listeners] : n \in 2..3}
===========================================================================
