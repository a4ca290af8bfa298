---------------------------- MODULE NativeCall ----------------------------
(***************************************************************************)
(* Calls that leave the engine: NKWinAPI objects called as functions         *)
(* (src/NekoScript/NKWinAPI.cpp), the call with any number of parameters      *)
(* behind them, and the throw scopes (src/NekoScript/Helper.cpp, Helper.h),   *)
(* which raise an error by the same kind of call.                            *)
(*                                                                          *)
(* A procedure may pump messages, and then the callback of a dialog runs      *)
(* listeners of the script, which call procedures in their turn; frames is    *)
(* that nesting, the innermost call last.  A finalizer that the engine calls    *)
(* inside another function of the program is one of them too.                  *)
(***************************************************************************)
EXTENDS Integers, SequencesExt, FiniteSets

CONSTANT MaxCalls   \* bound: calls under way at once

VARIABLES
    frames,    \* calls under way
    blocks     \* argument arrays allocated and not deleted

NcInit == frames = <<>> /\ blocks = 0

Inner == Last(frames)

---------------------------------------------------------------------------
(* Arguments *)

\* The word a procedure should be given for a value: the integer, the address of
\* the string or of the buffer's bytes, or 0.
Word(value) ==
    IF value \in {"null", "undefined", "negative"} THEN "zero" ELSE value

\* duk_get_buffer_data gives no address for an empty dynamic buffer, which is
\* then refused like a value of another type.
Convertible(value) == value \notin {"other", "empty"}

\* Mutant of FilledFromEnd: fills the array from its beginning.
FilledFromStart(args) == [i \in DOMAIN args |-> Word(args[i])]

\* The loop of Call: *--p walks down from args + count.
FilledFromEnd(args) ==
    [i \in DOMAIN args |-> Word(args[Len(args) + 1 - i])]

\* expand: pass(convert(list, args)...) adds to the list in the order in which the
\* compiler evaluates the arguments of a call, which is from right to left.
Expanded(args) == Reverse(args)

\* DynamicInvoke pushes the array from its first element on, and every push goes
\* below the one before: the procedure finds the last one as its first parameter.
Parameters(block) == [k \in DOMAIN block |-> block[Len(block) + 1 - k]]

---------------------------------------------------------------------------
(* Calls *)

Enter(kind, args, pc) ==
    frames' = Append(frames, [kind |-> kind, args |-> args, pc |-> pc, params |-> <<>>])

Leave == frames' = Front(frames)

At(pc) == frames # <<>> /\ Inner.pc = pc

\* NKWinAPI::Call: the array for the arguments is allocated.
CallApi(args) ==
    /\ Len(frames) < MaxCalls
    /\ Enter("api", args, "fill")
    /\ blocks' = IF args = <<>> THEN blocks ELSE blocks + 1

\* JSThrowScopeWin32Error: the parameters of JSThrowWin32ErrorRaw are kept in an
\* array until the locals of the scope are gone.
ScopeRaises ==
    /\ Len(frames) < MaxCalls
    /\ Enter("raise", <<"file", "line", "ctx", "code", "function">>, "fill")
    /\ blocks' = blocks + 1

Refused == Inner.kind = "api" /\ \E i \in DOMAIN Inner.args : ~Convertible(Inner.args[i])

Deleted == IF Inner.args = <<>> THEN blocks ELSE blocks - 1

\* A value of another type: the array is deleted and an error thrown.
Refuse ==
    /\ At("fill") /\ Refused
    /\ Leave
    /\ blocks' = Deleted

Called ==
    frames' = [frames EXCEPT
        ![Len(frames)].pc = "callee",
        ![Len(frames)].params =
            Parameters(IF Inner.kind = "api" THEN FilledFromEnd(Inner.args)
                       ELSE Expanded(Inner.args))]

\* Mutant of Invoke: the array is left to be deleted after the call.
InvokeKeeping ==
    /\ At("fill") /\ ~Refused
    /\ Called
    /\ UNCHANGED blocks

\* DynamicInvoke copies the array to the machine stack, deletes it and calls.
Invoke ==
    /\ At("fill") /\ ~Refused
    /\ Called
    /\ blocks' = Deleted

\* The procedure returns, and Call gives its result to the script as a number;
\* JSThrowWin32ErrorRaw throws, through invoke, to which nothing is left to do.
CalleeEnds ==
    /\ At("callee") /\ Inner.kind \in {"api", "raise"}
    /\ Leave
    /\ UNCHANGED blocks

\* The procedure pumps messages: a listener of the script runs, and returns.
CalledBack ==
    /\ At("callee") /\ Inner.kind # "raise"
    /\ frames' = [frames EXCEPT ![Len(frames)].pc = "script"]
    /\ UNCHANGED blocks

ListenerDone ==
    /\ At("script") /\ Inner.kind # "finalizer"
    /\ frames' = [frames EXCEPT ![Len(frames)].pc = "callee"]
    /\ UNCHANGED blocks

\* The listener throws, and the exception unwinds the procedure and Call.
Unwound ==
    /\ At("script") /\ Inner.kind = "api"
    /\ Leave
    /\ UNCHANGED blocks

---------------------------------------------------------------------------
(* Properties *)

\* Every procedure finds argument k as its parameter k, in the form it expects,
\* whichever way the array was filled and pushed.
ParametersInOrder ==
    \A i \in DOMAIN frames : frames[i].pc \in {"callee", "script"} =>
        frames[i].params = [k \in DOMAIN frames[i].args |->
                               IF frames[i].kind = "raise" THEN frames[i].args[k]
                               ELSE Word(frames[i].args[k])]

\* The arrays alive are those of calls that have not begun: none outlives its
\* call, however the call ends, and none waits for a procedure to return.
BlocksFreed ==
    blocks = Cardinality({i \in DOMAIN frames :
                             frames[i].pc = "fill" /\ frames[i].args # <<>>})
===========================================================================
