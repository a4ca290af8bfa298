---------------------------- MODULE NekoScript ----------------------------
(***************************************************************************)
(* The program: AppMain (src/NekoScript/NekoScript.cpp) from its command line *)
(* to its exit code, the script it runs, and around them the file system and *)
(* the native calls, on one thread.  The process may be launched again, on a  *)
(* script that an earlier one wrote, and may be ended from outside.           *)
(***************************************************************************)
EXTENDS Integers, SequencesExt, FiniteSets

CONSTANTS
    Names, Hidden, Ansi, Texts, Room, Disturbances, Absent, Directory, None,
    MaxCalls,
    Bytecode,   \* names that end in .jsc or .bin
    ArgLists    \* arguments the script passes to procedures

\* Bytes are told apart only where a stream or the compiler does.
Bytes == {"x", "y", "cr", "lf", "sub", "nul", "sp"}

\* So are the values that a script passes to a procedure; other is one it refuses.
Values ==
    {"number", "negative", "string", "null", "undefined", "buffer", "empty", "other"}

\* A name that the ANSI functions misread is read as one that they misread too.
ASSUME ConstantsAssumption ==
    /\ Hidden \cup Bytecode \subseteq Names
    /\ Ansi \in [Names -> Names]
    /\ \A n \in Names : Ansi[n] # n => Ansi[Ansi[n]] # Ansi[n]
    /\ Room \in Nat /\ Disturbances \in Nat /\ MaxCalls \in Nat
    /\ Texts \subseteq Seq(Bytes) /\ ArgLists \subseteq Seq(Values)
    /\ None \notin Names
    /\ \A v \in {Absent, Directory, None} : v \notin Seq(Bytes)

VARIABLES
    disk, op, outer, saved, disturbed,   \* see FileSystem
    frames, blocks,                      \* see NativeCall
    phase,     \* where AppMain is; "off" when there is no process
    main,      \* fileName, until the script is called
    program,   \* what was compiled or loaded, until it is called
    ran,       \* the script was called
    code,      \* the exit code, once it is decided; None if another process chose it
    told,      \* a failure was printed, or handed to the system to be shown
    asked,     \* process.exit or process.abort was called
    closed,    \* duk_destroy_heap has returned
    found      \* history: main when FileExists found it, None if it was
               \* changed before it was read

FS == INSTANCE FileSystem
NC == INSTANCE NativeCall

fileVars == <<disk, op, outer, saved, disturbed>>
callVars == <<frames, blocks>>
appVars == <<phase, main, program, ran, code, told, asked, closed, found>>
vars == <<fileVars, callVars, appVars>>

Aborted == 3        \* exit code of abort
Unhandled == -2     \* stands for the code of any exception

Init ==
    /\ FS!FsInit /\ NC!NcInit
    /\ phase = "off" /\ main = None /\ program = None /\ ran = FALSE
    /\ code = None /\ told = FALSE /\ asked = FALSE /\ closed = FALSE
    /\ found = None

---------------------------------------------------------------------------
(* How a process ends *)

\* Everything the process holds goes with it: calls, arrays, open streams.
ProcessEnds(c) ==
    /\ phase' = "off" /\ code' = c
    /\ main' = None /\ program' = None /\ ran' = FALSE /\ found' = None
    /\ frames' = <<>> /\ blocks' = 0 /\ op' = FS!Idle /\ outer' = FS!Idle
    /\ UNCHANGED <<disk, saved, disturbed>>

\* A dialog of the system; like every modal call it pumps messages.
Dialog(c) ==
    /\ phase' = "failing" /\ code' = c /\ told' = TRUE
    /\ NC!Enter("dialog", <<>>, "callee")
    /\ op' = FS!Idle
    /\ UNCHANGED <<disk, outer, saved, disturbed, blocks, main, program, ran, asked,
                   closed, found>>

\* Fail, which prints to the console if there is one, and the return from AppMain
\* or abort behind it.
Fail(c) ==
    \/ Dialog(c)
    \/ ProcessEnds(c) /\ told' = TRUE /\ UNCHANGED <<asked, closed>>

\* MyUnhandledExceptionFilter.
Crash == Dialog(Unhandled)

\* The dialog of Fail or of the filter is closed, and the process ends.
DialogCloses ==
    /\ NC!At("callee") /\ NC!Inner.kind = "dialog"
    /\ ProcessEnds(code)
    /\ UNCHANGED <<told, asked, closed>>

\* An exception out of a listener that ran in such a dialog has no handler but
\* the filter, whose own dialog replaces the one it unwinds; within the filter it may
\* end the process at once.
DialogUnwound ==
    /\ NC!At("script") /\ NC!Inner.kind = "dialog"
    /\ \/ /\ frames' = [frames EXCEPT ![Len(frames)].pc = "callee"]
          /\ code' = Unhandled
          /\ UNCHANGED <<fileVars, blocks, phase, main, program, ran, told, asked, closed, found>>
       \/ ProcessEnds(Unhandled) /\ UNCHANGED <<told, asked, closed>>

---------------------------------------------------------------------------
(* AppMain *)

Launch(n) ==
    /\ phase = "off"
    /\ phase' = "start" /\ main' = n
    /\ code' = None /\ told' = FALSE /\ asked' = FALSE /\ closed' = FALSE
    /\ UNCHANGED <<fileVars, callVars, program, ran, found>>

CheckScript ==
    /\ phase = "start"
    /\ IF FS!FileExists(main)
       THEN /\ phase' = "context" /\ found' = disk[main]
            /\ UNCHANGED <<fileVars, callVars, main, program, ran, code, told, asked, closed>>
       ELSE Fail(-1)

\* InitDuktapeContext returns, or an exception of it is reported before abort.
CreateDuktapeContext ==
    /\ phase = "context"
    /\ \/ /\ phase' = "load"
          /\ UNCHANGED <<fileVars, callVars, main, program, ran, code, told, asked, closed, found>>
       \/ Fail(Aborted)

\* Mutant of BeginLoad: bytecode is read like a source.
BeginLoadAsText ==
    /\ phase = "load"
    /\ FS!StartSource(main)
    /\ UNCHANGED <<callVars, appVars>>

\* readFileSync for bytecode, ReadWholeFileAsString for a source.
BeginLoad ==
    /\ phase = "load"
    /\ IF main \in Bytecode THEN FS!StartRead(main) ELSE FS!StartSource(main)
    /\ UNCHANGED <<callVars, appVars>>

\* What was read is compiled or loaded, or refused; nothing protects the engine
\* from bytes that are no bytecode, nor AppMain from the exception of a string too
\* long.
LoadScript ==
    /\ phase = "load"
    /\ \/ /\ op.pc = "returned"
          /\ phase' = "loaded" /\ op' = FS!Idle /\ program' = op.value
          /\ UNCHANGED <<disk, outer, saved, disturbed, callVars, main, ran, code, told,
                         asked, closed, found>>
       \/ op.pc = "returned" /\ Fail(-1)
       \/ op.pc = "returned" /\ main \in Bytecode /\ Crash
       \/ op.pc \in {"missing", "thrown"} /\ main \in Bytecode /\ Fail(-1)
       \/ op.pc = "thrown" /\ main \notin Bytecode /\ Crash

\* duk_pcall.
CallScript ==
    /\ phase = "loaded"
    /\ phase' = "running" /\ ran' = TRUE
    /\ main' = None /\ program' = None /\ found' = None
    /\ UNCHANGED <<fileVars, callVars, code, told, asked, closed>>

\* The script has control at the bottom, in finalizers, inside a file operation too and
\* in those of duk_destroy_heap, and in listeners, also those that run while a failure
\* is being shown.
ScriptRuns ==
    /\ ran /\ op = FS!Idle
    /\ IF frames = <<>> THEN phase \in {"running", "closing"} ELSE NC!At("script")

AtBottom == phase = "running" /\ frames = <<>> /\ op = FS!Idle

\* duk_pcall returns; duk_destroy_heap begins.
ScriptReturns ==
    /\ AtBottom
    /\ phase' = "closing"
    /\ UNCHANGED <<fileVars, callVars, main, program, ran, code, told, asked, closed, found>>

\* Mutant of ScriptThrows: returns retCode, and says nothing.
ScriptThrowsUnseen ==
    /\ AtBottom
    /\ ProcessEnds(0)
    /\ UNCHANGED <<told, asked, closed>>

\* An uncaught error; JSGetErrorStack calls the script's String.prototype.replace
\* and throws std::runtime_error if that fails.
ScriptThrows ==
    /\ AtBottom
    /\ Fail(-1) \/ Crash

HeapDestroyed ==
    /\ phase = "closing" /\ frames = <<>> /\ op = FS!Idle
    /\ ProcessEnds(0)
    /\ closed' = TRUE
    /\ UNCHANGED <<told, asked>>

---------------------------------------------------------------------------
(* What the script and its calls do *)

\* process.exit(c); what is no number counts as 0.
Exit(c) ==
    /\ ScriptRuns
    /\ ProcessEnds(c)
    /\ asked' = TRUE
    /\ UNCHANGED <<told, closed>>

Abort ==
    /\ ScriptRuns
    /\ ProcessEnds(Aborted)
    /\ asked' = TRUE
    /\ UNCHANGED <<told, closed>>

ScriptCalls ==
    /\ ScriptRuns
    /\ \/ FS!FsCall /\ UNCHANGED callVars
       \/ (\E args \in ArgLists : NC!CallApi(args)) /\ UNCHANGED fileVars
       \/ NC!ScopeRaises /\ UNCHANGED fileVars
    /\ UNCHANGED appVars

FileStep ==
    /\ FS!FsStep
    /\ UNCHANGED <<callVars, appVars>>

\* The script is given the result or the error of a file operation.
FileDone ==
    /\ phase # "load" /\ op.pc \in {"returned", "missing", "thrown"}
    /\ FS!Taken
    /\ UNCHANGED <<disk, outer, saved, disturbed, callVars, appVars>>

\* Before the script is called nothing has a finalizer of the script, and in the
\* finalizers of duk_destroy_heap nothing is collected.
FinalizersBegin ==
    /\ phase \in {"running", "failing"} /\ Len(frames) < MaxCalls
    /\ FS!Interrupted
    /\ NC!Enter("finalizer", <<>>, "script")
    /\ UNCHANGED <<blocks, appVars>>

\* They return or throw, and the engine takes no notice.
FinalizersEnd ==
    /\ NC!At("script") /\ NC!Inner.kind = "finalizer"
    /\ FS!Resumed
    /\ NC!Leave
    /\ UNCHANGED <<blocks, appVars>>

NativeStep ==
    /\ op = FS!Idle
    /\ \/ NC!Refuse \/ NC!Invoke \/ NC!CalleeEnds \/ NC!ListenerDone \/ NC!Unwound
       \/ ran /\ NC!CalledBack
    /\ UNCHANGED <<fileVars, appVars>>

\* A procedure called with the wrong parameters, an exception that leaves the
\* callback of a dialog and finds no handler, or Duktape.loadBytecode called with
\* bytes that are no bytecode.
NativeCrash ==
    /\ \/ ScriptRuns /\ Len(frames) < MaxCalls
       \/ NC!At("callee") /\ NC!Inner.kind = "api"
    /\ Crash

---------------------------------------------------------------------------
(* The world outside *)

Killed ==
    /\ phase # "off"
    /\ ProcessEnds(None)
    /\ UNCHANGED <<told, asked, closed>>

OthersAct ==
    /\ FS!OthersAct
    /\ found' = IF phase \in {"context", "load"} /\ disk'[main] # disk[main] THEN None ELSE found
    /\ UNCHANGED <<callVars, phase, main, program, ran, code, told, asked, closed>>

Next ==
    \/ \E n \in Names : Launch(n)
    \/ CheckScript \/ CreateDuktapeContext \/ BeginLoad \/ LoadScript \/ CallScript
    \/ ScriptReturns \/ ScriptThrows \/ HeapDestroyed
    \/ ScriptCalls \/ FileStep \/ FileDone \/ FinalizersBegin \/ FinalizersEnd
    \/ NativeStep \/ NativeCrash
    \/ (\E c \in {0, 1} : Exit(c)) \/ Abort
    \/ DialogCloses \/ DialogUnwound
    \/ Killed \/ OthersAct

Spec == Init /\ [][Next]_vars

---------------------------------------------------------------------------
(* Properties *)

\* Well-formed state; scripts are given bytes of files and padding, never what
\* happened to be in memory, and nothing of a process is left when it has ended.
TypeOK ==
    /\ \A n \in Names : disk[n] \in {Absent, Directory} \/ disk[n] \in Seq(Bytes)
    /\ saved \in [FS!Plain -> Texts \cup {None}]
    /\ op.kind \in {"read", "source"} /\ op.pc = "returned" => op.value \in Seq(Bytes)
    /\ program = None \/ program \in Seq(Bytes)
    /\ blocks \in Nat
    /\ phase \in {"off", "start", "context", "load", "loaded", "running", "closing", "failing"}
    /\ phase = "off" => op = FS!Idle /\ outer = FS!Idle /\ frames = <<>> /\ blocks = 0 /\ main = None
    /\ code \in Int \cup {None}
    /\ {ran, told, asked, closed} \subseteq BOOLEAN

ReadsWhatWasWritten == FS!ReadsWhatWasWritten
ListingComplete == FS!ListingComplete
ParametersInOrder == NC!ParametersInOrder
BlocksFreed == NC!BlocksFreed

\* Bytecode is run byte by byte as it was found, although the file is looked up by
\* name three times, and its size is not taken with its bytes.
LoadsWhatWasFound ==
    program # None /\ found # None /\ main \in Bytecode => program = found

WithoutReturns(bytes) == FS!Kept(bytes, {i \in DOMAIN bytes : bytes[i] # "cr"})

\* A source is run line by line as it was found, line ends aside, up to its first SUB
\* or NUL, and with nothing behind it but blanks.
RunsWhatWasFound ==
    program # None /\ found # None /\ main \notin Bytecode =>
        LET source == FS!UpTo(FS!UpTo(found, "sub"), "nul")
        IN \E blanks \in 0..Len(found) :
              WithoutReturns(program) = WithoutReturns(source) \o [i \in 1..blanks |-> "sp"]

\* A process that nobody ended, neither the script nor another process, exits with
\* 0 exactly when the heap was destroyed after the script had returned, and with
\* anything else only after it printed what went wrong or asked the system to show
\* it; whether the system did, NekoScript.cpp:59 does not look.
ExitTellsOutcome ==
    phase = "off" /\ code # None /\ ~asked =>
        /\ code = 0 <=> closed
        /\ code # 0 => told
===========================================================================
