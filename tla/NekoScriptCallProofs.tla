----------------------- MODULE NekoScriptCallProofs -----------------------
(***************************************************************************)
(* Proofs about the native calls of NekoScript and about its exit code, for *)
(* any number of calls under way, whatever happens to the files.             *)
(***************************************************************************)
EXTENDS NekoScript, SequenceTheorems, FiniteSetTheorems, TLAPS

---------------------------------------------------------------------------
(* Parameters *)

Words ==
    Values \cup {"zero", "file", "line", "ctx", "code", "function"}

LEMMA WordOf == ASSUME NEW v \in Words PROVE NC!Word(v) \in Words
BY DEF NC!Word, Words

\* Filled from the end and pushed below itself, argument k is parameter k.
LEMMA FilledParameters ==
    ASSUME NEW args \in Seq(Words)
    PROVE  /\ NC!Parameters(NC!FilledFromEnd(args)) \in Seq(Words)
           /\ NC!Parameters(NC!FilledFromEnd(args))
                = [k \in DOMAIN args |-> NC!Word(args[k])]
<1> DEFINE n == Len(args)
           block == NC!FilledFromEnd(args)
<1>1. n \in Nat /\ DOMAIN args = 1..n /\ \A k \in 1..n : args[k] \in Words
  OBVIOUS
<1>2. block = [i \in 1..n |-> NC!Word(args[n + 1 - i])]
  BY <1>1 DEF NC!FilledFromEnd
<1>3. \A i \in 1..n : n + 1 - i \in 1..n
  BY <1>1
<1>4. block \in Seq(Words) /\ Len(block) = n /\ DOMAIN block = 1..n
  <2>1. \A i \in 1..n : NC!Word(args[n + 1 - i]) \in Words
    BY <1>1, <1>3, WordOf
  <2>2. block \in [1..n -> Words]
    BY <1>2, <2>1
  <2> QED
    BY <1>1, <2>2, IsASeq, LenProperties
<1> HIDE DEF block
<1>5. NC!Parameters(block) = [k \in 1..n |-> block[n + 1 - k]]
  BY <1>4 DEF NC!Parameters
<1>6. ASSUME NEW k \in 1..n PROVE block[n + 1 - k] = NC!Word(args[k])
  <2>1. n + 1 - k \in 1..n /\ n + 1 - (n + 1 - k) = k
    BY <1>1
  <2> QED
    BY <1>2, <2>1
<1>7. NC!Parameters(block) = [k \in 1..n |-> NC!Word(args[k])]
  BY <1>5, <1>6
<1>8. [k \in 1..n |-> NC!Word(args[k])] \in Seq(Words)
  BY <1>1, WordOf, IsASeq
<1> QED
  BY <1>1, <1>7, <1>8 DEF block

\* So is one that the compiler evaluated from right to left.
LEMMA ExpandedParameters ==
    ASSUME NEW args \in Seq(Words)
    PROVE  /\ NC!Parameters(NC!Expanded(args)) \in Seq(Words)
           /\ NC!Parameters(NC!Expanded(args)) = [k \in DOMAIN args |-> args[k]]
<1> DEFINE n == Len(args)
           block == NC!Expanded(args)
<1>1. n \in Nat /\ DOMAIN args = 1..n /\ \A k \in 1..n : args[k] \in Words
  OBVIOUS
<1>2. block = [i \in 1..n |-> args[(n - i) + 1]]
  BY DEF NC!Expanded, Reverse, NC!Reverse
<1>3. \A i \in 1..n : (n - i) + 1 \in 1..n
  BY <1>1
<1>4. block \in Seq(Words) /\ Len(block) = n /\ DOMAIN block = 1..n
  <2>1. block \in [1..n -> Words]
    BY <1>1, <1>2, <1>3
  <2> QED
    BY <1>1, <2>1, IsASeq, LenProperties
<1> HIDE DEF block
<1>5. NC!Parameters(block) = [k \in 1..n |-> block[n + 1 - k]]
  BY <1>4 DEF NC!Parameters
<1>6. ASSUME NEW k \in 1..n PROVE block[n + 1 - k] = args[k]
  <2>1. n + 1 - k \in 1..n /\ (n - (n + 1 - k)) + 1 = k
    BY <1>1
  <2> QED
    BY <1>2, <2>1
<1>7. NC!Parameters(block) = [k \in 1..n |-> args[k]]
  BY <1>5, <1>6
<1>8. [k \in 1..n |-> args[k]] \in Seq(Words)
  BY <1>1, IsASeq
<1> QED
  BY <1>1, <1>7, <1>8 DEF block

---------------------------------------------------------------------------
(* Frames *)

CallFrame ==
    [kind : {"api", "raise", "dialog", "finalizer"}, args : Seq(Words),
     pc : {"fill", "callee", "script"}, params : Seq(Words)]

InOrder(f) ==
    f.params = [k \in DOMAIN f.args |->
                   IF f.kind = "raise" THEN f.args[k] ELSE NC!Word(f.args[k])]

\* Only the innermost call still fills its array; the others have been given
\* their parameters.
FramesInv(st) ==
    /\ st \in Seq(CallFrame)
    /\ \A i \in DOMAIN st : st[i].pc = "fill" => i = Len(st) /\ st[i].kind \in {"api", "raise"}
    /\ \A i \in DOMAIN st : st[i].pc # "fill" => InOrder(st[i])

Filling(f) == f.pc = "fill" /\ f.args # <<>>

BlocksInv ==
    blocks = IF frames # <<>> /\ Filling(Last(frames)) THEN 1 ELSE 0

CallInv == FramesInv(frames) /\ BlocksInv

LEMMA InnerFrame ==
    ASSUME FramesInv(frames), frames # <<>>
    PROVE  /\ Len(frames) \in Nat \ {0} /\ DOMAIN frames = 1..Len(frames)
           /\ NC!Inner = frames[Len(frames)] /\ NC!Inner = Last(frames)
           /\ NC!Inner \in CallFrame
           /\ NC!Inner.pc = "fill" => NC!Inner.kind \in {"api", "raise"}
           /\ NC!Inner.pc # "fill" => InOrder(NC!Inner)
BY DEF FramesInv, NC!Inner, NC!Last, Last

\* A call begins.
LEMMA FramePushed ==
    ASSUME NEW f \in CallFrame, FramesInv(frames),
           frames # <<>> => Last(frames).pc # "fill",
           f.pc = "fill" => f.kind \in {"api", "raise"},
           f.pc # "fill" => InOrder(f)
    PROVE  /\ FramesInv(Append(frames, f))
           /\ Append(frames, f) # <<>> /\ Last(Append(frames, f)) = f
<1> DEFINE st == Append(frames, f)
           n == Len(frames)
<1>1. /\ n \in Nat /\ DOMAIN frames = 1..n /\ frames \in Seq(CallFrame)
      /\ st \in Seq(CallFrame) /\ Len(st) = n + 1 /\ DOMAIN st = 1..(n + 1)
      /\ st[n + 1] = f /\ \A i \in 1..n : st[i] = frames[i]
  BY DEF FramesInv
<1>2. \A i \in 1..n : frames[i].pc # "fill"
  BY <1>1 DEF FramesInv, Last
<1> HIDE DEF st, n
<1>3. \A i \in 1..(n + 1) : i = n + 1 \/ i \in 1..n
  BY <1>1
<1>4. ASSUME NEW i \in DOMAIN st, st[i].pc = "fill"
      PROVE  i = Len(st) /\ st[i].kind \in {"api", "raise"}
  BY <1>1, <1>2, <1>3, <1>4
<1>5. ASSUME NEW i \in DOMAIN st, st[i].pc # "fill" PROVE InOrder(st[i])
  <2>1. CASE i = n + 1
    BY <1>1, <1>5, <2>1
  <2>2. CASE i \in 1..n
    BY <1>1, <1>5, <2>2 DEF FramesInv
  <2> QED
    BY <1>1, <1>3, <2>1, <2>2
<1>6. FramesInv(st)
  BY <1>1, <1>4, <1>5 DEF FramesInv
<1>7. st # <<>> /\ Last(st) = f
  BY <1>1 DEF Last
<1> QED
  BY <1>6, <1>7 DEF st

\* The innermost call goes on, as f.
LEMMA FrameMoved ==
    ASSUME NEW f \in CallFrame, FramesInv(frames), frames # <<>>,
           f.pc # "fill", InOrder(f)
    PROVE  /\ FramesInv([frames EXCEPT ![Len(frames)] = f])
           /\ [frames EXCEPT ![Len(frames)] = f] # <<>>
           /\ Last([frames EXCEPT ![Len(frames)] = f]) = f
<1> DEFINE st == [frames EXCEPT ![Len(frames)] = f]
           n == Len(frames)
<1>1. /\ n \in Nat \ {0} /\ DOMAIN frames = 1..n /\ frames \in Seq(CallFrame)
      /\ st \in Seq(CallFrame) /\ Len(st) = n /\ DOMAIN st = 1..n
      /\ st[n] = f /\ \A i \in 1..n : i # n => st[i] = frames[i]
  BY DEF FramesInv
<1> HIDE DEF st, n
<1>2. \A i \in 1..n : i # n => frames[i].pc # "fill" /\ InOrder(frames[i])
  BY <1>1 DEF FramesInv, n
<1>3. FramesInv(st)
  BY <1>1, <1>2 DEF FramesInv
<1>4. st # <<>> /\ Last(st) = f
  BY <1>1 DEF Last
<1> QED
  BY <1>3, <1>4 DEF st

\* The innermost call is over; the one below it has its parameters.
LEMMA FramePopped ==
    ASSUME FramesInv(frames), frames # <<>>
    PROVE  /\ FramesInv(Front(frames))
           /\ Front(frames) # <<>> => Last(Front(frames)).pc # "fill"
<1> DEFINE st == Front(frames)
           n == Len(frames)
<1>1. /\ n \in Nat \ {0} /\ DOMAIN frames = 1..n /\ frames \in Seq(CallFrame)
      /\ n - 1 \in Nat /\ \A i \in 1..(n - 1) : frames[i] \in CallFrame
  BY DEF FramesInv
<1>2. /\ st \in Seq(CallFrame)
      /\ Len(st) = IF 1 <= n - 1 THEN (n - 1) - 1 + 1 ELSE 0
      /\ \A i \in 1..((n - 1) - 1 + 1) : st[i] = frames[1 + i - 1]
  BY <1>1, SubSeqProperties DEF Front
<1> HIDE DEF st, n
<1>3. /\ Len(st) = n - 1 /\ DOMAIN st = 1..(n - 1)
      /\ \A i \in 1..(n - 1) : st[i] = frames[i]
  BY <1>1, <1>2
<1>4. \A i \in 1..(n - 1) : i \in 1..n /\ i # n
  BY <1>1
<1>5. \A i \in 1..(n - 1) : frames[i].pc # "fill" /\ InOrder(frames[i])
  BY <1>1, <1>4 DEF FramesInv, n
<1>6. FramesInv(st)
  BY <1>2, <1>3, <1>5 DEF FramesInv
<1>7. st # <<>> => Last(st).pc # "fill"
  <2> SUFFICES ASSUME st # <<>> PROVE Last(st).pc # "fill"
    OBVIOUS
  <2>1. Len(st) \in 1..(n - 1)
    BY <1>1, <1>2, <1>3
  <2> QED
    BY <1>3, <1>5, <2>1 DEF Last
<1> QED
  BY <1>6, <1>7 DEF st

---------------------------------------------------------------------------
(* Steps *)

\* No call is filling its array.
Ready == frames # <<>> => Last(frames).pc # "fill"

LEMMA EndsCalls == ASSUME NEW c, ProcessEnds(c) PROVE CallInv'
<1>1. frames' = <<>> /\ blocks' = 0
  BY DEF ProcessEnds
<1>2. FramesInv(<<>>)
  BY DEF FramesInv
<1> QED
  BY <1>1, <1>2 DEF CallInv, BlocksInv

\* A dialog is shown, or finalizers are called.
LEMMA PlainCalls ==
    ASSUME CallInv, Ready, NEW kind \in {"dialog", "finalizer"},
           NEW pc \in {"callee", "script"}, NC!Enter(kind, <<>>, pc), blocks' = blocks
    PROVE  CallInv'
<1> DEFINE f == [kind |-> kind, args |-> <<>>, pc |-> pc, params |-> <<>>]
<1>1. frames' = Append(frames, f)
  BY DEF NC!Enter
<1>2. f \in CallFrame /\ InOrder(f) /\ f.pc # "fill"
  BY DEF CallFrame, InOrder
<1> HIDE DEF f
<1>3. FramesInv(frames') /\ frames' # <<>> /\ Last(frames') = f
  BY <1>1, <1>2, FramePushed DEF CallInv, Ready
<1>4. blocks = 0
  BY DEF CallInv, BlocksInv, Ready, Filling
<1> QED
  BY <1>2, <1>3, <1>4 DEF CallInv, BlocksInv, Filling

LEMMA DialogCalls ==
    ASSUME CallInv, Ready, NEW c, Dialog(c)
    PROVE  CallInv'
BY PlainCalls DEF Dialog

LEMMA FailCalls ==
    ASSUME CallInv, Ready, NEW c, Fail(c)
    PROVE  CallInv'
BY EndsCalls, DialogCalls DEF Fail

\* A call begins by filling its array.
LEMMA EnterCalls ==
    ASSUME CallInv, Ready, NEW kind \in {"api", "raise"}, NEW args \in Seq(Words),
           NC!Enter(kind, args, "fill"),
           blocks' = IF args = <<>> THEN blocks ELSE blocks + 1
    PROVE  CallInv'
<1> DEFINE f == [kind |-> kind, args |-> args, pc |-> "fill", params |-> <<>>]
<1>1. frames' = Append(frames, f)
  BY DEF NC!Enter
<1>2. f \in CallFrame /\ f.pc = "fill" /\ f.kind \in {"api", "raise"} /\ f.args = args
  BY DEF CallFrame
<1> HIDE DEF f
<1>3. FramesInv(frames') /\ frames' # <<>> /\ Last(frames') = f
  BY <1>1, <1>2, FramePushed DEF CallInv, Ready
<1>4. blocks = 0
  BY DEF CallInv, BlocksInv, Ready, Filling
<1> QED
  BY <1>2, <1>3, <1>4 DEF CallInv, BlocksInv, Filling

\* A call leaves: its array goes with it if it was still filling it.
LEMMA LeaveCalls ==
    ASSUME CallInv, frames # <<>>, NC!Leave,
           blocks' = IF NC!Inner.pc = "fill" THEN NC!Deleted ELSE blocks
    PROVE  CallInv'
<1>1. frames' = Front(frames)
  BY DEF NC!Leave, NC!Front, Front
<1>2. FramesInv(frames') /\ (frames' # <<>> => Last(frames').pc # "fill")
  BY <1>1, FramePopped DEF CallInv
<1>3. NC!Inner = Last(frames)
  BY InnerFrame DEF CallInv
<1>4. blocks' = 0
  BY <1>3 DEF CallInv, BlocksInv, Filling, NC!Deleted
<1> QED
  BY <1>2, <1>4 DEF CallInv, BlocksInv, Filling

\* The procedure and a listener it runs take turns.
LEMMA TurnCalls ==
    ASSUME CallInv, frames # <<>>, NC!Inner.pc # "fill", NEW pc \in {"callee", "script"},
           frames' = [frames EXCEPT ![Len(frames)].pc = pc], blocks' = blocks
    PROVE  CallInv'
<1> DEFINE f == [NC!Inner EXCEPT !.pc = pc]
<1>1. NC!Inner \in CallFrame /\ InOrder(NC!Inner) /\ NC!Inner = Last(frames)
      /\ NC!Inner = frames[Len(frames)]
  BY InnerFrame DEF CallInv
<1>2. f \in CallFrame /\ f.pc = pc /\ InOrder(f)
  BY <1>1 DEF CallFrame, InOrder
<1>3. frames' = [frames EXCEPT ![Len(frames)] = f]
  BY <1>1
<1> HIDE DEF f
<1>4. FramesInv(frames') /\ frames' # <<>> /\ Last(frames') = f
  BY <1>2, <1>3, FrameMoved DEF CallInv
<1>5. blocks = 0
  BY <1>1 DEF CallInv, BlocksInv, Filling
<1> QED
  BY <1>2, <1>4, <1>5 DEF CallInv, BlocksInv, Filling

\* The procedure is called, with its parameters and without the array.
LEMMA InvokeCalls ==
    ASSUME CallInv, NC!Invoke
    PROVE  CallInv'
<1> DEFINE block == IF NC!Inner.kind = "api" THEN NC!FilledFromEnd(NC!Inner.args)
                    ELSE NC!Expanded(NC!Inner.args)
           params == NC!Parameters(block)
           f == [NC!Inner EXCEPT !.pc = "callee", !.params = params]
<1>1. frames # <<>> /\ NC!Inner.pc = "fill" /\ blocks' = NC!Deleted
  BY DEF NC!Invoke, NC!At
<1>2. /\ NC!Inner \in CallFrame /\ NC!Inner = Last(frames)
      /\ NC!Inner = frames[Len(frames)] /\ NC!Inner.kind \in {"api", "raise"}
      /\ NC!Inner.args \in Seq(Words)
  BY <1>1, InnerFrame DEF CallInv, CallFrame
<1>3. /\ params \in Seq(Words)
      /\ params = [k \in DOMAIN NC!Inner.args |->
                     IF NC!Inner.kind = "raise" THEN NC!Inner.args[k]
                     ELSE NC!Word(NC!Inner.args[k])]
  <2>1. CASE NC!Inner.kind = "api"
    BY <1>2, <2>1, FilledParameters
  <2>2. CASE NC!Inner.kind = "raise"
    BY <1>2, <2>2, ExpandedParameters
  <2> QED
    BY <1>2, <2>1, <2>2
<1>4. frames' = [frames EXCEPT ![Len(frames)] = f]
  BY <1>2 DEF NC!Invoke, NC!Called
<1> HIDE DEF params
<1>5. f \in CallFrame /\ f.pc = "callee" /\ InOrder(f)
  BY <1>2, <1>3 DEF CallFrame, InOrder
<1> HIDE DEF f
<1>6. FramesInv(frames') /\ frames' # <<>> /\ Last(frames') = f
  BY <1>1, <1>4, <1>5, FrameMoved DEF CallInv
<1>7. blocks' = 0
  BY <1>1, <1>2 DEF CallInv, BlocksInv, Filling, NC!Deleted
<1> QED
  BY <1>5, <1>6, <1>7 DEF CallInv, BlocksInv, Filling

---------------------------------------------------------------------------
(* Phases *)

NoDialog(st) == \A i \in DOMAIN st : st[i].kind # "dialog"

\* Before the script is called, and without a process, nothing is under way; only
\* in a process that fails is a failure on the screen.
PhaseInv ==
    /\ phase \in {"off", "start", "context", "load", "loaded"} => frames = <<>>
    /\ phase # "failing" => NoDialog(frames)

\* A file operation is begun by the script, and goes on when finalizers inside it are
\* done: no call is filling its array then.
OpReady == op # FS!Idle => Ready

\* How a process fails and ends.
OutcomeInv ==
    /\ phase = "failing" => told /\ code # 0
    /\ phase # "off" => ~closed
    /\ ExitTellsOutcome

LEMMA ScriptReady == ASSUME ScriptRuns PROVE Ready
BY DEF ScriptRuns, Ready, NC!At, NC!Inner, NC!Last, Last

\* Calls other than the dialogs of a failure.
LEMMA CallsOfScript ==
    ASSUME CallInv, ScriptRuns,
           (\E args \in ArgLists : NC!CallApi(args)) \/ NC!ScopeRaises
    PROVE  CallInv'
<1>1. Ready
  BY ScriptReady
<1>2. ASSUME NEW args \in ArgLists, NC!CallApi(args) PROVE CallInv'
  <2>1. args \in Seq(Words)
    <3>1. args \in Seq(Values) /\ \A v \in Values : v \in Words
      BY ConstantsAssumption DEF Words
    <3> QED
      BY <3>1
  <2>2. /\ NC!Enter("api", args, "fill")
        /\ blocks' = IF args = <<>> THEN blocks ELSE blocks + 1
    BY <1>2 DEF NC!CallApi
  <2> QED
    BY <1>1, <2>1, <2>2, EnterCalls
<1>3. ASSUME NC!ScopeRaises PROVE CallInv'
  <2> DEFINE args == <<"file", "line", "ctx", "code", "function">>
  <2>1. args \in Seq(Words) /\ args # <<>>
    BY DEF Words
  <2>2. NC!Enter("raise", args, "fill") /\ blocks' = blocks + 1
    BY <1>3 DEF NC!ScopeRaises
  <2> HIDE DEF args
  <2> QED
    BY <1>1, <2>1, <2>2, EnterCalls
<1> QED
  BY <1>2, <1>3

LEMMA CallsGoOn ==
    ASSUME CallInv,
           \/ NC!Refuse \/ NC!Invoke \/ NC!CalleeEnds \/ NC!ListenerDone
           \/ NC!Unwound \/ NC!CalledBack
    PROVE  CallInv'
<1>1. CASE NC!Refuse
  BY <1>1, LeaveCalls DEF NC!Refuse, NC!At
<1>2. CASE NC!Invoke
  BY <1>2, InvokeCalls
<1>3. CASE NC!CalleeEnds
  BY <1>3, LeaveCalls DEF NC!CalleeEnds, NC!At
<1>4. CASE NC!ListenerDone
  BY <1>4, TurnCalls DEF NC!ListenerDone, NC!At
<1>5. CASE NC!Unwound
  BY <1>5, LeaveCalls DEF NC!Unwound, NC!At
<1>6. CASE NC!CalledBack
  BY <1>6, TurnCalls DEF NC!CalledBack, NC!At
<1> QED
  BY <1>1, <1>2, <1>3, <1>4, <1>5, <1>6

LEMMA FinalizersCall ==
    ASSUME CallInv, OpReady, FinalizersBegin \/ FinalizersEnd
    PROVE  CallInv'
<1>1. CASE FinalizersBegin
  <2>1. Ready
    BY <1>1 DEF FinalizersBegin, FS!Interrupted, FS!Idle, OpReady
  <2> QED
    BY <1>1, <2>1, PlainCalls DEF FinalizersBegin
<1>2. CASE FinalizersEnd
  BY <1>2, LeaveCalls DEF FinalizersEnd, NC!At
<1> QED
  BY <1>1, <1>2

LEMMA CallInvStep ==
    ASSUME CallInv, PhaseInv, OpReady, [Next]_vars
    PROVE  CallInv'
<1>1. ASSUME UNCHANGED callVars PROVE CallInv'
  BY <1>1 DEF callVars, CallInv, BlocksInv
<1>2. frames = <<>> => Ready
  BY DEF Ready
<1>3. CASE \/ \E n \in Names : Launch(n)
           \/ BeginLoad \/ CallScript \/ ScriptReturns \/ FileStep \/ FileDone
           \/ OthersAct \/ UNCHANGED vars
  BY <1>1, <1>3 DEF Launch, BeginLoad, CallScript, ScriptReturns, FileStep, FileDone,
     OthersAct, vars
<1>4. CASE CheckScript
  BY <1>1, <1>2, <1>4, FailCalls DEF CheckScript, PhaseInv
<1>5. CASE CreateDuktapeContext
  BY <1>1, <1>2, <1>5, FailCalls DEF CreateDuktapeContext, PhaseInv
<1>6. CASE LoadScript
  BY <1>1, <1>2, <1>6, FailCalls, DialogCalls DEF LoadScript, PhaseInv, Crash
<1>7. CASE ScriptThrows
  BY <1>2, <1>7, FailCalls, DialogCalls DEF ScriptThrows, AtBottom, Crash
<1>8. CASE HeapDestroyed \/ (\E c \in {0, 1} : Exit(c)) \/ Abort \/ DialogCloses \/ Killed
  BY <1>8, EndsCalls DEF HeapDestroyed, Exit, Abort, DialogCloses, Killed
<1>9. CASE ScriptCalls
  BY <1>1, <1>9, CallsOfScript DEF ScriptCalls
<1>10. CASE NativeStep
  BY <1>10, CallsGoOn DEF NativeStep
<1>11. CASE NativeCrash
  <2>1. Ready
    BY <1>11, ScriptReady DEF NativeCrash, Ready, NC!At, NC!Inner, NC!Last, Last
  <2> QED
    BY <1>11, <2>1, DialogCalls DEF NativeCrash, Crash
<1>12. CASE DialogUnwound
  BY <1>12, EndsCalls, TurnCalls DEF DialogUnwound, NC!At
<1>13. CASE FinalizersBegin \/ FinalizersEnd
  BY <1>13, FinalizersCall
<1> QED
  BY <1>3, <1>4, <1>5, <1>6, <1>7, <1>8, <1>9, <1>10, <1>11, <1>12, <1>13 DEF Next

LEMMA OpReadyStep ==
    ASSUME CallInv, PhaseInv, OpReady, [Next]_vars
    PROVE  OpReady'
<1>1. ASSUME UNCHANGED callVars, Ready PROVE OpReady'
  BY <1>1 DEF callVars, OpReady, Ready
<1>2. ASSUME UNCHANGED <<callVars, op>> PROVE OpReady'
  BY <1>2 DEF callVars, OpReady, Ready
<1>3. ASSUME NEW c, ProcessEnds(c) \/ Dialog(c) \/ Fail(c) PROVE OpReady'
  BY <1>3 DEF ProcessEnds, Dialog, Fail, OpReady
<1>4. CASE \/ \E n \in Names : Launch(n)
           \/ CallScript \/ ScriptReturns \/ UNCHANGED vars
  BY <1>2, <1>4 DEF Launch, CallScript, ScriptReturns, vars, fileVars
<1>5. CASE CheckScript \/ CreateDuktapeContext
  BY <1>2, <1>3, <1>5 DEF CheckScript, CreateDuktapeContext, fileVars
<1>6. CASE BeginLoad
  BY <1>1, <1>6 DEF BeginLoad, PhaseInv, Ready
<1>7. CASE LoadScript
  BY <1>3, <1>7 DEF LoadScript, Crash, OpReady
<1>8. CASE ScriptThrows \/ NativeCrash
  BY <1>3, <1>8 DEF ScriptThrows, NativeCrash, Crash
<1>9. CASE HeapDestroyed \/ (\E c \in {0, 1} : Exit(c)) \/ Abort \/ DialogCloses \/ Killed
  BY <1>3, <1>9 DEF HeapDestroyed, Exit, Abort, DialogCloses, Killed
<1>10. CASE ScriptCalls
  <2>1. op = FS!Idle /\ Ready
    BY <1>10, ScriptReady DEF ScriptCalls, ScriptRuns
  <2> QED
    BY <1>1, <1>10, <2>1 DEF ScriptCalls, fileVars, OpReady
<1>11. CASE FileStep
  <2>1. FS!FsStep => op.pc \in {"open", "read", "write", "list"}
    BY DEF FS!FsStep, FS!OpenFile, FS!ReadBytes, FS!WriteBytes, FS!ListEnds, FS!FindFile
  <2>2. op # FS!Idle
    BY <1>11, <2>1 DEF FileStep, FS!Idle
  <2> QED
    BY <1>1, <1>11, <2>2 DEF FileStep, OpReady
<1>12. CASE FileDone \/ FinalizersBegin
  BY <1>12 DEF FileDone, FS!Taken, FinalizersBegin, FS!Interrupted, OpReady
<1>13. CASE FinalizersEnd
  <2>1. frames # <<>> /\ frames' = Front(frames)
    BY <1>13 DEF FinalizersEnd, NC!At, NC!Leave, NC!Front, Front
  <2> QED
    BY <2>1, FramePopped DEF OpReady, Ready, CallInv
<1>14. CASE NativeStep
  BY <1>14 DEF NativeStep, fileVars, OpReady
<1>15. CASE DialogUnwound
  <2>1. CASE UNCHANGED fileVars /\ frames' = [frames EXCEPT ![Len(frames)].pc = "callee"]
    <3> DEFINE f == [NC!Inner EXCEPT !.pc = "callee"]
    <3>1. frames # <<>> /\ NC!Inner \in CallFrame /\ InOrder(NC!Inner)
          /\ NC!Inner = frames[Len(frames)]
      BY <1>15, InnerFrame DEF DialogUnwound, NC!At, CallInv
    <3>2. f \in CallFrame /\ f.pc = "callee" /\ InOrder(f)
      BY <3>1 DEF CallFrame, InOrder
    <3>3. frames' = [frames EXCEPT ![Len(frames)] = f]
      BY <2>1, <3>1
    <3> HIDE DEF f
    <3>4. Last(frames') = f
      BY <3>1, <3>2, <3>3, FrameMoved DEF CallInv
    <3> QED
      BY <3>2, <3>4 DEF OpReady, Ready
  <2> QED
    BY <1>3, <1>15, <2>1 DEF DialogUnwound
<1>16. CASE OthersAct
  <2>1. op # FS!Idle \/ op' = op
    BY <1>16 DEF OthersAct, FS!OthersAct, FS!Disturb, FS!Meanwhile, FS!Idle
  <2> QED
    BY <1>1, <1>2, <1>16, <2>1 DEF OthersAct, OpReady
<1> QED
  BY <1>4, <1>5, <1>6, <1>7, <1>8, <1>9, <1>10, <1>11, <1>12, <1>13, <1>14, <1>15, <1>16
  DEF Next

\* Only Dialog adds the dialog of a failure.
LEMMA KindsPushed ==
    ASSUME FramesInv(frames), NoDialog(frames), NEW kind, NEW args, NEW pc,
           kind # "dialog", NC!Enter(kind, args, pc)
    PROVE  NoDialog(frames')
<1> DEFINE f == [kind |-> kind, args |-> args, pc |-> pc, params |-> <<>>]
           n == Len(frames)
<1>1. /\ n \in Nat /\ DOMAIN frames = 1..n
      /\ frames' = Append(frames, f) /\ f.kind = kind
  BY DEF NC!Enter, FramesInv
<1> HIDE DEF f
<1>2. /\ DOMAIN frames' = 1..(n + 1) /\ frames'[n + 1] = f
      /\ \A i \in 1..n : frames'[i] = frames[i]
  BY <1>1 DEF FramesInv
<1> HIDE DEF n
<1>3. \A i \in 1..(n + 1) : i = n + 1 \/ i \in 1..n
  BY <1>1
<1> QED
  BY <1>1, <1>2, <1>3 DEF NoDialog

LEMMA KindsPopped ==
    ASSUME FramesInv(frames), frames # <<>>, NoDialog(frames), NC!Leave
    PROVE  NoDialog(frames')
<1> DEFINE n == Len(frames)
<1>1. /\ n \in Nat \ {0} /\ DOMAIN frames = 1..n /\ n - 1 \in Nat
      /\ \A i \in 1..(n - 1) : frames[i] \in CallFrame
      /\ frames' = SubSeq(frames, 1, n - 1)
  BY DEF FramesInv, NC!Leave, NC!Front
<1>2. /\ frames' \in Seq(CallFrame)
      /\ Len(frames') = IF 1 <= n - 1 THEN (n - 1) - 1 + 1 ELSE 0
      /\ \A i \in 1..((n - 1) - 1 + 1) : frames'[i] = frames[1 + i - 1]
  BY <1>1, SubSeqProperties
<1> HIDE DEF n
<1>3. DOMAIN frames' = 1..(n - 1) /\ \A i \in 1..(n - 1) : frames'[i] = frames[i]
  BY <1>1, <1>2
<1>4. \A i \in 1..(n - 1) : i \in 1..n
  BY <1>1
<1> QED
  BY <1>1, <1>3, <1>4 DEF NoDialog

LEMMA KindsMoved ==
    ASSUME FramesInv(frames), frames # <<>>, NoDialog(frames),
           NEW f, f.kind = NC!Inner.kind,
           frames' = [frames EXCEPT ![Len(frames)] = f]
    PROVE  NoDialog(frames')
BY InnerFrame DEF NoDialog, FramesInv

LEMMA KindsGoOn ==
    ASSUME CallInv, NoDialog(frames),
           \/ NC!Refuse \/ NC!Invoke \/ NC!CalleeEnds \/ NC!ListenerDone
           \/ NC!Unwound \/ NC!CalledBack
    PROVE  NoDialog(frames')
<1>1. FramesInv(frames) /\ frames # <<>>
  BY DEF CallInv, NC!Refuse, NC!Invoke, NC!CalleeEnds, NC!ListenerDone, NC!Unwound,
     NC!CalledBack, NC!At
<1>2. NC!Inner = frames[Len(frames)] /\ NC!Inner \in CallFrame
  BY <1>1, InnerFrame
<1>3. CASE NC!Refuse \/ NC!CalleeEnds \/ NC!Unwound
  BY <1>1, <1>3, KindsPopped DEF NC!Refuse, NC!CalleeEnds, NC!Unwound
<1>4. CASE NC!Invoke
  <2> DEFINE params == NC!Parameters(IF NC!Inner.kind = "api"
                          THEN NC!FilledFromEnd(NC!Inner.args)
                          ELSE NC!Expanded(NC!Inner.args))
             f == [NC!Inner EXCEPT !.pc = "callee", !.params = params]
  <2>1. frames' = [frames EXCEPT ![Len(frames)] = f]
    BY <1>2, <1>4 DEF NC!Invoke, NC!Called
  <2> HIDE DEF params
  <2>2. f.kind = NC!Inner.kind
    BY <1>2 DEF CallFrame
  <2> HIDE DEF f
  <2> QED
    BY <1>1, <2>1, <2>2, KindsMoved
<1>5. ASSUME NEW pc, frames' = [frames EXCEPT ![Len(frames)].pc = pc]
      PROVE  NoDialog(frames')
  <2> DEFINE f == [NC!Inner EXCEPT !.pc = pc]
  <2>1. frames' = [frames EXCEPT ![Len(frames)] = f] /\ f.kind = NC!Inner.kind
    BY <1>2, <1>5 DEF CallFrame
  <2> HIDE DEF f
  <2> QED
    BY <1>1, <2>1, KindsMoved
<1>6. CASE NC!ListenerDone \/ NC!CalledBack
  BY <1>5, <1>6 DEF NC!ListenerDone, NC!CalledBack
<1> QED
  BY <1>3, <1>4, <1>6

\* The dialog of a failure is on the screen only in a process that fails.
LEMMA InnerDialog ==
    ASSUME CallInv, PhaseInv, frames # <<>>, NC!Inner.kind = "dialog"
    PROVE  phase = "failing"
<1>1. Len(frames) \in DOMAIN frames /\ frames[Len(frames)].kind = "dialog"
  BY InnerFrame DEF CallInv
<1> QED
  BY <1>1 DEF PhaseInv, NoDialog

LEMMA EndsPhase == ASSUME NEW c, ProcessEnds(c) PROVE PhaseInv' /\ phase' = "off"
BY DEF ProcessEnds, PhaseInv, NoDialog

LEMMA FailPhase ==
    ASSUME NEW c, Fail(c) \/ Dialog(c) PROVE PhaseInv'
<1>1. CASE Dialog(c)
  BY <1>1 DEF Dialog, PhaseInv
<1> QED
  BY <1>1, EndsPhase DEF Fail

LEMMA PhaseInvStep ==
    ASSUME CallInv, PhaseInv, [Next]_vars
    PROVE  PhaseInv'
<1>1. CASE \/ \E n \in Names : Launch(n)
           \/ BeginLoad \/ CallScript \/ ScriptReturns \/ FileStep \/ FileDone
           \/ OthersAct \/ UNCHANGED vars
  BY <1>1 DEF Launch, BeginLoad, CallScript, ScriptReturns, AtBottom, FileStep, FileDone,
     OthersAct, vars, callVars, appVars, PhaseInv, NoDialog
<1>2. CASE CheckScript
  BY <1>2, FailPhase DEF CheckScript, PhaseInv, NoDialog, callVars
<1>3. CASE CreateDuktapeContext
  BY <1>3, FailPhase DEF CreateDuktapeContext, PhaseInv, NoDialog, callVars
<1>4. CASE LoadScript
  BY <1>4, FailPhase DEF LoadScript, Crash, PhaseInv, NoDialog, callVars
<1>5. CASE ScriptThrows \/ NativeCrash
  BY <1>5, FailPhase DEF ScriptThrows, NativeCrash, Crash
<1>6. CASE HeapDestroyed \/ (\E c \in {0, 1} : Exit(c)) \/ Abort \/ DialogCloses \/ Killed
  BY <1>6, EndsPhase DEF HeapDestroyed, Exit, Abort, DialogCloses, Killed
<1>7. CASE ScriptCalls
  <2>1. phase \notin {"off", "start", "context", "load", "loaded"}
    BY <1>7 DEF ScriptCalls, ScriptRuns, PhaseInv, NC!At
  <2>2. phase # "failing" => NoDialog(frames')
    <3> SUFFICES ASSUME phase # "failing" PROVE NoDialog(frames')
      OBVIOUS
    <3>1. CASE UNCHANGED callVars
      BY <3>1 DEF callVars, PhaseInv, NoDialog
    <3>2. ASSUME NEW args \in ArgLists, NC!CallApi(args) PROVE NoDialog(frames')
      BY <3>2, KindsPushed DEF NC!CallApi, PhaseInv, CallInv
    <3>3. CASE NC!ScopeRaises
      BY <3>3, KindsPushed DEF NC!ScopeRaises, PhaseInv, CallInv
    <3> QED
      BY <1>7, <3>1, <3>2, <3>3 DEF ScriptCalls
  <2> QED
    BY <1>7, <2>1, <2>2 DEF ScriptCalls, PhaseInv, appVars
<1>8. CASE NativeStep
  <2>1. phase \notin {"off", "start", "context", "load", "loaded"}
    BY <1>8 DEF NativeStep, PhaseInv, NC!Refuse, NC!Invoke, NC!CalleeEnds,
       NC!ListenerDone, NC!Unwound, NC!CalledBack, NC!At
  <2>2. phase # "failing" => NoDialog(frames')
    BY <1>8, KindsGoOn DEF NativeStep, PhaseInv
  <2> QED
    BY <1>8, <2>1, <2>2 DEF NativeStep, PhaseInv, appVars
<1>9. CASE DialogUnwound
  <2>1. phase = "failing"
    BY <1>9, InnerDialog DEF DialogUnwound, NC!At
  <2> QED
    BY <1>9, <2>1, EndsPhase DEF DialogUnwound, PhaseInv
<1>10. CASE FinalizersBegin
  BY <1>10, KindsPushed DEF FinalizersBegin, PhaseInv, CallInv, appVars
<1>11. CASE FinalizersEnd
  <2>1. phase \notin {"off", "start", "context", "load", "loaded"}
    BY <1>11 DEF FinalizersEnd, NC!At, PhaseInv
  <2> QED
    BY <1>11, <2>1, KindsPopped DEF FinalizersEnd, NC!At, PhaseInv, CallInv, appVars
<1> QED
  BY <1>1, <1>2, <1>3, <1>4, <1>5, <1>6, <1>7, <1>8, <1>9, <1>10, <1>11 DEF Next

---------------------------------------------------------------------------
(* The exit code *)

LEMMA FailOutcome ==
    ASSUME NEW c, c # 0, ~closed, Fail(c) \/ Dialog(c) PROVE OutcomeInv'
BY DEF Fail, Dialog, ProcessEnds, OutcomeInv, ExitTellsOutcome

LEMMA OutcomeInvStep ==
    ASSUME CallInv, PhaseInv, OutcomeInv, [Next]_vars
    PROVE  OutcomeInv'
<1>1. CASE \/ BeginLoad \/ CallScript \/ ScriptReturns \/ FileStep \/ FileDone
           \/ OthersAct \/ ScriptCalls \/ FinalizersBegin \/ FinalizersEnd
           \/ NativeStep \/ UNCHANGED vars
  BY <1>1 DEF BeginLoad, CallScript, ScriptReturns, AtBottom, FileStep, FileDone,
     OthersAct, ScriptCalls, FinalizersBegin, FinalizersEnd, NativeStep, vars, appVars, OutcomeInv, ExitTellsOutcome
<1>2. CASE \E n \in Names : Launch(n)
  BY <1>2 DEF Launch, OutcomeInv, ExitTellsOutcome
<1>3. CASE CheckScript
  BY <1>3, FailOutcome DEF CheckScript, OutcomeInv, ExitTellsOutcome
<1>4. CASE CreateDuktapeContext
  BY <1>4, FailOutcome DEF CreateDuktapeContext, Aborted, OutcomeInv, ExitTellsOutcome
<1>5. CASE LoadScript
  BY <1>5, FailOutcome DEF LoadScript, Crash, Unhandled, OutcomeInv, ExitTellsOutcome
<1>6. CASE ScriptThrows
  BY <1>6, FailOutcome DEF ScriptThrows, AtBottom, Crash, Unhandled, OutcomeInv
<1>7. CASE HeapDestroyed
  BY <1>7 DEF HeapDestroyed, ProcessEnds, OutcomeInv, ExitTellsOutcome
<1>8. CASE (\E c \in {0, 1} : Exit(c)) \/ Abort \/ Killed
  BY <1>8 DEF Exit, Abort, Killed, ProcessEnds, OutcomeInv, ExitTellsOutcome
<1>9. CASE NativeCrash
  <2>1. phase # "off"
    BY <1>9 DEF NativeCrash, ScriptRuns, PhaseInv, NC!At
  <2> QED
    BY <1>9, <2>1, FailOutcome DEF NativeCrash, Crash, Unhandled, OutcomeInv
<1>10. CASE DialogCloses \/ DialogUnwound
  <2>1. phase = "failing"
    BY <1>10, InnerDialog DEF DialogCloses, DialogUnwound, NC!At
  <2>2. told /\ code # 0 /\ ~closed
    BY <2>1 DEF OutcomeInv
  <2>3. CASE DialogCloses
    BY <2>2, <2>3 DEF DialogCloses, ProcessEnds, OutcomeInv, ExitTellsOutcome
  <2>4. CASE DialogUnwound
    <3>1. code' = -2 /\ -2 # 0 /\ UNCHANGED <<told, closed>>
      BY <2>4 DEF DialogUnwound, ProcessEnds, Unhandled
    <3> QED
      BY <2>2, <3>1 DEF OutcomeInv, ExitTellsOutcome
  <2> QED
    BY <1>10, <2>3, <2>4
<1> QED
  BY <1>1, <1>2, <1>3, <1>4, <1>5, <1>6, <1>7, <1>8, <1>9, <1>10 DEF Next

---------------------------------------------------------------------------
(* The theorems *)

IInv == CallInv /\ PhaseInv /\ OpReady /\ OutcomeInv

LEMMA IInvHolds == Spec => []IInv
<1>1. Init => IInv
  BY DEF Init, NC!NcInit, IInv, CallInv, FramesInv, BlocksInv, PhaseInv, NoDialog,
     OpReady, FS!FsInit, OutcomeInv, ExitTellsOutcome
<1>2. IInv /\ [Next]_vars => IInv'
  BY CallInvStep, PhaseInvStep, OpReadyStep, OutcomeInvStep DEF IInv
<1> QED
  BY <1>1, <1>2, PTL DEF Spec

\* Every procedure finds its arguments in order and in the form it expects
\* (NKWinAPI.cpp:63, Helper.cpp:241), for any arguments and any nesting.
THEOREM ParametersCorrect == Spec => []ParametersInOrder
<1>1. IInv => ParametersInOrder
  BY DEF IInv, CallInv, FramesInv, InOrder, ParametersInOrder, NC!ParametersInOrder
<1> QED
  BY <1>1, IInvHolds, PTL

\* The argument arrays alive are those of calls that have not begun
\* (NKWinAPI.cpp:92, Helper.cpp:241), however procedures and listeners end.
THEOREM BlocksAreFreed == Spec => []BlocksFreed
<1>1. ASSUME IInv PROVE BlocksFreed
  <2> DEFINE filling == {i \in DOMAIN frames : frames[i].pc = "fill" /\ frames[i].args # <<>>}
  <2>1. filling \subseteq {Len(frames)}
    BY <1>1 DEF IInv, CallInv, FramesInv
  <2>2. CASE frames # <<>> /\ Filling(Last(frames))
    <3>1. Len(frames) \in DOMAIN frames /\ Last(frames) = frames[Len(frames)]
      BY <1>1, <2>2, InnerFrame DEF IInv, CallInv
    <3>2. filling = {Len(frames)}
      BY <2>1, <2>2, <3>1 DEF Filling
    <3>3. Cardinality(filling) = 1
      BY <3>2, FS_Singleton
    <3> QED
      BY <1>1, <2>2, <3>3 DEF IInv, CallInv, BlocksInv, BlocksFreed, NC!BlocksFreed,
         NC!Cardinality, Cardinality
  <2>3. CASE ~(frames # <<>> /\ Filling(Last(frames)))
    <3>1. Len(frames) \notin filling
      BY <2>3 DEF Filling, Last
    <3>2. filling = {}
      BY <2>1, <3>1
    <3>3. Cardinality(filling) = 0
      BY <3>2, FS_EmptySet
    <3> QED
      BY <1>1, <2>3, <3>3 DEF IInv, CallInv, BlocksInv, BlocksFreed, NC!BlocksFreed,
         NC!Cardinality, Cardinality
  <2> QED
    BY <2>2, <2>3
<1> QED
  BY <1>1, IInvHolds, PTL

\* A process that nobody ended exits with 0 exactly when its heap was destroyed
\* (NekoScript.cpp:85), and with anything else after it printed what went wrong or
\* asked the system to show it.
THEOREM ExitIsTrue == Spec => []ExitTellsOutcome
<1>1. IInv => ExitTellsOutcome
  BY DEF IInv, OutcomeInv
<1> QED
  BY <1>1, IInvHolds, PTL
===========================================================================
