------------------------- MODULE TaskDialogProofs -------------------------
(***************************************************************************)
(* Proofs about TaskDialog: any number of dialogs, configurations and calls *)
(* under way.                                                              *)
(***************************************************************************)
EXTENDS TaskDialog, SequenceTheorems, TLAPS

---------------------------------------------------------------------------
(* Frames and stacks *)

\* The kinds of frames, and what each has.
LEMMA FrameKinds ==
    ASSUME NEW f \in Frame
    PROVE  /\ f.kind \in {"show", "navigate", "listener", "modal"}
           /\ f.kind = "show" =>
                 /\ f \in [kind : {"show"}, d : Dialogs, cfg : Configs,
                           pc : Reading \cup {"open", "constructed", "loop", "destroyed"}]
                 /\ f.d \in Dialogs /\ f.cfg \in Configs
                 /\ f.pc \in Reading \cup {"open", "constructed", "loop", "destroyed"}
           /\ f.kind = "navigate" =>
                 /\ f \in [kind : {"navigate"}, d : Dialogs, cfg : Configs,
                           pc : Reading \cup {"send", "constructed", "navigated"}]
                 /\ f.d \in Dialogs /\ f.cfg \in Configs
                 /\ f.pc \in Reading \cup {"send", "constructed", "navigated"}
           /\ f.kind = "listener" =>
                 /\ f \in ListenerFrame
                 /\ f.d \in Dialogs /\ f.this \in Dialogs /\ f.pc = "listener"
                 /\ f.asked \in BOOLEAN /\ f.again \in BOOLEAN
                 /\ f.note \in {"click", "other"}
           /\ f.kind = "modal" => f \in ModalFrame /\ f.pc = "modal"
<1>1. CASE f \in CallFrame
  BY <1>1 DEF CallFrame
<1>2. CASE f \in ListenerFrame
  BY <1>2 DEF ListenerFrame
<1>3. CASE f \in ModalFrame
  BY <1>3 DEF ModalFrame
<1> QED
  BY <1>1, <1>2, <1>3 DEF Frame

\* A frame of a call at another program counter.
LEMMA GotoFrame ==
    ASSUME NEW f \in Frame, NEW pc,
           \/ f.kind = "show" /\ pc \in Reading \cup {"open", "constructed", "loop", "destroyed"}
           \/ f.kind = "navigate" /\ pc \in Reading \cup {"send", "constructed", "navigated"}
    PROVE  /\ [f EXCEPT !.pc = pc] \in Frame
           /\ [f EXCEPT !.pc = pc].pc = pc
           /\ [f EXCEPT !.pc = pc].kind = f.kind
           /\ [f EXCEPT !.pc = pc].d = f.d
           /\ [f EXCEPT !.pc = pc].cfg = f.cfg
<1>1. CASE f.kind = "show"
  BY <1>1, FrameKinds DEF Frame, CallFrame
<1>2. CASE f.kind = "navigate"
  BY <1>2, FrameKinds DEF Frame, CallFrame
<1> QED
  BY <1>1, <1>2

\* A listener that preventClose or another click finds under way.
LEMMA MarkedFrame ==
    ASSUME NEW f \in Frame, f.kind = "listener"
    PROVE  /\ [f EXCEPT !.asked = TRUE] \in Frame
           /\ [f EXCEPT !.again = TRUE] \in Frame
           /\ \A g \in {[f EXCEPT !.asked = TRUE], [f EXCEPT !.again = TRUE]} :
                 g.kind = f.kind /\ g.pc = f.pc /\ g.d = f.d /\ g.note = f.note
           /\ [f EXCEPT !.asked = TRUE].asked = TRUE
           /\ [f EXCEPT !.asked = TRUE].again = f.again
           /\ [f EXCEPT !.again = TRUE].again = TRUE
           /\ [f EXCEPT !.again = TRUE].asked = f.asked
<1>1. f \in ListenerFrame
  BY FrameKinds
<1> QED
  BY <1>1 DEF Frame, ListenerFrame

\* The frames that are pushed.
LEMMA NewFrames ==
    /\ \A kind \in {"show", "navigate"}, d \in Dialogs, cfg \in Configs :
          Call(kind, d, cfg) \in Frame
    /\ \A d, this \in Dialogs, note \in {"click", "other"}, i \in Nat, arg \in Int :
          Listener(d, note, this, i, arg) \in Frame
    /\ [kind |-> "modal", pc |-> "modal"] \in Frame
BY DEF Frame, CallFrame, ListenerFrame, ModalFrame, Call, Listener, Reading

LEMMA TopFrame ==
    ASSUME NEW st \in Seq(Frame), st # <<>>
    PROVE  /\ Len(st) \in Nat \ {0}
           /\ Last(st) = st[Len(st)]
           /\ Last(st) \in Frame
BY DEF Last

\* All of a sequence but its last element.
LEMMA FrontOf ==
    ASSUME NEW S, NEW st \in Seq(S), st # <<>>
    PROVE  /\ Front(st) \in Seq(S)
           /\ Len(Front(st)) = Len(st) - 1
           /\ \A i \in 1..(Len(st) - 1) : Front(st)[i] = st[i]
<1> DEFINE n == Len(st) - 1
           f == SubSeq(st, 1, n)
<1>1. n \in Nat /\ n = Len(st) - 1
  OBVIOUS
<1>2. \A i \in 1..n : st[i] \in S
  BY <1>1
<1> HIDE DEF n
<1>3. /\ f \in Seq(S)
      /\ Len(f) = IF 1 <= n THEN n - 1 + 1 ELSE 0
      /\ \A i \in 1..(n - 1 + 1) : f[i] = st[1 + i - 1]
  BY <1>1, <1>2, SubSeqProperties
<1>4. Front(st) = f
  BY DEF Front, n
<1> HIDE DEF f
<1>5. Len(f) = n
  BY <1>1, <1>3
<1>6. ASSUME NEW i \in 1..n PROVE f[i] = st[i]
  <2>1. i \in 1..(n - 1 + 1) /\ 1 + i - 1 = i
    BY <1>1
  <2> QED
    BY <2>1, <1>3
<1> QED
  BY <1>1, <1>3, <1>4, <1>5, <1>6

LEMMA FrontStack ==
    ASSUME NEW st \in Seq(Frame), st # <<>>
    PROVE  /\ Front(st) \in Seq(Frame)
           /\ Len(Front(st)) = Len(st) - 1
           /\ \A i \in 1..(Len(st) - 1) : Front(st)[i] = st[i]
BY FrontOf

\* Front of the empty stack is the empty stack.
LEMMA FrontFront ==
    ASSUME NEW st \in Seq(Frame)
    PROVE  Front(st) \in Seq(Frame)
<1>1. CASE st = <<>>
  <2>1. Front(st) = SubSeq(<<>>, 1, -1)
    BY <1>1 DEF Front
  <2>2. SubSeq(<<>>, 1, -1) = <<>>
    OBVIOUS
  <2> QED
    BY <2>1, <2>2
<1>2. CASE st # <<>>
  BY <1>2, FrontStack
<1> QED
  BY <1>1, <1>2

\* The innermost call at another program counter; the others stay.
LEMMA GotoStack ==
    ASSUME stack \in Seq(Frame), stack # <<>>, NEW pc,
           \/ Top.kind = "show" /\ pc \in Reading \cup {"open", "constructed", "loop", "destroyed"}
           \/ Top.kind = "navigate" /\ pc \in Reading \cup {"send", "constructed", "navigated"}
    PROVE  /\ Goto(pc) \in Seq(Frame) /\ Goto(pc) # <<>>
           /\ Len(Goto(pc)) = Len(stack)
           /\ \A i \in 1..(Len(stack) - 1) : Goto(pc)[i] = stack[i]
           /\ Goto(pc)[Len(stack)] = [Top EXCEPT !.pc = pc]
           /\ Last(Goto(pc)) = [Top EXCEPT !.pc = pc]
<1>1. /\ Len(stack) \in Nat \ {0} /\ Top = stack[Len(stack)] /\ Top \in Frame
  BY TopFrame DEF Top
<1>2. [Top EXCEPT !.pc = pc] \in Frame
  BY <1>1, GotoFrame
<1>3. Goto(pc) = [stack EXCEPT ![Len(stack)] = [Top EXCEPT !.pc = pc]]
  BY <1>1 DEF Goto
<1>4. Goto(pc) \in Seq(Frame) /\ Len(Goto(pc)) = Len(stack)
  BY <1>1, <1>2, <1>3
<1> QED
  BY <1>1, <1>3, <1>4 DEF Last

LEMMA PushStack ==
    ASSUME NEW st \in Seq(Frame), NEW f \in Frame
    PROVE  /\ Append(st, f) \in Seq(Frame) /\ Append(st, f) # <<>>
           /\ Len(Append(st, f)) = Len(st) + 1
           /\ Len(st) \in Nat
           /\ \A i \in 1..Len(st) : Append(st, f)[i] = st[i]
           /\ Append(st, f)[Len(st) + 1] = f
OBVIOUS

\* A program counter tells the call.
LEMMA TopCall ==
    ASSUME stack \in Seq(Frame), stack # <<>>,
           Top.pc \in Reading \cup {"open", "send", "constructed", "loop", "destroyed", "navigated"}
    PROVE  /\ Top \in Frame
           /\ Top.kind \in {"show", "navigate"}
           /\ Top.d \in Dialogs /\ Top.cfg \in Configs
           /\ Top.pc \in {"open", "loop", "destroyed"} => Top.kind = "show"
           /\ Top.pc \in {"send", "navigated"} => Top.kind = "navigate"
<1>1. Top \in Frame
  BY TopFrame DEF Top
<1>2. Top.pc \notin {"listener", "modal"}
  BY DEF Reading
<1> QED
  BY <1>1, <1>2, FrameKinds DEF Reading

\* What becomes of the calls when an event is emitted.
LEMMA EmitStack ==
    ASSUME stack \in Seq(Frame), stack # <<>>,
           NEW st, NEW d, NEW note, NEW index, NEW arg,
           Emit(st, d, note, index, arg)
    PROVE  \/ stack' = st /\ fault' = "exception"
           \/ stack' = Front(st) /\ fault' = fault
           \/ /\ \E this \in Dialogs : stack' = Append(st, Listener(d, note, this, index, arg))
              /\ fault' = fault
<1>1. CASE CurrentThis = None
  BY <1>1 DEF Emit, Escape
<1>2. CASE CurrentThis # None
  <2>1. Top \in Frame
    BY TopFrame DEF Top
  <2>2. CurrentThis \in Dialogs
    BY <2>1, <1>2, FrameKinds DEF CurrentThis
  <2> QED
    BY <1>2, <2>2 DEF Emit, Push
<1> QED
  BY <1>1, <1>2

LEMMA MappedStack ==
    ASSUME NEW st \in Seq(Frame), NEW g \in [1..Len(st) -> Frame]
    PROVE  g \in Seq(Frame) /\ Len(g) = Len(st)
OBVIOUS

\* Clicks under way are marked; nothing else about the stack changes.
LEMMA ClickedAgainStack ==
    ASSUME stack \in Seq(Frame), NEW d
    PROVE  /\ ClickedAgain(d) \in Seq(Frame)
           /\ Len(ClickedAgain(d)) = Len(stack)
           /\ \A i \in 1..Len(stack) :
                 ClickedAgain(d)[i] = IF stack[i].kind = "listener" /\ stack[i].d = d
                                      THEN [stack[i] EXCEPT !.again = TRUE] ELSE stack[i]
<1>1. Len(stack) \in Nat /\ DOMAIN stack = 1..Len(stack)
  OBVIOUS
<1>2. ASSUME NEW i \in 1..Len(stack)
      PROVE  (IF stack[i].kind = "listener" /\ stack[i].d = d
              THEN [stack[i] EXCEPT !.again = TRUE] ELSE stack[i]) \in Frame
  <2>1. stack[i] \in Frame
    BY <1>1
  <2>2. stack[i].kind = "listener" => [stack[i] EXCEPT !.again = TRUE] \in Frame
    BY <2>1, MarkedFrame
  <2> QED
    BY <2>1, <2>2, Zenon
<1>3. ClickedAgain(d) \in [1..Len(stack) -> Frame]
  BY <1>1, <1>2 DEF ClickedAgain
<1>4. ClickedAgain(d) \in Seq(Frame) /\ Len(ClickedAgain(d)) = Len(stack)
  BY <1>3, MappedStack
<1>5. ASSUME NEW i \in 1..Len(stack)
      PROVE  ClickedAgain(d)[i] = IF stack[i].kind = "listener" /\ stack[i].d = d
                                  THEN [stack[i] EXCEPT !.again = TRUE] ELSE stack[i]
  BY <1>1, Zenon DEF ClickedAgain
<1> QED
  BY <1>4, <1>5

LEMMA AskedStack ==
    ASSUME stack \in Seq(Frame), NEW d
    PROVE  /\ Asked(d) \in Seq(Frame)
           /\ Len(Asked(d)) = Len(stack)
           /\ \A i \in 1..Len(stack) :
                 Asked(d)[i] = IF stack[i].kind = "listener" /\ stack[i].d = d
                                      THEN [stack[i] EXCEPT !.asked = TRUE] ELSE stack[i]
<1>1. Len(stack) \in Nat /\ DOMAIN stack = 1..Len(stack)
  OBVIOUS
<1>2. ASSUME NEW i \in 1..Len(stack)
      PROVE  (IF stack[i].kind = "listener" /\ stack[i].d = d
              THEN [stack[i] EXCEPT !.asked = TRUE] ELSE stack[i]) \in Frame
  <2>1. stack[i] \in Frame
    BY <1>1
  <2>2. stack[i].kind = "listener" => [stack[i] EXCEPT !.asked = TRUE] \in Frame
    BY <2>1, MarkedFrame
  <2> QED
    BY <2>1, <2>2, Zenon
<1>3. Asked(d) \in [1..Len(stack) -> Frame]
  BY <1>1, <1>2 DEF Asked
<1>4. Asked(d) \in Seq(Frame) /\ Len(Asked(d)) = Len(stack)
  BY <1>3, MappedStack
<1>5. ASSUME NEW i \in 1..Len(stack)
      PROVE  Asked(d)[i] = IF stack[i].kind = "listener" /\ stack[i].d = d
                                  THEN [stack[i] EXCEPT !.asked = TRUE] ELSE stack[i]
  BY <1>1, Zenon DEF Asked
<1> QED
  BY <1>4, <1>5

---------------------------------------------------------------------------
(* The type invariant *)

\* Destroyed counts a window down, so TypeOK alone is not inductive.
Typing == TypeOK /\ \A d \in Dialogs : ending[d] => windows[d] > 0

\* The types of everything but the calls under way.
FieldsTyped ==
    /\ hwnd \in [Dialogs -> BOOLEAN] /\ preventClose \in [Dialogs -> BOOLEAN]
    /\ radiosRt \in [Dialogs -> BOOLEAN] /\ ending \in [Dialogs -> BOOLEAN]
    /\ gone \in [Dialogs -> BOOLEAN]
    /\ buttonsRt \in [Dialogs -> {None} \cup Seq(Nat)]
    /\ tdc \in [Dialogs -> [buttons : Nat, radios : Nat]]
    /\ windows \in [Dialogs -> Nat]
    /\ page \in [Dialogs -> Seq(Nat)]
    /\ \A d \in Dialogs : ending[d] => windows[d] > 0

LEMMA TypingParts ==
    Typing <=> /\ FieldsTyped
               /\ stack \in Seq(Frame)
               /\ fault \in {None, "array", "exception", "dangling"}
BY DEF Typing, TypeOK, FieldsTyped

\* What Emit leaves when the event is that of the call on top.
LEMMA EmitTyped ==
    ASSUME stack \in Seq(Frame), stack # <<>>,
           fault \in {None, "array", "exception", "dangling"},
           NEW st \in Seq(Frame), st # <<>>,
           NEW d \in Dialogs, NEW note \in {"click", "other"},
           NEW index \in Nat, NEW arg \in Int,
           Emit(st, d, note, index, arg)
    PROVE  /\ stack' \in Seq(Frame)
           /\ fault' \in {None, "array", "exception", "dangling"}
<1>1. Front(st) \in Seq(Frame)
  BY FrontStack
<1>2. ASSUME NEW this \in Dialogs
      PROVE  Append(st, Listener(d, note, this, index, arg)) \in Seq(Frame)
  <2>1. Listener(d, note, this, index, arg) \in Frame
    BY NewFrames
  <2> QED
    BY <2>1, PushStack
<1>3. \/ stack' = st /\ fault' = "exception"
      \/ stack' = Front(st) /\ fault' = fault
      \/ \E this \in Dialogs : /\ stack' = Append(st, Listener(d, note, this, index, arg))
                               /\ fault' = fault
  BY EmitStack
<1> QED
  BY <1>1, <1>2, <1>3, Zenon

LEMMA StackTyped ==
    ASSUME Typing, [Next]_vars
    PROVE  /\ stack' \in Seq(Frame)
           /\ fault' \in {None, "array", "exception", "dangling"}
<1>0. /\ FieldsTyped /\ stack \in Seq(Frame)
      /\ fault \in {None, "array", "exception", "dangling"}
  BY TypingParts
<1> USE <1>0
<1>1. ASSUME NEW d \in Dialogs, NEW cfg \in Configs, Show(d, cfg) \/ Navigate(d, cfg)
      PROVE  stack' \in Seq(Frame) /\ fault' = fault
  <2>1. PICK kind \in {"show", "navigate"} : EnterConfig(kind, d, cfg)
    BY <1>1 DEF Show, Navigate
  <2> QED
    BY <2>1, NewFrames, PushStack DEF EnterConfig, Push
<1>2. ASSUME NEW d \in Dialogs, PreventClose(d)
      PROVE  stack' \in Seq(Frame) /\ fault' = fault
  BY <1>2, AskedStack DEF PreventClose
<1>3. ASSUME OpenModal PROVE stack' \in Seq(Frame) /\ fault' = fault
  BY <1>3, NewFrames, PushStack DEF OpenModal, Push
<1>4. ASSUME AllocButtons \/ FillButtons \/ FillRadios
      PROVE  stack' \in Seq(Frame) /\ fault' = fault
  <2>1. /\ stack # <<>> /\ fault' = fault
        /\ Top.pc \in Reading
        /\ \E pc \in {"buttons", "radios"} \cup {IF Top.kind = "show" THEN "open" ELSE "send"} :
              stack' = Goto(pc)
    BY <1>4 DEF AllocButtons, FillButtons, FillRadios, AtCall, Reading
  <2>2. Top.kind \in {"show", "navigate"}
    BY <2>1, TopCall
  <2>3. PICK pc : /\ stack' = Goto(pc)
                  /\ \/ Top.kind = "show" /\ pc \in {"buttons", "radios", "open"}
                     \/ Top.kind = "navigate" /\ pc \in {"buttons", "radios", "send"}
    BY <2>1, <2>2
  <2> QED
    BY <2>1, <2>3, GotoStack DEF Reading
<1>5. ASSUME ArrayFault \/ (\E d \in Dialogs : DanglingCallback(d))
      PROVE  stack' = stack /\ fault' \in {"array", "dangling"}
  BY <1>5 DEF ArrayFault, DanglingCallback, Broken
<1>6. ASSUME ConfigThrows \/ SystemFails \/ CallReturns \/ CloseModal \/ ListenersReturn
      PROVE  stack' \in Seq(Frame) /\ fault' = fault
  <2>1. stack # <<>> /\ stack' = Front(stack) /\ fault' = fault
    BY <1>6 DEF ConfigThrows, SystemFails, CallReturns, CloseModal, ListenersReturn,
                HandedOver, AtCall, At
  <2> QED
    BY <2>1, FrontStack
<1>7. ASSUME DialogConstructed \/ Created \/ Navigated \/ Destroyed
      PROVE  /\ stack' \in Seq(Frame)
             /\ fault' \in {None, "array", "exception", "dangling"}
  <2>1. stack # <<>> /\ Top.pc \in {"open", "send", "constructed", "loop"}
    BY <1>7 DEF DialogConstructed, Created, Navigated, Destroyed, HandedOver, AtCall, At
  <2>2. /\ Top.kind \in {"show", "navigate"} /\ Top.d \in Dialogs
        /\ Top.pc = "open" => Top.kind = "show"
        /\ Top.pc = "send" => Top.kind = "navigate"
    BY <2>1, TopCall
  <2>3. PICK pc : /\ Emit(Goto(pc), Top.d, "other", 0, 0)
                  /\ \/ Top.kind = "show" /\ pc \in {"constructed", "loop", "destroyed"}
                     \/ Top.kind = "navigate" /\ pc \in {"constructed", "navigated"}
    BY <1>7, <2>2 DEF DialogConstructed, Created, Navigated, Destroyed, At
  <2>4. Goto(pc) \in Seq(Frame) /\ Goto(pc) # <<>>
    BY <2>1, <2>3, GotoStack
  <2> QED
    BY <2>1, <2>2, <2>3, <2>4, EmitTyped
<1>8. ASSUME NEW d \in Dialogs, NEW i \in 0..Len(page[d]), ButtonClicked(d, i)
      PROVE  /\ stack' \in Seq(Frame)
             /\ fault' \in {None, "array", "exception", "dangling"}
  <2> DEFINE arg == IF i = 0 THEN 0 ELSE page[d][i] - 1000
  <2>1. page[d] \in Seq(Nat)
    BY DEF FieldsTyped
  <2>2. arg \in Int /\ i \in Nat
    BY <2>1
  <2>3. stack # <<>> /\ Emit(ClickedAgain(d), d, "click", i, arg)
    BY <1>8 DEF ButtonClicked, Reports, Pumping
  <2>4. ClickedAgain(d) \in Seq(Frame) /\ Len(ClickedAgain(d)) = Len(stack)
    BY ClickedAgainStack
  <2>5. ClickedAgain(d) # <<>>
    BY <2>3, <2>4
  <2> HIDE DEF arg
  <2> QED
    BY <2>2, <2>3, <2>4, <2>5, EmitTyped
<1>9. ASSUME NEW d \in Dialogs, OtherNotification(d)
      PROVE  /\ stack' \in Seq(Frame)
             /\ fault' \in {None, "array", "exception", "dangling"}
  BY <1>9, EmitTyped DEF OtherNotification, Reports, Pumping
<1>10. ASSUME ListenerThrows
       PROVE  /\ stack' \in Seq(Frame)
              /\ fault' \in {None, "array", "exception", "dangling"}
  <2>1. stack # <<>> /\ Front(stack) \in Seq(Frame)
    BY <1>10, FrontStack DEF ListenerThrows
  <2>2. Front(Front(stack)) \in Seq(Frame)
    BY <2>1, FrontFront
  <2> QED
    BY <1>10, <2>1, <2>2 DEF ListenerThrows, Escape
<1>11. ASSUME (\E d \in Dialogs : Finalize(d)) \/ Ended \/ UNCHANGED vars
       PROVE  stack' = stack /\ fault' = fault
  BY <1>11 DEF Finalize, Ended, vars
<1> QED
  BY <1>1, <1>2, <1>3, <1>4, <1>5, <1>6, <1>7, <1>8, <1>9, <1>10, <1>11
     DEF Next, ScriptCalls, ConfigStep, SystemStep, UserActs

\* The arrays of a configuration.
LEMMA NumberedArray ==
    ASSUME NEW array \in {None} \cup Seq(Nat), NEW n \in Nat, n # 0,
           NEW base \in Nat, Holds(array, n)
    PROVE  Numbered(array, n, base) \in Seq(Nat)
<1>1. array \in Seq(Nat)
  BY DEF Holds
<1>2. ASSUME NEW i \in 1..Len(array)
      PROVE  (IF i <= n THEN base + i - 1 ELSE array[i]) \in Nat
  BY <1>1
<1>3. Numbered(array, n, base) \in [1..Len(array) -> Nat]
  BY <1>1, <1>2 DEF Numbered
<1> QED
  BY <1>1, <1>3

\* The updates of CreateConfig.
Filled(f, d, n, base) == [f EXCEPT ![d] = Numbered(f[d], n, base)]

CountSet(f, d, field, n) ==
    [f EXCEPT ![d] = IF field = "buttons" THEN [f[d] EXCEPT !.buttons = n]
                     ELSE [f[d] EXCEPT !.radios = n]]

LEMMA ArraysFilled ==
    ASSUME NEW f \in [Dialogs -> {None} \cup Seq(Nat)], NEW d \in Dialogs,
           NEW n \in Nat, n # 0, NEW base \in Nat, Holds(f[d], n)
    PROVE  Filled(f, d, n, base) \in [Dialogs -> {None} \cup Seq(Nat)]
<1>1. f[d] \in {None} \cup Seq(Nat)
  OBVIOUS
<1>2. Numbered(f[d], n, base) \in Seq(Nat)
  BY <1>1, NumberedArray
<1> QED
  BY <1>2 DEF Filled

LEMMA CountsSet ==
    ASSUME NEW f \in [Dialogs -> [buttons : Nat, radios : Nat]], NEW d \in Dialogs,
           NEW n \in Nat, NEW field
    PROVE  CountSet(f, d, field, n) \in [Dialogs -> [buttons : Nat, radios : Nat]]
<1>1. f[d] \in [buttons : Nat, radios : Nat]
  OBVIOUS
<1>2. /\ [f[d] EXCEPT !.buttons = n] \in [buttons : Nat, radios : Nat]
      /\ [f[d] EXCEPT !.radios = n] \in [buttons : Nat, radios : Nat]
  BY <1>1
<1> QED
  BY <1>2 DEF CountSet

LEMMA FreshArray ==
    ASSUME NEW n \in Nat
    PROVE  [i \in 1..n |-> 0] \in Seq(Nat)
OBVIOUS

\* The identifiers the window is given.
LEMMA PageArray ==
    ASSUME NEW array \in {None} \cup Seq(Nat), NEW n \in Nat, n # 0, Holds(array, n)
    PROVE  SubSeq(array, 1, n) \in Seq(Nat)
<1>1. array \in Seq(Nat) /\ n <= Len(array)
  BY DEF Holds
<1>2. \A i \in 1..n : array[i] \in Nat
  BY <1>1
<1> QED
  BY <1>2, SubSeqProperties

LEMMA FieldsTypedStep ==
    ASSUME Typing, [Next]_vars
    PROVE  FieldsTyped'
<1>0. FieldsTyped /\ stack \in Seq(Frame)
  BY TypingParts
<1> USE <1>0
<1>1. ASSUME NEW d \in Dialogs, NEW cfg \in Configs, Show(d, cfg) \/ Navigate(d, cfg)
      PROVE  FieldsTyped'
  <2>1. PICK kind \in {"show", "navigate"} : EnterConfig(kind, d, cfg)
    BY <1>1 DEF Show, Navigate
  <2> QED
    BY <2>1 DEF EnterConfig, system, FieldsTyped
<1>2. ASSUME NEW d \in Dialogs, PreventClose(d) PROVE FieldsTyped'
  BY <1>2 DEF PreventClose, system, FieldsTyped
<1>3. ASSUME AllocButtons PROVE FieldsTyped'
  <2>1. Top.d \in Dialogs /\ Top.cfg \in Configs
    BY <1>3, TopCall DEF AllocButtons, AtCall, Reading
  <2>2. Top.cfg.buttons = None \/ Top.cfg.buttons \in Nat
    BY <2>1, ConstantsAssumption
  <2>3. Top.cfg.buttons # None => [i \in 1..Top.cfg.buttons |-> 0] \in Seq(Nat)
    BY <2>2, FreshArray
  <2>4. buttonsRt' \in [Dialogs -> {None} \cup Seq(Nat)]
    BY <1>3, <2>1, <2>3 DEF AllocButtons, FieldsTyped
  <2> QED
    BY <1>3, <2>4 DEF AllocButtons, system, FieldsTyped
<1>4. ASSUME FillButtons PROVE FieldsTyped'
  <2> DEFINE d == Top.d  n == Top.cfg.buttons
  <2>1. d \in Dialogs /\ Top.cfg \in Configs
    BY <1>4, TopCall DEF FillButtons, AtCall, Reading
  <2>2. n = None \/ n \in Nat
    BY <2>1, ConstantsAssumption
  <2>3. /\ buttonsRt \in [Dialogs -> {None} \cup Seq(Nat)]
        /\ tdc \in [Dialogs -> [buttons : Nat, radios : Nat]]
    BY DEF FieldsTyped
  <2>4. \/ buttonsRt' = buttonsRt
        \/ /\ n \in Nat /\ n # 0 /\ Holds(buttonsRt[d], n)
           /\ buttonsRt' = Filled(buttonsRt, d, n, 1000)
    BY <1>4, <2>2 DEF FillButtons, Filled
  <2>5. \/ tdc' = tdc
        \/ n \in Nat /\ tdc' = CountSet(tdc, d, "buttons", n)
    BY <1>4, <2>2 DEF FillButtons, CountSet
  <2>6. buttonsRt' \in [Dialogs -> {None} \cup Seq(Nat)]
    BY <2>1, <2>3, <2>4, ArraysFilled
  <2>7. tdc' \in [Dialogs -> [buttons : Nat, radios : Nat]]
    <3>1. n \in Nat => CountSet(tdc, d, "buttons", n) \in [Dialogs -> [buttons : Nat, radios : Nat]]
      <4> SUFFICES ASSUME n \in Nat
                   PROVE  CountSet(tdc, d, "buttons", n) \in [Dialogs -> [buttons : Nat, radios : Nat]]
        OBVIOUS
      <4> QED
        BY <2>1, <2>3, CountsSet
    <3> QED
      BY <2>3, <2>5, <3>1
  <2>8. radiosRt' = [radiosRt EXCEPT ![d] = radiosRt[d] \/ Top.cfg.radios # None]
    BY <1>4 DEF FillButtons
  <2>9. radiosRt' \in [Dialogs -> BOOLEAN]
    BY <2>1, <2>8 DEF FieldsTyped
  <2>10. UNCHANGED <<hwnd, preventClose, windows, ending, page, gone>>
    BY <1>4 DEF FillButtons, system
  <2> QED
    BY <2>6, <2>7, <2>9, <2>10 DEF FieldsTyped
<1>5. ASSUME FillRadios PROVE FieldsTyped'
  <2> DEFINE d == Top.d  n == Top.cfg.radios
  <2>1. d \in Dialogs /\ Top.cfg \in Configs
    BY <1>5, TopCall DEF FillRadios, AtCall, Reading
  <2>2. n = None \/ n \in Nat
    BY <2>1, ConstantsAssumption
  <2>3. /\ buttonsRt \in [Dialogs -> {None} \cup Seq(Nat)]
        /\ tdc \in [Dialogs -> [buttons : Nat, radios : Nat]]
    BY DEF FieldsTyped
  <2>4. \/ buttonsRt' = buttonsRt
        \/ /\ n \in Nat /\ n # 0 /\ Holds(buttonsRt[d], n)
           /\ buttonsRt' = Filled(buttonsRt, d, n, 2000)
    BY <1>5, <2>2 DEF FillRadios, Filled
  <2>5. \/ tdc' = tdc
        \/ n \in Nat /\ tdc' = CountSet(tdc, d, "radios", n)
    BY <1>5, <2>2 DEF FillRadios, CountSet
  <2>6. buttonsRt' \in [Dialogs -> {None} \cup Seq(Nat)]
    BY <2>1, <2>3, <2>4, ArraysFilled
  <2>7. tdc' \in [Dialogs -> [buttons : Nat, radios : Nat]]
    <3>1. n \in Nat => CountSet(tdc, d, "radios", n) \in [Dialogs -> [buttons : Nat, radios : Nat]]
      <4> SUFFICES ASSUME n \in Nat
                   PROVE  CountSet(tdc, d, "radios", n) \in [Dialogs -> [buttons : Nat, radios : Nat]]
        OBVIOUS
      <4> QED
        BY <2>1, <2>3, CountsSet
    <3> QED
      BY <2>3, <2>5, <3>1
  <2>9. radiosRt' = radiosRt
    BY <1>5 DEF FillRadios
  <2>10. UNCHANGED <<hwnd, preventClose, windows, ending, page, gone>>
    BY <1>5 DEF FillRadios, system
  <2> QED
    BY <2>6, <2>7, <2>9, <2>10 DEF FieldsTyped
<1>6. ASSUME \/ ArrayFault \/ ConfigThrows \/ CloseModal \/ OpenModal
             \/ Created \/ Navigated \/ ListenerThrows
             \/ \E d \in Dialogs : DanglingCallback(d) \/ OtherNotification(d)
             \/ Ended \/ UNCHANGED vars
      PROVE  FieldsTyped'
  <2>1. UNCHANGED <<native, system>>
    BY <1>6 DEF ArrayFault, DanglingCallback, Broken, ConfigThrows, CloseModal, OpenModal,
                Created, Navigated, OtherNotification, ListenerThrows, Ended, vars
  <2> QED
    BY <2>1 DEF native, system, FieldsTyped
<1>7. ASSUME NEW d \in Dialogs, Finalize(d) PROVE FieldsTyped'
  BY <1>7 DEF Finalize, native, FieldsTyped
<1>8. ASSUME DialogConstructed PROVE FieldsTyped'
  <2> DEFINE d == Top.d
  <2>1. d \in Dialogs
    BY <1>8, TopCall DEF DialogConstructed, HandedOver, AtCall
  <2>2. /\ buttonsRt[d] \in {None} \cup Seq(Nat)
        /\ tdc[d].buttons \in Nat
    BY <2>1 DEF FieldsTyped
  <2>3. Holds(buttonsRt[d], tdc[d].buttons)
    BY <1>8 DEF DialogConstructed
  <2>4. tdc[d].buttons # 0 => SubSeq(buttonsRt[d], 1, tdc[d].buttons) \in Seq(Nat)
    BY <2>2, <2>3, PageArray
  <2>5. page' \in [Dialogs -> Seq(Nat)]
    BY <1>8, <2>1, <2>4 DEF DialogConstructed, FieldsTyped
  <2>6. windows' \in [Dialogs -> Nat] /\ \A e \in Dialogs : windows'[e] >= windows[e]
    BY <1>8, <2>1 DEF DialogConstructed, FieldsTyped
  <2>7. ending' = ending /\ \A e \in Dialogs : ending'[e] => windows'[e] > 0
    BY <1>8, <2>6 DEF DialogConstructed, FieldsTyped
  <2>8. /\ hwnd' \in [Dialogs -> BOOLEAN] /\ radiosRt' \in [Dialogs -> BOOLEAN]
        /\ buttonsRt' \in [Dialogs -> {None} \cup Seq(Nat)]
    BY <1>8, <2>1 DEF DialogConstructed, FreeRuntime, FieldsTyped
  <2> QED
    BY <1>8, <2>5, <2>6, <2>7, <2>8 DEF DialogConstructed, FieldsTyped
<1>9. ASSUME Destroyed PROVE FieldsTyped'
  <2> DEFINE d == Top.d
  <2>1. d \in Dialogs /\ ending[d]
    BY <1>9, TopCall DEF Destroyed, At
  <2>2. windows[d] > 0 /\ windows[d] \in Nat
    BY <2>1 DEF FieldsTyped
  <2>3. /\ windows' = [windows EXCEPT ![d] = windows[d] - 1]
        /\ ending' = [ending EXCEPT ![d] = FALSE]
        /\ hwnd' = [hwnd EXCEPT ![d] = FALSE]
        /\ UNCHANGED <<preventClose, buttonsRt, radiosRt, tdc, page, gone>>
    BY <1>9 DEF Destroyed
  <2> HIDE DEF d
  <2> QED
    BY <2>1, <2>2, <2>3 DEF FieldsTyped
<1>10. ASSUME SystemFails \/ CallReturns PROVE FieldsTyped'
  <2>1. Top.d \in Dialogs
    BY <1>10, TopCall DEF SystemFails, CallReturns, HandedOver, AtCall, At
  <2>2. /\ buttonsRt' = [buttonsRt EXCEPT ![Top.d] = None]
        /\ radiosRt' = [radiosRt EXCEPT ![Top.d] = FALSE]
        /\ UNCHANGED <<hwnd, preventClose, tdc, system>>
    BY <1>10 DEF SystemFails, CallReturns, FreeRuntime
  <2> QED
    BY <2>1, <2>2 DEF system, FieldsTyped
<1>11. ASSUME NEW d \in Dialogs, NEW i \in 0..Len(page[d]), ButtonClicked(d, i)
       PROVE  FieldsTyped'
  BY <1>11 DEF ButtonClicked, system, FieldsTyped
<1>12. ASSUME ListenersReturn PROVE FieldsTyped'
  <2>1. stack # <<>> /\ Top.kind = "listener"
    BY <1>12 DEF ListenersReturn
  <2>2. Top.d \in Dialogs
    BY <2>1, TopFrame, FrameKinds DEF Top
  <2>3. \/ ending' = ending
        \/ ending' = [ending EXCEPT ![Top.d] = TRUE] /\ windows[Top.d] > 0
    BY <1>12 DEF ListenersReturn
  <2>4. \/ preventClose' = preventClose
        \/ preventClose' = [preventClose EXCEPT ![Top.d] = FALSE]
    BY <1>12 DEF ListenersReturn
  <2>5. UNCHANGED <<hwnd, buttonsRt, radiosRt, tdc, windows, page, gone>>
    BY <1>12 DEF ListenersReturn
  <2> QED
    BY <2>2, <2>3, <2>4, <2>5 DEF FieldsTyped
<1> QED
  BY <1>1, <1>2, <1>3, <1>4, <1>5, <1>6, <1>7, <1>8, <1>9, <1>10, <1>11, <1>12
     DEF Next, ScriptCalls, ConfigStep, SystemStep, UserActs

\* TypeOK: every variable keeps its type whatever the script, the user and the
\* system do; in particular no listener is ever started on no dialog.
THEOREM TypeCorrect == Spec => []TypeOK
<1>1. Init => Typing
  BY DEF Init, Typing, TypeOK
<1>2. Typing /\ [Next]_vars => Typing'
  <2> SUFFICES ASSUME Typing, [Next]_vars PROVE Typing'
    OBVIOUS
  <2> QED
    BY StackTyped, FieldsTypedStep DEF Typing, TypeOK, FieldsTyped
<1>3. Typing => TypeOK
  BY DEF Typing
<1> QED
  BY <1>1, <1>2, <1>3, PTL DEF Spec

---------------------------------------------------------------------------
(* The answer to a click *)

IsClick(f) == f.kind = "listener" /\ f.note = "click"

\* The flag of a dialog and the requests made during its clicks: a set flag was
\* asked for during every click under way, a request is still in the flag
\* unless another click came, and every click but the innermost one knows of it.
ClickFacts(st, flag) ==
    \A i \in DOMAIN st : IsClick(st[i]) =>
        /\ flag[st[i].d] => st[i].asked
        /\ st[i].asked /\ ~st[i].again => flag[st[i].d]
        /\ \A j \in DOMAIN st : i < j /\ IsClick(st[j]) /\ st[j].d = st[i].d => st[i].again

\* No click is added or changed.
SameClicks(old, new) ==
    \A i \in DOMAIN new : IsClick(new[i]) => i \in DOMAIN old /\ new[i] = old[i]

LEMMA SameClickFacts ==
    ASSUME NEW old, NEW new, NEW flag, SameClicks(old, new), ClickFacts(old, flag)
    PROVE  ClickFacts(new, flag)
BY DEF SameClicks, ClickFacts

LEMMA SameTransitive ==
    ASSUME NEW a, NEW b, NEW c, SameClicks(a, b), SameClicks(b, c)
    PROVE  SameClicks(a, c)
BY DEF SameClicks

LEMMA SameAfterFront ==
    ASSUME NEW st \in Seq(Frame)
    PROVE  SameClicks(st, Front(st))
<1>1. CASE st = <<>>
  <2>1. Front(st) = SubSeq(<<>>, 1, -1)
    BY <1>1 DEF Front
  <2>2. Front(st) = <<>>
    BY <2>1
  <2> QED
    BY <2>2 DEF SameClicks
<1>2. CASE st # <<>>
  BY <1>2, FrontStack, TopFrame DEF SameClicks
<1> QED
  BY <1>1, <1>2

LEMMA SameAfterPush ==
    ASSUME NEW st \in Seq(Frame), NEW f \in Frame, ~IsClick(f)
    PROVE  SameClicks(st, Append(st, f))
<1>1. DOMAIN Append(st, f) = 1..(Len(st) + 1) /\ DOMAIN st = 1..Len(st)
  OBVIOUS
<1>2. ASSUME NEW i \in 1..(Len(st) + 1), IsClick(Append(st, f)[i])
      PROVE  i \in 1..Len(st) /\ Append(st, f)[i] = st[i]
  BY <1>2, PushStack
<1> QED
  BY <1>1, <1>2 DEF SameClicks

LEMMA SameAfterGoto ==
    ASSUME stack \in Seq(Frame), stack # <<>>, NEW pc,
           \/ Top.kind = "show" /\ pc \in Reading \cup {"open", "constructed", "loop", "destroyed"}
           \/ Top.kind = "navigate" /\ pc \in Reading \cup {"send", "constructed", "navigated"}
    PROVE  SameClicks(stack, Goto(pc))
<1>1. /\ Goto(pc) \in Seq(Frame) /\ Len(Goto(pc)) = Len(stack)
      /\ \A i \in 1..(Len(stack) - 1) : Goto(pc)[i] = stack[i]
      /\ Goto(pc)[Len(stack)] = [Top EXCEPT !.pc = pc]
  BY GotoStack
<1>2. Top \in Frame /\ Len(stack) \in Nat \ {0}
  BY TopFrame DEF Top
<1>3. ~IsClick([Top EXCEPT !.pc = pc])
  BY <1>2, GotoFrame DEF IsClick
<1>4. DOMAIN Goto(pc) = 1..Len(stack) /\ DOMAIN stack = 1..Len(stack)
  BY <1>1
<1>5. ASSUME NEW i \in 1..Len(stack), IsClick(Goto(pc)[i])
      PROVE  Goto(pc)[i] = stack[i]
  BY <1>1, <1>2, <1>3, <1>5
<1> QED
  BY <1>4, <1>5 DEF SameClicks

LEMMA SameAfterEmit ==
    ASSUME stack \in Seq(Frame), stack # <<>>,
           NEW st \in Seq(Frame), st # <<>>, NEW d \in Dialogs, Emit(st, d, "other", 0, 0)
    PROVE  SameClicks(st, stack')
<1>1. \/ stack' = st
      \/ stack' = Front(st)
      \/ \E this \in Dialogs : stack' = Append(st, Listener(d, "other", this, 0, 0))
  BY EmitStack
<1>2. SameClicks(st, st)
  BY DEF SameClicks
<1>3. SameClicks(st, Front(st))
  BY SameAfterFront
<1>4. ASSUME NEW this \in Dialogs
      PROVE  SameClicks(st, Append(st, Listener(d, "other", this, 0, 0)))
  <2>1. Listener(d, "other", this, 0, 0) \in Frame
    BY NewFrames
  <2>2. ~IsClick(Listener(d, "other", this, 0, 0))
    BY DEF IsClick, Listener
  <2> QED
    BY <2>1, <2>2, SameAfterPush
<1> QED
  BY <1>1, <1>2, <1>3, <1>4, Zenon

\* PreventClose: every click on d under way is asked, and the flag is set.
LEMMA AskedFacts ==
    ASSUME stack \in Seq(Frame), NEW flag \in [Dialogs -> BOOLEAN], NEW d \in Dialogs,
           ClickFacts(stack, flag)
    PROVE  ClickFacts(Asked(d), [flag EXCEPT ![d] = TRUE])
<1> DEFINE new == Asked(d)
<1>1. DOMAIN new = DOMAIN stack
  BY DEF Asked
<1>2. ASSUME NEW i \in DOMAIN stack
      PROVE  /\ stack[i] \in Frame
             /\ IsClick(new[i]) <=> IsClick(stack[i])
             /\ IsClick(stack[i]) => /\ stack[i].d \in Dialogs
                                     /\ new[i].d = stack[i].d
                                     /\ new[i].again = stack[i].again
                                     /\ stack[i].d = d => new[i].asked
                                     /\ stack[i].d # d => new[i] = stack[i]
  <2>1. stack[i] \in Frame
    OBVIOUS
  <2>2. new[i] = IF stack[i].kind = "listener" /\ stack[i].d = d
                 THEN [stack[i] EXCEPT !.asked = TRUE] ELSE stack[i]
    BY Zenon DEF Asked
  <2>3. CASE stack[i].kind = "listener" /\ stack[i].d = d
    <3>1. new[i] = [stack[i] EXCEPT !.asked = TRUE]
      BY <2>2, <2>3
    <3> HIDE DEF new
    <3> QED
      BY <2>1, <2>3, <3>1, MarkedFrame DEF IsClick
  <2>4. CASE ~(stack[i].kind = "listener" /\ stack[i].d = d)
    <3>1. new[i] = stack[i]
      BY <2>2, <2>4
    <3>2. IsClick(stack[i]) => stack[i].d \in Dialogs
      BY <2>1, FrameKinds DEF IsClick
    <3> HIDE DEF new
    <3> QED
      BY <2>1, <2>4, <3>1, <3>2 DEF IsClick
  <2> QED
    BY <2>3, <2>4
<1> HIDE DEF new
<1>3. ClickFacts(new, [flag EXCEPT ![d] = TRUE])
  BY <1>1, <1>2 DEF ClickFacts
<1> QED
  BY <1>3 DEF new

\* What ClickedAgain leaves of a call under way.
LEMMA ClickedAgainFrame ==
    ASSUME stack \in Seq(Frame), NEW d, NEW i \in DOMAIN stack
    PROVE  LET f == ClickedAgain(d)[i]
           IN /\ i \in DOMAIN ClickedAgain(d)
              /\ stack[i] \in Frame /\ f \in Frame
              /\ f.kind = stack[i].kind /\ f.pc = stack[i].pc
              /\ stack[i].kind # "listener" => f = stack[i]
              /\ IsClick(f) <=> IsClick(stack[i])
              /\ stack[i].kind = "listener" =>
                    /\ f.d = stack[i].d /\ f.d \in Dialogs
                    /\ f.asked = stack[i].asked
                    /\ stack[i].d = d => f.again
                    /\ stack[i].d # d => f = stack[i]
<1> DEFINE f == ClickedAgain(d)[i]
<1>1. stack[i] \in Frame /\ i \in DOMAIN ClickedAgain(d)
  BY DEF ClickedAgain
<1>2. f = IF stack[i].kind = "listener" /\ stack[i].d = d
          THEN [stack[i] EXCEPT !.again = TRUE] ELSE stack[i]
  BY Zenon DEF ClickedAgain
<1>3. stack[i].kind = "listener" => stack[i].d \in Dialogs
  BY <1>1, FrameKinds
<1>4. CASE stack[i].kind = "listener" /\ stack[i].d = d
  <2>1. f = [stack[i] EXCEPT !.again = TRUE]
    BY <1>2, <1>4
  <2> HIDE DEF f
  <2>2. /\ f \in Frame /\ f.kind = stack[i].kind /\ f.pc = stack[i].pc
        /\ f.d = stack[i].d /\ f.asked = stack[i].asked
        /\ f.note = stack[i].note /\ f.again = TRUE
    BY <1>1, <1>4, <2>1, MarkedFrame
  <2>3. IsClick(f) <=> IsClick(stack[i])
    BY <2>2 DEF IsClick
  <2> QED
    BY <1>1, <1>3, <1>4, <2>2, <2>3 DEF f
<1>5. CASE ~(stack[i].kind = "listener" /\ stack[i].d = d)
  <2>1. f = stack[i]
    BY <1>2, <1>5
  <2> QED
    BY <1>1, <1>3, <1>5, <2>1
<1> QED
  BY <1>4, <1>5

\* ButtonClicked: the flag is reset, and every click on d knows of another one.
LEMMA AgainFacts ==
    ASSUME stack \in Seq(Frame), NEW flag \in [Dialogs -> BOOLEAN], NEW d \in Dialogs,
           ClickFacts(stack, flag)
    PROVE  ClickFacts(ClickedAgain(d), [flag EXCEPT ![d] = FALSE])
<1> DEFINE new == ClickedAgain(d)
<1>1. DOMAIN new = DOMAIN stack
  BY DEF ClickedAgain
<1>2. ASSUME NEW i \in DOMAIN stack
      PROVE  /\ IsClick(new[i]) <=> IsClick(stack[i])
             /\ IsClick(stack[i]) => /\ stack[i].d \in Dialogs
                                     /\ new[i].d = stack[i].d
                                     /\ new[i].asked = stack[i].asked
                                     /\ stack[i].d = d => new[i].again
                                     /\ stack[i].d # d => new[i] = stack[i]
  BY ClickedAgainFrame DEF IsClick
<1> HIDE DEF new
<1>3. ClickFacts(new, [flag EXCEPT ![d] = FALSE])
  BY <1>1, <1>2 DEF ClickFacts
<1> QED
  BY <1>3 DEF new

LEMMA NewClickFacts ==
    ASSUME stack \in Seq(Frame), NEW flag \in [Dialogs -> BOOLEAN], NEW d \in Dialogs,
           ClickFacts(stack, flag),
           NEW this \in Dialogs, NEW index \in Nat, NEW arg \in Int
    PROVE  ClickFacts(Append(ClickedAgain(d), Listener(d, "click", this, index, arg)),
                      [flag EXCEPT ![d] = FALSE])
<1> DEFINE st == ClickedAgain(d)
           click == Listener(d, "click", this, index, arg)
           new == Append(st, click)
           cleared == [flag EXCEPT ![d] = FALSE]
<1>1. st \in Seq(Frame) /\ Len(st) = Len(stack)
  BY ClickedAgainStack
<1>2. click \in Frame
  BY NewFrames
<1>3. click.d = d /\ click.asked = FALSE /\ IsClick(click)
  BY DEF Listener, IsClick
<1>4. ClickFacts(st, cleared)
  BY AgainFacts
<1>5. \A i \in DOMAIN stack : IsClick(st[i]) /\ st[i].d = d => st[i].again
  BY ClickedAgainFrame DEF IsClick
<1>6. cleared[d] = FALSE
  OBVIOUS
<1> HIDE DEF st, click, cleared
<1>7. /\ DOMAIN new = 1..(Len(st) + 1) /\ DOMAIN st = 1..Len(st)
      /\ DOMAIN stack = 1..Len(stack) /\ Len(st) \in Nat
      /\ \A i \in 1..Len(st) : new[i] = st[i]
      /\ new[Len(st) + 1] = click
  BY <1>1, <1>2, PushStack
<1> HIDE DEF new
<1>8. ASSUME NEW i \in 1..(Len(st) + 1), IsClick(new[i])
      PROVE  /\ cleared[new[i].d] => new[i].asked
             /\ new[i].asked /\ ~new[i].again => cleared[new[i].d]
             /\ \A j \in 1..(Len(st) + 1) :
                   i < j /\ IsClick(new[j]) /\ new[j].d = new[i].d => new[i].again
  <2>1. CASE i = Len(st) + 1
    BY <2>1, <1>3, <1>6, <1>7
  <2>2. CASE i \in 1..Len(st)
    <3>1. /\ new[i] = st[i] /\ IsClick(st[i])
          /\ st[i].d = d => st[i].again
      BY <2>2, <1>1, <1>5, <1>7, <1>8
    <3>2. /\ cleared[st[i].d] => st[i].asked
          /\ st[i].asked /\ ~st[i].again => cleared[st[i].d]
          /\ \A j \in 1..Len(st) : i < j /\ IsClick(st[j]) /\ st[j].d = st[i].d => st[i].again
      BY <2>2, <3>1, <1>4, <1>7 DEF ClickFacts
    <3>3. ASSUME NEW j \in 1..(Len(st) + 1), i < j, IsClick(new[j]), new[j].d = new[i].d
          PROVE  new[i].again
      BY <3>1, <3>2, <3>3, <1>3, <1>7
    <3> QED
      BY <3>1, <3>2, <3>3
  <2> QED
    BY <1>7, <2>1, <2>2
<1>9. ClickFacts(new, cleared)
  BY <1>7, <1>8 DEF ClickFacts
<1> QED
  BY <1>9 DEF new, st, click, cleared

\* The answer to the innermost click resets the flag; the clicks below it on
\* the same dialog know that there was another one.
LEMMA AnswerFacts ==
    ASSUME stack \in Seq(Frame), stack # <<>>, NEW flag \in [Dialogs -> BOOLEAN],
           ClickFacts(stack, flag), IsClick(Top)
    PROVE  ClickFacts(Front(stack), [flag EXCEPT ![Top.d] = FALSE])
<1> DEFINE n == Len(stack)
<1>1. /\ n \in Nat \ {0} /\ Top = stack[n] /\ Top \in Frame
      /\ DOMAIN stack = 1..n
  BY TopFrame DEF Top
<1>2. /\ DOMAIN Front(stack) = 1..(n - 1)
      /\ \A i \in 1..(n - 1) : Front(stack)[i] = stack[i]
  BY FrontStack
<1>3. Top.d \in Dialogs
  BY <1>1, FrameKinds DEF IsClick
<1> HIDE DEF n
<1>4. ASSUME NEW i \in 1..(n - 1), IsClick(stack[i])
      PROVE  /\ stack[i].d = Top.d => stack[i].again
             /\ stack[i].d \in Dialogs
             /\ flag[stack[i].d] => stack[i].asked
             /\ stack[i].asked /\ ~stack[i].again => flag[stack[i].d]
             /\ \A j \in 1..(n - 1) :
                   i < j /\ IsClick(stack[j]) /\ stack[j].d = stack[i].d => stack[i].again
  <2>1. i \in 1..n /\ n \in 1..n /\ i < n
    BY <1>1
  <2>2. stack[i] \in Frame
    BY <1>1, <2>1
  <2>3. stack[i].d \in Dialogs
    BY <2>2, <1>4, FrameKinds DEF IsClick
  <2> QED
    BY <1>1, <1>4, <2>1, <2>3 DEF ClickFacts
<1> QED
  BY <1>1, <1>2, <1>3, <1>4 DEF ClickFacts

LEMMA ClickFactsStep ==
    ASSUME Typing, ClickFacts(stack, preventClose), [Next]_vars
    PROVE  ClickFacts(stack', preventClose')
<1>0. /\ stack \in Seq(Frame) /\ preventClose \in [Dialogs -> BOOLEAN]
      /\ FieldsTyped
  BY TypingParts DEF FieldsTyped
<1> USE <1>0
<1>1. ASSUME SameClicks(stack, stack'), preventClose' = preventClose
      PROVE  ClickFacts(stack', preventClose')
  BY <1>1, SameClickFacts
<1>2. ASSUME NEW d \in Dialogs, NEW cfg \in Configs, Show(d, cfg) \/ Navigate(d, cfg)
      PROVE  SameClicks(stack, stack') /\ preventClose' = preventClose
  <2>1. PICK kind \in {"show", "navigate"} : EnterConfig(kind, d, cfg)
    BY <1>2 DEF Show, Navigate
  <2>2. Call(kind, d, cfg) \in Frame /\ ~IsClick(Call(kind, d, cfg))
    BY NewFrames DEF IsClick, Call
  <2>3. stack' = Append(stack, Call(kind, d, cfg)) /\ preventClose' = preventClose
    BY <2>1 DEF EnterConfig, Push
  <2> QED
    BY <2>2, <2>3, SameAfterPush
<1>3. ASSUME NEW d \in Dialogs, PreventClose(d)
      PROVE  ClickFacts(stack', preventClose')
  BY <1>3, AskedFacts DEF PreventClose
<1>4. ASSUME OpenModal
      PROVE  SameClicks(stack, stack') /\ preventClose' = preventClose
  <2> DEFINE f == [kind |-> "modal", pc |-> "modal"]
  <2>1. f \in Frame /\ ~IsClick(f)
    BY NewFrames DEF IsClick
  <2>2. stack' = Append(stack, f) /\ preventClose' = preventClose
    BY <1>4 DEF OpenModal, Push, native
  <2> HIDE DEF f
  <2> QED
    BY <2>1, <2>2, SameAfterPush
<1>5. ASSUME AllocButtons \/ FillButtons \/ FillRadios
      PROVE  SameClicks(stack, stack') /\ preventClose' = preventClose
  <2>1. /\ stack # <<>> /\ preventClose' = preventClose
        /\ Top.pc \in Reading
        /\ \E pc \in {"buttons", "radios"} \cup {IF Top.kind = "show" THEN "open" ELSE "send"} :
              stack' = Goto(pc)
    BY <1>5 DEF AllocButtons, FillButtons, FillRadios, AtCall, Reading
  <2>2. Top.kind \in {"show", "navigate"}
    BY <2>1, TopCall
  <2>3. PICK pc : /\ stack' = Goto(pc)
                  /\ \/ Top.kind = "show" /\ pc \in {"buttons", "radios", "open"}
                     \/ Top.kind = "navigate" /\ pc \in {"buttons", "radios", "send"}
    BY <2>1, <2>2
  <2> QED
    BY <2>1, <2>3, SameAfterGoto DEF Reading
<1>6. ASSUME \/ ArrayFault \/ Ended \/ UNCHANGED vars
             \/ \E d \in Dialogs : DanglingCallback(d) \/ Finalize(d)
      PROVE  SameClicks(stack, stack') /\ preventClose' = preventClose
  BY <1>6 DEF ArrayFault, DanglingCallback, Broken, Finalize, Ended, vars, native, SameClicks
<1>7. ASSUME ConfigThrows \/ SystemFails \/ CallReturns \/ CloseModal
      PROVE  SameClicks(stack, stack') /\ preventClose' = preventClose
  <2>1. stack' = Front(stack) /\ preventClose' = preventClose
    BY <1>7 DEF ConfigThrows, SystemFails, CallReturns, CloseModal, native
  <2> QED
    BY <2>1, SameAfterFront
<1>8. ASSUME DialogConstructed \/ Created \/ Navigated \/ Destroyed
      PROVE  SameClicks(stack, stack') /\ preventClose' = preventClose
  <2>1. stack # <<>> /\ Top.pc \in {"open", "send", "constructed", "loop"}
    BY <1>8 DEF DialogConstructed, Created, Navigated, Destroyed, HandedOver, AtCall, At
  <2>2. /\ Top.kind \in {"show", "navigate"} /\ Top.d \in Dialogs
        /\ Top.pc = "open" => Top.kind = "show"
        /\ Top.pc = "send" => Top.kind = "navigate"
    BY <2>1, TopCall
  <2>3. PICK pc : /\ Emit(Goto(pc), Top.d, "other", 0, 0)
                  /\ \/ Top.kind = "show" /\ pc \in {"constructed", "loop", "destroyed"}
                     \/ Top.kind = "navigate" /\ pc \in {"constructed", "navigated"}
    BY <1>8, <2>2 DEF DialogConstructed, Created, Navigated, Destroyed, At
  <2>4. /\ Goto(pc) \in Seq(Frame) /\ Goto(pc) # <<>>
        /\ SameClicks(stack, Goto(pc))
    BY <2>1, <2>3, GotoStack, SameAfterGoto
  <2>5. SameClicks(Goto(pc), stack')
    BY <2>1, <2>2, <2>3, <2>4, SameAfterEmit
  <2>6. preventClose' = preventClose
    BY <1>8 DEF DialogConstructed, Created, Navigated, Destroyed, native
  <2> QED
    BY <2>4, <2>5, <2>6, SameTransitive
<1>9. ASSUME NEW d \in Dialogs, OtherNotification(d)
      PROVE  SameClicks(stack, stack') /\ preventClose' = preventClose
  <2>1. stack # <<>> /\ Emit(stack, d, "other", 0, 0) /\ preventClose' = preventClose
    BY <1>9 DEF OtherNotification, Reports, Pumping, native
  <2> QED
    BY <2>1, SameAfterEmit
<1>10. ASSUME NEW d \in Dialogs, NEW i \in 0..Len(page[d]), ButtonClicked(d, i)
       PROVE  ClickFacts(stack', preventClose')
  <2> DEFINE arg == IF i = 0 THEN 0 ELSE page[d][i] - 1000
  <2>1. arg \in Int /\ i \in Nat
    BY DEF FieldsTyped
  <2>2. /\ stack # <<>> /\ Emit(ClickedAgain(d), d, "click", i, arg)
        /\ preventClose' = [preventClose EXCEPT ![d] = FALSE]
    BY <1>10 DEF ButtonClicked, Reports, Pumping
  <2> HIDE DEF arg
  <2>3. \/ stack' = ClickedAgain(d)
        \/ stack' = Front(ClickedAgain(d))
        \/ \E this \in Dialogs :
              stack' = Append(ClickedAgain(d), Listener(d, "click", this, i, arg))
    BY <2>2, EmitStack
  <2>4. ClickFacts(ClickedAgain(d), preventClose')
    BY <2>2, AgainFacts
  <2>5. ClickFacts(Front(ClickedAgain(d)), preventClose')
    BY <2>4, ClickedAgainStack, SameAfterFront, SameClickFacts
  <2>6. ASSUME NEW this \in Dialogs
        PROVE  ClickFacts(Append(ClickedAgain(d), Listener(d, "click", this, i, arg)),
                          preventClose')
    BY <2>1, <2>2, NewClickFacts
  <2> QED
    BY <2>3, <2>4, <2>5, <2>6, Zenon
<1>11. ASSUME ListenersReturn
       PROVE  ClickFacts(stack', preventClose')
  <2>1. stack # <<>> /\ stack' = Front(stack) /\ Top.kind = "listener"
    BY <1>11 DEF ListenersReturn
  <2>2. CASE Top.note = "click" /\ preventClose[Top.d]
    <3>1. preventClose' = [preventClose EXCEPT ![Top.d] = FALSE]
      BY <1>11, <2>2 DEF ListenersReturn
    <3> QED
      BY <2>1, <2>2, <3>1, AnswerFacts DEF IsClick
  <2>3. CASE ~(Top.note = "click" /\ preventClose[Top.d])
    <3>1. preventClose' = preventClose
      BY <1>11, <2>3 DEF ListenersReturn
    <3> QED
      BY <2>1, <3>1, <1>1, SameAfterFront
  <2> QED
    BY <2>2, <2>3
<1>12. ASSUME ListenerThrows
       PROVE  SameClicks(stack, stack') /\ preventClose' = preventClose
  <2>1. /\ stack' = Front(stack) \/ stack' = Front(Front(stack))
        /\ preventClose' = preventClose
    BY <1>12 DEF ListenerThrows, Escape, native
  <2>2. Front(stack) \in Seq(Frame)
    BY FrontFront
  <2>3. SameClicks(stack, Front(stack)) /\ SameClicks(Front(stack), Front(Front(stack)))
    BY <2>2, SameAfterFront
  <2> QED
    BY <2>1, <2>3, SameTransitive
<1> QED
  BY <1>1, <1>2, <1>3, <1>4, <1>5, <1>6, <1>7, <1>8, <1>9, <1>10, <1>11, <1>12
     DEF Next, ScriptCalls, ConfigStep, SystemStep, UserActs

\* Only the answer to a click, the flag not being set, accepts the end of a window.
LEMMA EndAccepted ==
    ASSUME Typing, [Next]_vars, NEW d \in Dialogs, ~ending[d], ending'[d]
    PROVE  /\ stack # <<>> /\ IsClick(Top) /\ Top.d = d
           /\ ~preventClose[d]
<1>0. FieldsTyped /\ stack \in Seq(Frame)
  BY TypingParts
<1>1. CASE ListenersReturn
  <2>1. /\ stack # <<>> /\ Top.kind = "listener"
        /\ ending' = ending \/ /\ Top.note = "click" /\ ~preventClose[Top.d]
                               /\ ending' = [ending EXCEPT ![Top.d] = TRUE]
    BY <1>1 DEF ListenersReturn
  <2>2. Top.d \in Dialogs
    BY <1>0, <2>1, TopFrame, FrameKinds DEF Top
  <2> QED
    BY <1>0, <2>1, <2>2 DEF IsClick, FieldsTyped
<1>2. CASE Destroyed
  <2>1. ending' = [ending EXCEPT ![Top.d] = FALSE]
    BY <1>2 DEF Destroyed
  <2> QED
    BY <1>0, <2>1 DEF FieldsTyped
<1>3. ASSUME [Next]_vars, ~ListenersReturn, ~Destroyed
      PROVE  ending' = ending
  BY <1>3 DEF Next, ScriptCalls, ConfigStep, SystemStep, UserActs, vars, native, system,
     Show, Navigate, EnterConfig, PreventClose, OpenModal, AllocButtons, FillButtons,
     FillRadios, ArrayFault, DanglingCallback, Broken, ConfigThrows, DialogConstructed,
     Created, Navigated, SystemFails, CallReturns, ButtonClicked, OtherNotification,
     CloseModal, ListenerThrows, Finalize, Ended
<1> QED
  BY <1>1, <1>2, <1>3

\* PreventCloseHonoured: however many dialogs and calls are under way, a click
\* during which the script called preventClose does not end its window, unless
\* another click on the same dialog used the flag meanwhile.
THEOREM CloseHonoured == Spec => PreventCloseHonoured
<1> DEFINE IInv == Typing /\ ClickFacts(stack, preventClose)
<1>1. Init => IInv
  <2> SUFFICES ASSUME Init PROVE IInv
    OBVIOUS
  <2>1. Typing
    BY DEF Init, Typing, TypeOK
  <2> QED
    BY <2>1 DEF Init, ClickFacts
<1>2. IInv /\ [Next]_vars => IInv'
  <2> SUFFICES ASSUME IInv, [Next]_vars PROVE IInv'
    OBVIOUS
  <2>1. Typing'
    BY StackTyped, FieldsTypedStep DEF Typing, TypeOK, FieldsTyped
  <2> QED
    BY <2>1, ClickFactsStep
<1>3. IInv /\ [Next]_vars =>
         [ClickAnswered /\ Top.asked /\ ~Top.again /\ ~ending[Top.d] => ~ending'[Top.d]]_vars
  <2> SUFFICES ASSUME IInv, [Next]_vars,
                      ClickAnswered, Top.asked, ~Top.again, ~ending[Top.d], ending'[Top.d]
               PROVE  FALSE
    OBVIOUS
  <2>1. stack \in Seq(Frame) /\ stack # <<>> /\ IsClick(Top)
    BY TypingParts DEF ClickAnswered, IsClick
  <2>2. /\ Top = stack[Len(stack)] /\ Len(stack) \in DOMAIN stack /\ Top \in Frame
    BY <2>1, TopFrame DEF Top
  <2>3. Top.d \in Dialogs
    BY <2>1, <2>2, FrameKinds DEF IsClick
  <2>4. ~preventClose[Top.d]
    BY <2>3, EndAccepted
  <2>5. preventClose[Top.d]
    BY <2>1, <2>2 DEF ClickFacts
  <2> QED
    BY <2>4, <2>5
<1> QED
  BY <1>1, <1>2, <1>3, PTL DEF Spec, PreventCloseHonoured
===========================================================================
