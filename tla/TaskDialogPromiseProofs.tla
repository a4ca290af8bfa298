---------------------- MODULE TaskDialogPromiseProofs ----------------------
(***************************************************************************)
(* TaskDialog implements ModalDialogs, for any number of dialogs and calls.  *)
(***************************************************************************)
EXTENDS TaskDialogWindowProofs

\* The calls of ModalDialogs for a stack of calls.
Seen(st) == [i \in DOMAIN st |-> ClickOf(st[i])]

Mark == [d : Dialogs \cup {None}, asked : BOOLEAN, again : BOOLEAN]

LEMMA ClickMark ==
    ASSUME NEW f \in Frame
    PROVE  /\ ClickOf(f) \in Mark
           /\ IsClick(f) => /\ ClickOf(f) = [d |-> f.d, asked |-> f.asked, again |-> f.again]
                            /\ ClickOf(f).d = f.d /\ f.d \in Dialogs /\ f.d # None
           /\ ~IsClick(f) => ClickOf(f) = Modal!Other /\ ClickOf(f).d = None
<1>1. IsClick(f) => f.d \in Dialogs /\ f.asked \in BOOLEAN /\ f.again \in BOOLEAN
  BY FrameKinds DEF IsClick
<1>2. None \notin Dialogs
  BY ConstantsAssumption
<1> QED
  BY <1>1, <1>2 DEF ClickOf, IsClick, Mark, Modal!Other, Modal!Click

LEMMA SeenSeq ==
    ASSUME NEW st \in Seq(Frame)
    PROVE  /\ Seen(st) \in Seq(Mark)
           /\ Len(Seen(st)) = Len(st)
           /\ DOMAIN Seen(st) = 1..Len(st) /\ DOMAIN st = 1..Len(st) /\ Len(st) \in Nat
           /\ \A i \in 1..Len(st) : Seen(st)[i] = ClickOf(st[i])
<1>1. DOMAIN st = 1..Len(st) /\ Len(st) \in Nat
  OBVIOUS
<1>2. \A i \in 1..Len(st) : ClickOf(st[i]) \in Mark
  BY <1>1, ClickMark
<1>3. Seen(st) \in [1..Len(st) -> Mark]
  BY <1>1, <1>2 DEF Seen
<1> QED
  BY <1>1, <1>3 DEF Seen

LEMMA SeenSame ==
    ASSUME NEW old \in Seq(Frame), NEW new \in Seq(Frame), Len(new) = Len(old),
           \A i \in 1..Len(old) : ClickOf(new[i]) = ClickOf(old[i])
    PROVE  Seen(new) = Seen(old)
<1>1. /\ Seen(new) \in Seq(Mark) /\ Seen(old) \in Seq(Mark)
      /\ Len(Seen(new)) = Len(Seen(old))
      /\ \A i \in 1..Len(Seen(new)) : Seen(new)[i] = Seen(old)[i]
  BY SeenSeq
<1> HIDE DEF Seen
<1> QED
  BY <1>1, SeqEqual

LEMMA SeenPush ==
    ASSUME NEW st \in Seq(Frame), NEW f \in Frame
    PROVE  Seen(Append(st, f)) = Append(Seen(st), ClickOf(f))
<1> DEFINE new == Append(st, f)
           marks == Append(Seen(st), ClickOf(f))
<1>1. /\ new \in Seq(Frame) /\ Len(new) = Len(st) + 1 /\ Len(st) \in Nat
      /\ \A i \in 1..Len(st) : new[i] = st[i]
      /\ new[Len(st) + 1] = f
  BY PushStack
<1>2. Seen(st) \in Seq(Mark) /\ Len(Seen(st)) = Len(st)
  BY SeenSeq
<1>3. ClickOf(f) \in Mark
  BY ClickMark
<1>4. /\ marks \in Seq(Mark) /\ Len(marks) = Len(st) + 1
      /\ \A i \in 1..Len(st) : marks[i] = Seen(st)[i]
      /\ marks[Len(st) + 1] = ClickOf(f)
  BY <1>2, <1>3
<1> HIDE DEF new, marks
<1>5. /\ Seen(new) \in Seq(Mark) /\ Len(Seen(new)) = Len(st) + 1
      /\ \A i \in 1..(Len(st) + 1) : Seen(new)[i] = ClickOf(new[i])
  BY <1>1, SeenSeq
<1>6. \A i \in 1..Len(st) : Seen(st)[i] = ClickOf(st[i])
  BY SeenSeq
<1>7. ASSUME NEW i \in 1..(Len(st) + 1) PROVE Seen(new)[i] = marks[i]
  <2>1. CASE i = Len(st) + 1
    BY <1>1, <1>4, <1>5, <2>1
  <2>2. CASE i \in 1..Len(st)
    BY <1>1, <1>4, <1>5, <1>6, <2>2
  <2> QED
    BY <1>1, <2>1, <2>2
<1>8. Seen(new) = marks
  BY <1>4, <1>5, <1>7, SeqEqual
<1> QED
  BY <1>8 DEF new, marks

LEMMA SeenFront ==
    ASSUME NEW st \in Seq(Frame), st # <<>>
    PROVE  Seen(Front(st)) = Front(Seen(st)) /\ Seen(st) # <<>>
<1>1. /\ Front(st) \in Seq(Frame) /\ Len(Front(st)) = Len(st) - 1
      /\ \A i \in 1..(Len(st) - 1) : Front(st)[i] = st[i]
      /\ Len(st) \in Nat \ {0}
  BY FrontStack, TopFrame
<1>2. /\ Seen(st) \in Seq(Mark) /\ Len(Seen(st)) = Len(st)
      /\ \A i \in 1..Len(st) : Seen(st)[i] = ClickOf(st[i])
  BY SeenSeq
<1>3. Seen(st) # <<>>
  BY <1>1, <1>2
<1>4. /\ Front(Seen(st)) \in Seq(Mark) /\ Len(Front(Seen(st))) = Len(st) - 1
      /\ \A i \in 1..(Len(st) - 1) : Front(Seen(st))[i] = Seen(st)[i]
  BY <1>2, <1>3, FrontOf
<1>5. /\ Seen(Front(st)) \in Seq(Mark) /\ Len(Seen(Front(st))) = Len(st) - 1
      /\ \A i \in 1..(Len(st) - 1) : Seen(Front(st))[i] = ClickOf(Front(st)[i])
  BY <1>1, SeenSeq
<1>6. \A i \in 1..(Len(st) - 1) : Seen(Front(st))[i] = Front(Seen(st))[i]
  BY <1>1, <1>2, <1>4, <1>5
<1>7. Seen(Front(st)) = Front(Seen(st))
  BY <1>4, <1>5, <1>6, SeqEqual
<1> QED
  BY <1>3, <1>7

LEMMA SeenGoto ==
    ASSUME stack \in Seq(Frame), stack # <<>>, NEW pc,
           \/ Top.kind = "show" /\ pc \in Reading \cup {"open", "constructed", "loop", "destroyed"}
           \/ Top.kind = "navigate" /\ pc \in Reading \cup {"send", "constructed", "navigated"}
    PROVE  Seen(Goto(pc)) = Seen(stack)
<1> DEFINE new == Goto(pc)
           n == Len(stack)
<1>1. /\ n \in Nat \ {0} /\ Len(new) = n /\ Top = stack[n]
      /\ \A i \in 1..(n - 1) : new[i] = stack[i]
      /\ ~IsClick(new[n]) /\ ~IsClick(Top)
  BY MovedTop
<1>2. new \in Seq(Frame)
  BY GotoStack
<1> HIDE DEF new
<1>3. new[n] \in Frame /\ stack[n] \in Frame
  BY <1>1, <1>2
<1>4. ClickOf(new[n]) = ClickOf(stack[n])
  BY <1>1, <1>3, ClickMark
<1>5. ASSUME NEW i \in 1..n PROVE ClickOf(new[i]) = ClickOf(stack[i])
  BY <1>1, <1>4
<1>6. Seen(new) = Seen(stack)
  BY <1>1, <1>2, <1>5, SeenSame
<1> QED
  BY <1>6 DEF new

\* Marks of a click, seen.
LEMMA MarkedClick ==
    ASSUME NEW f \in Frame, f.kind = "listener", NEW d \in Dialogs, f.d = d, NEW z
    PROVE  /\ ClickOf([f EXCEPT !.again = z]) =
                 IF ClickOf(f).d = d THEN [ClickOf(f) EXCEPT !.again = z] ELSE ClickOf(f)
           /\ ClickOf([f EXCEPT !.asked = z]) =
                 IF ClickOf(f).d = d THEN [ClickOf(f) EXCEPT !.asked = z] ELSE ClickOf(f)
<1> DEFINE a == [f EXCEPT !.again = z]
           q == [f EXCEPT !.asked = z]
<1>1. /\ a.kind = "listener" /\ a.note = f.note /\ a.d = d
      /\ a.asked = f.asked /\ a.again = z
      /\ q.kind = "listener" /\ q.note = f.note /\ q.d = d
      /\ q.asked = z /\ q.again = f.again
  <2>1. f \in ListenerFrame
    BY FrameKinds
  <2> QED
    BY <2>1 DEF ListenerFrame
<1>2. None # d
  BY ConstantsAssumption
<1> HIDE DEF a, q
<1>3. CASE f.note = "click"
  <2>1. /\ ClickOf(f) = [d |-> d, asked |-> f.asked, again |-> f.again]
        /\ ClickOf(a) = [d |-> d, asked |-> f.asked, again |-> z]
        /\ ClickOf(q) = [d |-> d, asked |-> z, again |-> f.again]
    BY <1>1, <1>3 DEF ClickOf
  <2>2. /\ [ClickOf(f) EXCEPT !.again = z] = [d |-> d, asked |-> f.asked, again |-> z]
        /\ [ClickOf(f) EXCEPT !.asked = z] = [d |-> d, asked |-> z, again |-> f.again]
        /\ ClickOf(f).d = d
    BY <2>1
  <2>3. /\ ClickOf(a) = [ClickOf(f) EXCEPT !.again = z]
        /\ ClickOf(q) = [ClickOf(f) EXCEPT !.asked = z]
    BY <2>1, <2>2
  <2> QED
    BY <2>2, <2>3, Zenon DEF a, q
<1>4. CASE f.note # "click"
  <2>1. /\ ClickOf(f) = [d |-> None, asked |-> FALSE, again |-> FALSE]
        /\ ClickOf(a) = ClickOf(f) /\ ClickOf(q) = ClickOf(f)
    BY <1>1, <1>4 DEF ClickOf
  <2>2. ClickOf(f).d = None
    BY <2>1
  <2> QED
    BY <1>2, <2>1, <2>2 DEF a, q
<1> QED
  BY <1>3, <1>4

LEMMA UnmarkedClick ==
    ASSUME NEW f \in Frame, NEW d \in Dialogs, ~(f.kind = "listener" /\ f.d = d)
    PROVE  ClickOf(f).d # d
<1>1. CASE IsClick(f)
  BY <1>1, ClickMark DEF IsClick
<1>2. CASE ~IsClick(f)
  BY <1>2, ClickMark, ConstantsAssumption
<1> QED
  BY <1>1, <1>2

LEMMA SeenMarks ==
    ASSUME stack \in Seq(Frame), fault = None, NEW d \in Dialogs
    PROVE  /\ Seen(ClickedAgain(d)) = Modal!Repeated(d)
           /\ Seen(Asked(d)) = [i \in DOMAIN CallsSeen |->
                                   IF i \in Modal!Clicks(d)
                                   THEN [CallsSeen[i] EXCEPT !.asked = TRUE] ELSE CallsSeen[i]]
<1>1. ASSUME NEW i \in DOMAIN stack
      PROVE  /\ ClickOf(ClickedAgain(d)[i]) =
                   IF ClickOf(stack[i]).d = d THEN [ClickOf(stack[i]) EXCEPT !.again = TRUE]
                   ELSE ClickOf(stack[i])
             /\ ClickOf(Asked(d)[i]) =
                   IF ClickOf(stack[i]).d = d THEN [ClickOf(stack[i]) EXCEPT !.asked = TRUE]
                   ELSE ClickOf(stack[i])
  <2>1. stack[i] \in Frame
    OBVIOUS
  <2>2. /\ ClickedAgain(d)[i] = IF stack[i].kind = "listener" /\ stack[i].d = d
                                THEN [stack[i] EXCEPT !.again = TRUE] ELSE stack[i]
        /\ Asked(d)[i] = IF stack[i].kind = "listener" /\ stack[i].d = d
                         THEN [stack[i] EXCEPT !.asked = TRUE] ELSE stack[i]
    BY Zenon DEF ClickedAgain, Asked
  <2>3. CASE stack[i].kind = "listener" /\ stack[i].d = d
    <3>1. /\ ClickedAgain(d)[i] = [stack[i] EXCEPT !.again = TRUE]
          /\ Asked(d)[i] = [stack[i] EXCEPT !.asked = TRUE]
      BY <2>2, <2>3
    <3>2. \A z : /\ ClickOf([stack[i] EXCEPT !.again = z]) =
                       IF ClickOf(stack[i]).d = d THEN [ClickOf(stack[i]) EXCEPT !.again = z]
                       ELSE ClickOf(stack[i])
                 /\ ClickOf([stack[i] EXCEPT !.asked = z]) =
                       IF ClickOf(stack[i]).d = d THEN [ClickOf(stack[i]) EXCEPT !.asked = z]
                       ELSE ClickOf(stack[i])
      BY <2>1, <2>3, MarkedClick
    <3>3. /\ ClickOf([stack[i] EXCEPT !.again = TRUE]) =
                IF ClickOf(stack[i]).d = d THEN [ClickOf(stack[i]) EXCEPT !.again = TRUE]
                ELSE ClickOf(stack[i])
          /\ ClickOf([stack[i] EXCEPT !.asked = TRUE]) =
                IF ClickOf(stack[i]).d = d THEN [ClickOf(stack[i]) EXCEPT !.asked = TRUE]
                ELSE ClickOf(stack[i])
      BY <3>2, Zenon
    <3> QED
      BY <3>1, <3>3, Zenon
  <2>4. CASE ~(stack[i].kind = "listener" /\ stack[i].d = d)
    BY <2>1, <2>2, <2>4, UnmarkedClick
  <2> QED
    BY <2>3, <2>4
<1>2. /\ DOMAIN ClickedAgain(d) = DOMAIN stack /\ DOMAIN Asked(d) = DOMAIN stack
  BY DEF ClickedAgain, Asked
<1>3. /\ CallsSeen = [i \in DOMAIN stack |-> ClickOf(stack[i])]
      /\ DOMAIN CallsSeen = DOMAIN stack
      /\ \A i \in DOMAIN stack : CallsSeen[i] = ClickOf(stack[i])
  BY DEF CallsSeen
<1>4. \A i \in DOMAIN stack : i \in Modal!Clicks(d) <=> ClickOf(stack[i]).d = d
  BY <1>3 DEF Modal!Clicks
<1>5. Seen(ClickedAgain(d)) = Modal!Repeated(d)
  <2>1. Seen(ClickedAgain(d)) = [i \in DOMAIN stack |-> ClickOf(ClickedAgain(d)[i])]
    BY <1>2 DEF Seen
  <2>2. Modal!Repeated(d) = [i \in DOMAIN stack |->
                                IF ClickOf(stack[i]).d = d
                                THEN [ClickOf(stack[i]) EXCEPT !.again = TRUE]
                                ELSE ClickOf(stack[i])]
    BY <1>3, <1>4 DEF Modal!Repeated
  <2> QED
    BY <1>1, <2>1, <2>2
<1>6. Seen(Asked(d)) = [i \in DOMAIN CallsSeen |->
                           IF i \in Modal!Clicks(d)
                           THEN [CallsSeen[i] EXCEPT !.asked = TRUE] ELSE CallsSeen[i]]
  <2>1. Seen(Asked(d)) = [i \in DOMAIN stack |-> ClickOf(Asked(d)[i])]
    BY <1>2 DEF Seen
  <2> QED
    BY <1>1, <1>3, <1>4, <2>1
<1> QED
  BY <1>5, <1>6

\* A listener is called unless another modal function is on top.
LEMMA EmitCalls ==
    ASSUME stack \in Seq(Frame), stack # <<>>, Top.kind # "modal",
           NEW st, NEW d, NEW note, NEW index, NEW arg, Emit(st, d, note, index, arg)
    PROVE  /\ \E this \in Dialogs : stack' = Append(st, Listener(d, note, this, index, arg))
           /\ fault' = fault
<1>1. Top \in Frame
  BY TopFrame DEF Top
<1>2. Top.d \in Dialogs /\ Top.d # None
  BY <1>1, FrameKinds, ConstantsAssumption
<1> QED
  BY <1>2 DEF Emit, Push, CurrentThis

\* Telling a listener, seen.
LEMMA OtherSeen ==
    ASSUME NEW st \in Seq(Frame), NEW d \in Dialogs, NEW this \in Dialogs
    PROVE  /\ Append(st, Listener(d, "other", this, 0, 0)) \in Seq(Frame)
           /\ Seen(Append(st, Listener(d, "other", this, 0, 0))) =
                 Append(Seen(st), Modal!Other)
<1> DEFINE f == Listener(d, "other", this, 0, 0)
<1>1. f \in Frame
  BY NewFrames
<1>2. ClickOf(f) = Modal!Other
  BY DEF ClickOf, Listener, Modal!Other, Modal!Click
<1> HIDE DEF f
<1>3. Append(st, f) \in Seq(Frame) /\ Seen(Append(st, f)) = Append(Seen(st), Modal!Other)
  BY <1>1, <1>2, SeenPush, PushStack
<1> QED
  BY <1>3 DEF f

---------------------------------------------------------------------------
(* Every step is a step of ModalDialogs *)

\* An exception that ends the process.
LEMMA CrashStep ==
    ASSUME hwnd' = hwnd, ending' = ending, fault' # None
    PROVE  Modal!Next
<1>1. CallsSeen' = <<>> /\ DialogState' = DialogState
  BY DEF CallsSeen, DialogState
<1> QED
  BY <1>1 DEF Modal!Next, Modal!Crash

\* A call other than a click is left.
LEMMA LeaveStep ==
    ASSUME stack \in Seq(Frame), stack # <<>>, ~IsClick(Top), fault = None, fault' = None,
           hwnd' = hwnd, ending' = ending, stack' = Front(stack)
    PROVE  Modal!Next
<1>1. DialogState' = DialogState
  BY DEF DialogState
<1>2. CallsSeen = Seen(stack) /\ CallsSeen' = Seen(Front(stack))
  BY DEF CallsSeen, Seen
<1>3. CallsSeen' = Front(CallsSeen) /\ CallsSeen # <<>>
  BY <1>2, SeenFront
<1>4. Last(CallsSeen).d = None
  <2>1. Top \in Frame /\ Top = stack[Len(stack)] /\ Len(stack) \in Nat \ {0}
    BY TopFrame DEF Top
  <2>2. Last(CallsSeen) = ClickOf(Top)
    BY <1>2, <2>1, SeenSeq DEF Last
  <2> QED
    BY <2>1, <2>2, ClickMark
<1> QED
  BY <1>1, <1>3, <1>4
     DEF Modal!Next, Modal!Leave, Modal!Innermost, Modal!Front, Modal!Last, Front, Last

\* A call that is no click is entered.
LEMMA EnterStep ==
    ASSUME stack \in Seq(Frame), fault = None, fault' = None,
           hwnd' = hwnd, ending' = ending, Seen(stack') = Append(Seen(stack), Modal!Other)
    PROVE  Modal!Next
<1>1. DialogState' = DialogState
  BY DEF DialogState
<1>2. CallsSeen = Seen(stack) /\ CallsSeen' = Seen(stack')
  BY DEF CallsSeen, Seen
<1> QED
  BY <1>1, <1>2 DEF Modal!Next, Modal!Enter

\* Nothing of it is seen.
LEMMA StutterStep ==
    ASSUME hwnd' = hwnd, ending' = ending, fault' = fault, Seen(stack') = Seen(stack)
    PROVE  UNCHANGED Modal!vars
<1>1. DialogState' = DialogState
  BY DEF DialogState
<1>2. CallsSeen' = CallsSeen
  BY DEF CallsSeen, Seen
<1> QED
  BY <1>1, <1>2 DEF Modal!vars

\* The end of a window is accepted or its request for it refused.
LEMMA AnswerStep ==
    ASSUME WindowsKnown, ListenersReturn, IsClick(Top)
    PROVE  Modal!Next
<1>1. /\ stack \in Seq(Frame) /\ FieldsTyped
      /\ ending \in [Dialogs -> BOOLEAN] /\ hwnd \in [Dialogs -> BOOLEAN]
  BY TypingParts DEF WindowsKnown, FieldsTyped
<1>2. /\ fault = None /\ fault' = None /\ stack # <<>> /\ stack' = Front(stack)
      /\ hwnd' = hwnd
  BY DEF ListenersReturn
<1>3. /\ Top \in Frame /\ Top = stack[Len(stack)] /\ Len(stack) \in DOMAIN stack
      /\ Len(stack) \in Nat \ {0}
  BY <1>1, <1>2, TopFrame DEF Top
<1>4. /\ ClickOf(Top) = [d |-> Top.d, asked |-> Top.asked, again |-> Top.again]
      /\ Top.d \in Dialogs /\ Top.d # None
      /\ Top.asked \in BOOLEAN /\ Top.again \in BOOLEAN
  BY <1>3, ClickMark, FrameKinds DEF IsClick
<1>5. CallsSeen = Seen(stack) /\ CallsSeen' = Seen(Front(stack))
  BY <1>2 DEF CallsSeen, Seen
<1>6. CallsSeen' = Front(CallsSeen) /\ CallsSeen # <<>>
  BY <1>1, <1>2, <1>5, SeenFront
<1>7. Last(CallsSeen) = ClickOf(Top)
  BY <1>1, <1>3, <1>5, SeenSeq DEF Last
<1>8. /\ Last(CallsSeen).d = Top.d /\ Last(CallsSeen).asked = Top.asked
      /\ Last(CallsSeen).again = Top.again
  BY <1>4, <1>7
<1>9. /\ preventClose[Top.d] => Top.asked
      /\ Top.asked /\ ~Top.again => preventClose[Top.d]
      /\ hwnd[Top.d] /\ windows[Top.d] > 0
  <2>1. hwnd[Top.d]
    BY <1>3 DEF WindowsKnown
  <2>2. windows[Top.d] > 0
    BY <1>4, <2>1 DEF WindowsKnown, WindowCount
  <2> QED
    BY <1>3, <2>1, <2>2 DEF WindowsKnown, ClickFacts
<1>10. CASE preventClose[Top.d]
  <2>1. ending' = ending
    BY <1>10 DEF ListenersReturn, IsClick
  <2>2. DialogState' = DialogState
    BY <1>2, <2>1 DEF DialogState
  <2> QED
    BY <1>4, <1>6, <1>8, <1>9, <1>10, <2>2
       DEF Modal!Next, Modal!Refuse, Modal!Innermost, Modal!Front, Modal!Last, Front, Last
<1>11. CASE ~preventClose[Top.d]
  <2>1. ending' = [ending EXCEPT ![Top.d] = TRUE]
    BY <1>9, <1>11 DEF ListenersReturn, IsClick
  <2>2. DialogState' = [DialogState EXCEPT ![Top.d] = "closing"]
    BY <1>1, <1>2, <1>4, <1>9, <2>1 DEF DialogState
  <2>3. DialogState[Top.d] # "closed"
    BY <1>4, <1>9 DEF DialogState
  <2>4. Top.asked => Top.again
    BY <1>9, <1>11
  <2> QED
    BY <1>4, <1>6, <1>8, <2>2, <2>3, <2>4
       DEF Modal!Next, Modal!Accept, Modal!Innermost, Modal!Front, Modal!Last, Front, Last
<1> QED
  BY <1>10, <1>11

\* A window appears or goes, and its script is told.
LEMMA WindowStep ==
    ASSUME WindowsKnown, DialogConstructed \/ Destroyed
    PROVE  Modal!Next
<1>1. /\ stack \in Seq(Frame) /\ FieldsTyped
      /\ ending \in [Dialogs -> BOOLEAN] /\ hwnd \in [Dialogs -> BOOLEAN]
  BY TypingParts DEF WindowsKnown, FieldsTyped
<1>2. /\ fault = None /\ stack # <<>> /\ Top.pc \in {"open", "send", "loop"}
  BY DEF DialogConstructed, Destroyed, HandedOver, AtCall, At
<1>3. /\ Top.d \in Dialogs /\ Top.kind \in {"show", "navigate"}
      /\ Top.pc \in {"open", "loop"} => Top.kind = "show"
      /\ Top.pc = "send" => Top.kind = "navigate"
      /\ Top = stack[Len(stack)] /\ Len(stack) \in DOMAIN stack
  BY <1>1, <1>2, TopCall, TopFrame DEF Top
<1>4. CASE DialogConstructed
  <2>1. /\ Emit(Goto("constructed"), Top.d, "other", 0, 0)
        /\ hwnd' = [hwnd EXCEPT ![Top.d] = TRUE] /\ ending' = ending
        /\ Top.pc \in {"open", "send"}
    BY <1>4 DEF DialogConstructed, HandedOver, AtCall
  <2>2. PICK this \in Dialogs :
           stack' = Append(Goto("constructed"), Listener(Top.d, "other", this, 0, 0))
    BY <1>1, <1>2, <1>3, <2>1, EmitCalls
  <2>3. fault' = None
    BY <1>1, <1>2, <1>3, <2>1, EmitCalls
  <2>4. Goto("constructed") \in Seq(Frame) /\ Seen(Goto("constructed")) = Seen(stack)
    BY <1>1, <1>2, <1>3, GotoStack, SeenGoto
  <2>5. Seen(stack') = Append(Seen(stack), Modal!Other)
    BY <1>3, <2>2, <2>4, OtherSeen
  <2>6. hwnd[Top.d] <=> Top.kind = "navigate"
    BY <1>2, <2>1 DEF WindowsKnown
  <2>7. CASE Top.kind = "navigate"
    <3>1. hwnd' = hwnd
      BY <1>1, <1>3, <2>1, <2>6, <2>7
    <3> QED
      BY <1>1, <1>2, <2>1, <2>3, <2>5, <3>1, EnterStep
  <2>8. CASE Top.kind = "show"
    <3>1. ~hwnd[Top.d] /\ ~ending[Top.d]
      BY <1>3, <2>6, <2>8 DEF WindowsKnown, WindowCount
    <3>2. DialogState[Top.d] = "closed"
      BY <1>3, <3>1 DEF DialogState
    <3>3. DialogState' = [DialogState EXCEPT ![Top.d] = "open"]
      BY <1>1, <1>3, <2>1, <3>1 DEF DialogState
    <3>4. CallsSeen = Seen(stack) /\ CallsSeen' = Seen(stack')
      BY <1>2, <2>3 DEF CallsSeen, Seen
    <3>5. Modal!Open(Top.d)
      BY <2>5, <3>2, <3>3, <3>4 DEF Modal!Open
    <3> QED
      BY <1>3, <3>5 DEF Modal!Next
  <2> QED
    BY <1>3, <2>7, <2>8
<1>5. CASE Destroyed
  <2>1. /\ Emit(Goto("destroyed"), Top.d, "other", 0, 0)
        /\ hwnd' = [hwnd EXCEPT ![Top.d] = FALSE]
        /\ ending' = [ending EXCEPT ![Top.d] = FALSE]
        /\ Top.kind = "show" /\ Top.pc = "loop" /\ ending[Top.d]
    BY <1>5 DEF Destroyed, At
  <2>2. PICK this \in Dialogs :
           stack' = Append(Goto("destroyed"), Listener(Top.d, "other", this, 0, 0))
    BY <1>1, <1>2, <1>3, <2>1, EmitCalls
  <2>3. fault' = None
    BY <1>1, <1>2, <1>3, <2>1, EmitCalls
  <2>4. Goto("destroyed") \in Seq(Frame) /\ Seen(Goto("destroyed")) = Seen(stack)
    BY <1>1, <1>2, <2>1, GotoStack, SeenGoto
  <2>5. Seen(stack') = Append(Seen(stack), Modal!Other)
    BY <1>3, <2>2, <2>4, OtherSeen
  <2>6. /\ \A i \in DOMAIN stack : ~(IsClick(stack[i]) /\ stack[i].d = Top.d)
        /\ hwnd[Top.d]
    BY <1>2, <2>1 DEF WindowsKnown
  <2>7. CallsSeen = Seen(stack) /\ CallsSeen' = Seen(stack')
    BY <1>2, <2>3 DEF CallsSeen, Seen
  <2>8. Modal!Clicks(Top.d) = {}
    <3>1. ASSUME NEW i \in DOMAIN stack PROVE ClickOf(stack[i]).d # Top.d
      <4>1. stack[i] \in Frame
        BY <1>1
      <4> QED
        BY <1>3, <2>6, <4>1, ClickMark, ConstantsAssumption
    <3>2. /\ DOMAIN CallsSeen = DOMAIN stack
          /\ \A i \in DOMAIN stack : CallsSeen[i] = ClickOf(stack[i])
      BY <2>7 DEF Seen
    <3> QED
      BY <3>1, <3>2 DEF Modal!Clicks
  <2>9. DialogState[Top.d] = "closing"
    BY <1>3, <2>1, <2>6 DEF DialogState
  <2>10. DialogState' = [DialogState EXCEPT ![Top.d] = "closed"]
    BY <1>1, <1>3, <2>1 DEF DialogState
  <2>11. Modal!Close(Top.d)
    BY <2>5, <2>7, <2>8, <2>9, <2>10 DEF Modal!Close
  <2> QED
    BY <1>3, <2>11 DEF Modal!Next
<1> QED
  BY <1>4, <1>5

\* TDN_CREATED and TDN_NAVIGATED.
LEMMA ToldStep ==
    ASSUME WindowsKnown, Created \/ Navigated
    PROVE  Modal!Next
<1>1. stack \in Seq(Frame)
  BY TypingParts DEF WindowsKnown
<1>2. PICK pc : /\ fault = None /\ stack # <<>> /\ hwnd' = hwnd /\ ending' = ending
                /\ Emit(Goto(pc), Top.d, "other", 0, 0)
                /\ \/ Top.kind = "show" /\ pc = "loop"
                   \/ Top.kind = "navigate" /\ pc = "navigated"
  BY DEF Created, Navigated, At, native, system
<1>3. Top.d \in Dialogs
  BY <1>1, <1>2, TopFrame, FrameKinds DEF Top
<1>4. PICK this \in Dialogs :
         stack' = Append(Goto(pc), Listener(Top.d, "other", this, 0, 0))
  BY <1>1, <1>2, EmitCalls
<1>5. fault' = None
  BY <1>1, <1>2, EmitCalls
<1>6. Goto(pc) \in Seq(Frame) /\ Seen(Goto(pc)) = Seen(stack)
  BY <1>1, <1>2, GotoStack, SeenGoto
<1>7. Seen(stack') = Append(Seen(stack), Modal!Other)
  BY <1>3, <1>4, <1>6, OtherSeen
<1> QED
  BY <1>1, <1>2, <1>5, <1>7, EnterStep

\* Who can pump messages: no click, and no listener.
LEMMA PumpingCall ==
    ASSUME stack \in Seq(Frame), Pumping
    PROVE  /\ fault = None /\ stack # <<>> /\ ~IsClick(Top)
           /\ Top = stack[Len(stack)] /\ Top \in Frame
<1>1. fault = None /\ stack # <<>> /\ Top.pc \in {"loop", "modal"}
  BY DEF Pumping
<1>2. Top = stack[Len(stack)] /\ Top \in Frame
  BY <1>1, TopFrame DEF Top
<1>3. ~IsClick(Top)
  BY <1>1, <1>2, FrameKinds DEF IsClick
<1>4. QED
  BY <1>1, <1>2, <1>3

\* A click is reported, or reporting it throws.
LEMMA ClickStep ==
    ASSUME WindowsKnown, NEW d \in Dialogs, NEW i \in 0..Len(page[d]), ButtonClicked(d, i)
    PROVE  Modal!Next
<1> DEFINE arg == IF i = 0 THEN 0 ELSE page[d][i] - 1000
           st == ClickedAgain(d)
<1>1. stack \in Seq(Frame) /\ page[d] \in Seq(Nat)
  BY TypingParts DEF WindowsKnown, FieldsTyped
<1>2. /\ Reports(d) /\ Emit(st, d, "click", i, arg) /\ hwnd' = hwnd /\ ending' = ending
  BY DEF ButtonClicked, system
<1>3. /\ fault = None /\ stack # <<>> /\ ~IsClick(Top)
      /\ Top = stack[Len(stack)] /\ Top \in Frame
      /\ Len(stack) \in Nat \ {0} /\ Len(stack) \in DOMAIN stack
  <2>1. Pumping
    BY <1>2 DEF Reports
  <2>2. fault = None /\ stack # <<>> /\ ~IsClick(Top)
    BY <1>1, <2>1, PumpingCall
  <2> QED
    BY <1>1, <2>2, TopFrame DEF Top
<1>4. DialogState' = DialogState /\ DialogState[d] = "open"
  <2>1. hwnd[d] /\ ~ending[d]
    BY <1>2 DEF WindowsKnown, WindowCount, Reports
  <2> QED
    BY <1>2, <2>1 DEF DialogState
<1>5. /\ Seen(st) = Modal!Repeated(d) /\ st \in Seq(Frame) /\ st # <<>>
  <2>1. st \in Seq(Frame) /\ Len(st) = Len(stack)
    BY <1>1, ClickedAgainStack
  <2>2. st # <<>>
    BY <1>1, <1>3, <2>1
  <2>3. Seen(st) = Modal!Repeated(d)
    BY <1>1, <1>3, SeenMarks
  <2> QED
    BY <2>1, <2>2, <2>3
<1>6. CallsSeen = Seen(stack)
  BY <1>3 DEF CallsSeen, Seen
<1> HIDE DEF st, arg
<1>7. CASE stack' = st /\ fault' = "exception"
  BY <1>2, <1>7, CrashStep, ConstantsAssumption
<1>8. CASE stack' = Front(st) /\ fault' = fault
  <2>1. CallsSeen' = Front(Modal!Repeated(d))
    <3>1. CallsSeen' = Seen(Front(st))
      BY <1>3, <1>8 DEF CallsSeen, Seen
    <3> QED
      BY <1>5, <3>1, SeenFront
  <2>2. CallsSeen # <<>> /\ Last(CallsSeen).d = None
    <3>1. Seen(stack) # <<>>
      BY <1>1, <1>3, SeenFront
    <3>2. Last(CallsSeen) = ClickOf(Top)
      BY <1>1, <1>3, <1>6, SeenSeq DEF Last
    <3> QED
      BY <1>3, <1>6, <3>1, <3>2, ClickMark
  <2>3. Modal!ClickLost(d)
    BY <1>4, <2>1, <2>2
       DEF Modal!ClickLost, Modal!Innermost, Modal!Front, Modal!Last, Front, Last
  <2> QED
    BY <2>3 DEF Modal!Next
<1>9. CASE /\ \E this \in Dialogs : stack' = Append(st, Listener(d, "click", this, i, arg))
           /\ fault' = fault
  <2>1. PICK this \in Dialogs : stack' = Append(st, Listener(d, "click", this, i, arg))
    BY <1>9
  <2>2. arg \in Int
    <3>1. CASE i = 0
      BY <3>1 DEF arg
    <3>2. CASE i # 0
      BY <1>1, <3>2 DEF arg
    <3> QED
      BY <3>1, <3>2
  <2> DEFINE f == Listener(d, "click", this, i, arg)
  <2>3. f \in Frame
    BY <2>2, NewFrames
  <2>4. ClickOf(f) = Modal!Click(d)
    BY DEF ClickOf, Listener, Modal!Click
  <2> HIDE DEF f
  <2>5. Seen(Append(st, f)) = Append(Seen(st), Modal!Click(d))
    BY <1>5, <2>3, <2>4, SeenPush
  <2>6. CallsSeen' = Append(Modal!Repeated(d), Modal!Click(d))
    <3>1. CallsSeen' = Seen(stack')
      BY <1>3, <1>9 DEF CallsSeen, Seen
    <3> QED
      BY <1>5, <2>1, <2>5, <3>1 DEF f
  <2>7. Modal!ClickOn(d)
    BY <1>4, <2>6 DEF Modal!ClickOn
  <2> QED
    BY <2>7 DEF Modal!Next
<1> QED
  BY <1>1, <1>2, <1>3, <1>7, <1>8, <1>9, EmitStack

\* A notification that only emits, or throws.
LEMMA NotificationStep ==
    ASSUME WindowsKnown, NEW d \in Dialogs, OtherNotification(d)
    PROVE  Modal!Next
<1>1. stack \in Seq(Frame)
  BY TypingParts DEF WindowsKnown
<1>2. Reports(d) /\ Emit(stack, d, "other", 0, 0) /\ hwnd' = hwnd /\ ending' = ending
  BY DEF OtherNotification, native, system
<1>3. fault = None /\ stack # <<>> /\ ~IsClick(Top)
  <2>1. Pumping
    BY <1>2 DEF Reports
  <2> QED
    BY <1>1, <2>1, PumpingCall
<1>4. CASE stack' = stack /\ fault' = "exception"
  BY <1>2, <1>4, CrashStep, ConstantsAssumption
<1>5. CASE stack' = Front(stack) /\ fault' = fault
  BY <1>1, <1>2, <1>3, <1>5, LeaveStep
<1>6. CASE /\ \E this \in Dialogs : stack' = Append(stack, Listener(d, "other", this, 0, 0))
           /\ fault' = fault
  <2>1. Seen(stack') = Append(Seen(stack), Modal!Other)
    BY <1>1, <1>6, OtherSeen
  <2> QED
    BY <1>1, <1>2, <1>3, <1>6, <2>1, EnterStep
<1> QED
  BY <1>1, <1>2, <1>3, <1>4, <1>5, <1>6, EmitStack

\* A listener throws: the process ends, or the call that runs it is unwound.
LEMMA ThrowStep ==
    ASSUME WindowsKnown, ListenerThrows
    PROVE  Modal!Next
<1>1. stack \in Seq(Frame)
  BY TypingParts DEF WindowsKnown
<1>2. /\ fault = None /\ stack # <<>> /\ Top.kind = "listener" /\ Escape(Front(stack))
      /\ hwnd' = hwnd /\ ending' = ending
  BY DEF ListenerThrows, native, system
<1>3. CASE fault' = "exception"
  BY <1>2, <1>3, CrashStep, ConstantsAssumption
<1>4. CASE fault' = fault /\ stack' = Front(Front(stack))
  <2>1. /\ Top = stack[Len(stack)] /\ Len(stack) \in Nat \ {0}
        /\ Front(stack) \in Seq(Frame) /\ Len(Front(stack)) = Len(stack) - 1
    BY <1>1, <1>2, TopFrame, FrontStack DEF Top
  <2>2. Len(stack) >= 2
    <3>1. stack[1].kind # "listener"
      BY <1>2 DEF WindowsKnown, ListenerThrows
    <3>2. Len(stack) # 1
      BY <1>2, <2>1, <3>1
    <3> QED
      BY <2>1, <3>2
  <2>3. Front(stack) # <<>>
    BY <2>1, <2>2
  <2>4. CallsSeen = Seen(stack) /\ CallsSeen' = Seen(Front(Front(stack)))
    BY <1>2, <1>4 DEF CallsSeen, Seen
  <2>5. CallsSeen' = Front(Front(CallsSeen))
    BY <1>1, <1>2, <2>1, <2>3, <2>4, SeenFront
  <2>6. Len(CallsSeen) = Len(stack)
    BY <1>1, <2>4, SeenSeq
  <2>7. DialogState' = DialogState
    BY <1>2 DEF DialogState
  <2>8. Modal!Unwind
    BY <2>2, <2>5, <2>6, <2>7 DEF Modal!Unwind, Modal!Front, Front
  <2> QED
    BY <2>8 DEF Modal!Next
<1> QED
  BY <1>2, <1>3, <1>4 DEF Escape

\* The calls of the script.
LEMMA ScriptStep ==
    ASSUME WindowsKnown, ScriptCalls
    PROVE  Modal!Next
<1>1. stack \in Seq(Frame)
  BY TypingParts DEF WindowsKnown
<1>2. fault = None /\ fault' = None /\ hwnd' = hwnd /\ ending' = ending
  BY DEF ScriptCalls, Show, Navigate, EnterConfig, PreventClose, OpenModal, ScriptRuns,
         native, system
<1>3. ASSUME NEW f \in Frame, ~IsClick(f), stack' = Append(stack, f)
      PROVE  Modal!Next
  <2>1. Seen(stack') = Append(Seen(stack), Modal!Other)
    BY <1>1, <1>3, SeenPush, ClickMark
  <2> QED
    BY <1>1, <1>2, <2>1, EnterStep
<1>4. ASSUME NEW d \in Dialogs, NEW cfg \in Configs, Show(d, cfg) \/ Navigate(d, cfg)
      PROVE  Modal!Next
  <2>1. PICK kind \in {"show", "navigate"} : stack' = Append(stack, Call(kind, d, cfg))
    BY <1>4 DEF Show, Navigate, EnterConfig, Push
  <2>2. Call(kind, d, cfg) \in Frame
    BY NewFrames
  <2>3. ~IsClick(Call(kind, d, cfg))
    BY DEF IsClick, Call
  <2> QED
    BY <1>3, <2>1, <2>2, <2>3
<1>5. ASSUME NEW d \in Dialogs, PreventClose(d)
      PROVE  Modal!Next
  <2>1. CallsSeen' = Seen(Asked(d))
    BY <1>2, <1>5 DEF PreventClose, CallsSeen, Seen
  <2>2. CallsSeen' = [i \in DOMAIN CallsSeen |->
                         IF i \in Modal!Clicks(d)
                         THEN [CallsSeen[i] EXCEPT !.asked = TRUE] ELSE CallsSeen[i]]
    BY <1>1, <1>2, <2>1, SeenMarks
  <2>3. DialogState' = DialogState
    BY <1>2 DEF DialogState
  <2>4. Modal!PreventClose(d)
    BY <2>2, <2>3 DEF Modal!PreventClose
  <2> QED
    BY <2>4 DEF Modal!Next
<1>6. ASSUME OpenModal PROVE Modal!Next
  <2>1. [kind |-> "modal", pc |-> "modal"] \in Frame
    BY NewFrames
  <2>2. ~IsClick([kind |-> "modal", pc |-> "modal"])
    BY DEF IsClick
  <2> QED
    BY <1>3, <1>6, <2>1, <2>2 DEF OpenModal, Push
<1> QED
  BY <1>4, <1>5, <1>6 DEF ScriptCalls

\* Calls return.
LEMMA ReturnStep ==
    ASSUME WindowsKnown, SystemFails \/ CallReturns \/ CloseModal \/ ListenersReturn
    PROVE  Modal!Next
<1>1. stack \in Seq(Frame)
  BY TypingParts DEF WindowsKnown
<1>2. fault = None /\ stack # <<>> /\ stack' = Front(stack) /\ fault' = None
  BY DEF SystemFails, CallReturns, CloseModal, ListenersReturn, HandedOver, AtCall, At,
         native, system
<1>3. CASE SystemFails \/ CallReturns \/ CloseModal
  <2>1. hwnd' = hwnd /\ ending' = ending
    BY <1>3 DEF SystemFails, CallReturns, CloseModal, native, system
  <2>2. Top.pc \in {"open", "send", "destroyed", "navigated", "modal"}
    <3>1. CASE CloseModal
      BY <1>1, <1>2, <3>1, TopFrame, FrameKinds DEF CloseModal, Top
    <3>2. CASE SystemFails \/ CallReturns
      BY <3>2 DEF SystemFails, CallReturns, HandedOver, AtCall, At
    <3> QED
      BY <1>3, <3>1, <3>2
  <2>3. ~IsClick(Top)
    BY <1>1, <1>2, <2>2, TopFrame, FrameKinds DEF IsClick, Top
  <2> QED
    BY <1>1, <1>2, <2>1, <2>3, LeaveStep
<1>4. CASE ListenersReturn /\ IsClick(Top)
  BY <1>4, AnswerStep
<1>5. CASE ListenersReturn /\ ~IsClick(Top)
  <2>1. hwnd' = hwnd /\ ending' = ending
    BY <1>5 DEF ListenersReturn, IsClick
  <2> QED
    BY <1>1, <1>2, <1>5, <2>1, LeaveStep
<1> QED
  BY <1>3, <1>4, <1>5

\* CreateConfig is not seen.
LEMMA ConfigSeen ==
    ASSUME WindowsKnown, AllocButtons \/ FillButtons \/ FillRadios
    PROVE  UNCHANGED Modal!vars
<1>1. stack \in Seq(Frame)
  BY TypingParts DEF WindowsKnown
<1>2. /\ stack # <<>> /\ Top.pc \in Reading
      /\ hwnd' = hwnd /\ ending' = ending /\ fault' = fault
      /\ \E pc \in {"buttons", "radios"} \cup {IF Top.kind = "show" THEN "open" ELSE "send"} :
            stack' = Goto(pc)
  BY DEF AllocButtons, FillButtons, FillRadios, AtCall, Reading, system
<1>3. Top.kind \in {"show", "navigate"}
  BY <1>1, <1>2, TopCall
<1>4. PICK pc : /\ stack' = Goto(pc)
                /\ \/ Top.kind = "show" /\ pc \in {"buttons", "radios", "open"}
                   \/ Top.kind = "navigate" /\ pc \in {"buttons", "radios", "send"}
  BY <1>2, <1>3
<1>5. Seen(stack') = Seen(stack)
  BY <1>1, <1>2, <1>4, SeenGoto DEF Reading
<1> QED
  BY <1>2, <1>5, StutterStep

LEMMA PromiseStep ==
    ASSUME WindowsKnown, [Next]_vars
    PROVE  [Modal!Next]_(Modal!vars)
<1>1. CASE ScriptCalls
  BY <1>1, ScriptStep
<1>2. CASE ArrayFault \/ \E d \in Dialogs : DanglingCallback(d)
  <2>1. /\ fault' \in {"array", "dangling"} /\ hwnd' = hwnd /\ ending' = ending
    BY <1>2 DEF ArrayFault, DanglingCallback, Broken, native, system
  <2> QED
    BY <2>1, CrashStep, ConstantsAssumption
<1>3. CASE AllocButtons \/ FillButtons \/ FillRadios
  BY <1>3, ConfigSeen
<1>4. CASE DialogConstructed \/ Destroyed
  BY <1>4, WindowStep
<1>5. CASE Created \/ Navigated
  BY <1>5, ToldStep
<1>6. CASE SystemFails \/ CallReturns \/ CloseModal \/ ListenersReturn
  BY <1>6, ReturnStep
<1>7. CASE \E d \in Dialogs : \E i \in 0..Len(page[d]) : ButtonClicked(d, i)
  BY <1>7, ClickStep
<1>8. CASE \E d \in Dialogs : OtherNotification(d)
  BY <1>8, NotificationStep
<1>9. CASE ListenerThrows
  BY <1>9, ThrowStep
<1>10. CASE Ended \/ UNCHANGED vars \/ \E d \in Dialogs : Finalize(d)
  <2>1. stack' = stack /\ fault' = fault /\ hwnd' = hwnd /\ ending' = ending
    BY <1>10 DEF Ended, Finalize, vars, native, system
  <2> QED
    BY <2>1, StutterStep
<1>11. CASE ConfigThrows
  <2>1. stack \in Seq(Frame)
    BY TypingParts DEF WindowsKnown
  <2>2. /\ stack # <<>> /\ Top.pc \in Reading /\ fault = None /\ fault' = None
        /\ hwnd' = hwnd /\ ending' = ending /\ stack' = Front(stack)
    BY <1>11 DEF ConfigThrows, native, system
  <2>3. ~IsClick(Top)
    BY <2>1, <2>2, TopFrame, FrameKinds DEF IsClick, Reading, Top
  <2> QED
    BY <2>1, <2>2, <2>3, LeaveStep
<1> QED
  BY <1>1, <1>2, <1>3, <1>4, <1>5, <1>6, <1>7, <1>8, <1>9, <1>10, <1>11
     DEF Next, ConfigStep, SystemStep, UserActs

LEMMA PromiseInit == Init => Modal!Init
<1> SUFFICES ASSUME Init PROVE Modal!Init
  OBVIOUS
<1>1. DialogState = [d \in Dialogs |-> "closed"]
  BY DEF Init, DialogState
<1>2. CallsSeen = <<>>
  BY DEF Init, CallsSeen
<1> QED
  BY <1>1, <1>2 DEF Modal!Init

\* KeepsPromise: every behaviour of the dialogs, with any number of objects, at any
\* depth, with exceptions and failures, is one of ModalDialogs, unless both code that
\* reading the argument runs shows the same dialog and listeners throw.
THEOREM PromiseKept == ASSUME ~(Getters /\ Throws) PROVE Spec => KeepsPromise
<1>1. WindowsKnown /\ [Next]_vars => [Modal!Next]_(Modal!vars)
  BY PromiseStep
<1> QED
  BY WindowsKnownHolds, PromiseInit, <1>1, PTL DEF Spec, KeepsPromise, Modal!Spec
===========================================================================
