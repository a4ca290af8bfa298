---------------------- MODULE TaskDialogWindowProofs ----------------------
(***************************************************************************)
(* Proofs about the windows of TaskDialog.  First with exceptions, when       *)
(* reading the argument of show runs no code of the script (~Getters); then   *)
(* with such code, when listeners do not throw (~Throws).  With both, a       *)
(* window that an exception left behind can be shown a second time; what      *)
(* holds in either case is WindowsKnown.                                      *)
(***************************************************************************)
EXTENDS TaskDialogProofs

\* The call that owns a window, and what refers to one.
Showing(f) == f.kind = "show" /\ f.pc \in {"constructed", "loop"}

OnWindow(f) == Showing(f) \/ IsClick(f)

\* A call that has not handed its configuration over.
Early(f) == f.kind \in {"show", "navigate"} /\ f.pc \in Reading \cup {"open", "send"}

\* Only the innermost call is early, a show without and a navigate with a
\* window; calls that show a window and clicks have one; a window is shown by
\* one call, below every click on it; a listener is run by some call.
WindowFacts(st, hw) ==
    /\ \A i \in DOMAIN st : Early(st[i]) =>
          i = Len(st) /\ (hw[st[i].d] <=> st[i].kind = "navigate")
    /\ \A i \in DOMAIN st : OnWindow(st[i]) => hw[st[i].d]
    /\ \A i, j \in DOMAIN st :
          Showing(st[i]) /\ OnWindow(st[j]) /\ st[j].d = st[i].d => i <= j
    /\ st # <<>> => st[1].kind # "listener"

\* No call of new is early, and what refers to a window did so in old.
Settled(old, new) ==
    /\ \A i \in DOMAIN new :
          /\ ~Early(new[i])
          /\ OnWindow(new[i]) => /\ i \in DOMAIN old /\ OnWindow(old[i])
                                 /\ Showing(new[i]) => Showing(old[i])
                                 /\ new[i].d = old[i].d
    /\ new # <<>> => new[1].kind # "listener"

LEMMA SettledFacts ==
    ASSUME NEW old, NEW new, NEW hw, WindowFacts(old, hw), Settled(old, new)
    PROVE  WindowFacts(new, hw)
<1>1. ASSUME NEW i \in DOMAIN new, OnWindow(new[i]) PROVE hw[new[i].d]
  BY <1>1 DEF WindowFacts, Settled
<1>2. ASSUME NEW i \in DOMAIN new, NEW j \in DOMAIN new,
             Showing(new[i]), OnWindow(new[j]), new[j].d = new[i].d
      PROVE  i <= j
  <2>1. OnWindow(new[i])
    BY <1>2 DEF OnWindow
  <2>2. /\ i \in DOMAIN old /\ Showing(old[i]) /\ old[i].d = new[i].d
        /\ j \in DOMAIN old /\ OnWindow(old[j]) /\ old[j].d = new[j].d
    BY <1>2, <2>1 DEF Settled
  <2> QED
    BY <1>2, <2>2 DEF WindowFacts
<1> QED
  BY <1>1, <1>2 DEF WindowFacts, Settled

LEMMA NoneEarly ==
    ASSUME NEW st \in Seq(Frame), NEW hw, WindowFacts(st, hw),
           st = <<>> \/ ~Early(Last(st))
    PROVE  \A i \in DOMAIN st : ~Early(st[i])
<1>1. CASE st = <<>>
  BY <1>1
<1>2. CASE st # <<>>
  <2>1. Last(st) = st[Len(st)] /\ Len(st) \in DOMAIN st
    BY <1>2, TopFrame
  <2> QED
    BY <1>2, <2>1 DEF WindowFacts
<1> QED
  BY <1>1, <1>2

LEMMA SettledFront ==
    ASSUME NEW st \in Seq(Frame), NEW hw, WindowFacts(st, hw)
    PROVE  WindowFacts(Front(st), hw)
<1>1. CASE st = <<>>
  <2>1. Front(st) = SubSeq(<<>>, 1, -1)
    BY <1>1 DEF Front
  <2>2. Front(st) = <<>>
    BY <2>1
  <2> QED
    BY <2>2 DEF WindowFacts
<1>2. CASE st # <<>>
  <2>1. /\ Len(st) \in Nat \ {0} /\ DOMAIN st = 1..Len(st)
        /\ DOMAIN Front(st) = 1..(Len(st) - 1)
        /\ \A i \in 1..(Len(st) - 1) : Front(st)[i] = st[i]
        /\ Front(st) \in Seq(Frame)
    BY <1>2, FrontStack, TopFrame
  <2>2. \A i \in 1..(Len(st) - 1) : ~Early(st[i])
    BY <2>1 DEF WindowFacts
  <2>3. Front(st) # <<>> => Front(st)[1] = st[1]
    BY <2>1
  <2>4. Settled(st, Front(st))
    BY <1>2, <2>1, <2>2, <2>3 DEF Settled, WindowFacts
  <2> QED
    BY <2>4, SettledFacts
<1> QED
  BY <1>1, <1>2

\* Pushing a call that is not early and refers to no window.
LEMMA SettledPush ==
    ASSUME NEW st \in Seq(Frame), NEW hw, WindowFacts(st, hw),
           st # <<>> => ~Early(Last(st)),
           NEW f \in Frame, ~Early(f), ~OnWindow(f), st = <<>> => f.kind # "listener"
    PROVE  WindowFacts(Append(st, f), hw)
<1>1. /\ DOMAIN Append(st, f) = 1..(Len(st) + 1) /\ DOMAIN st = 1..Len(st)
      /\ Len(st) \in Nat
      /\ \A i \in 1..Len(st) : Append(st, f)[i] = st[i]
      /\ Append(st, f)[Len(st) + 1] = f
  BY PushStack
<1>2. \A i \in 1..Len(st) : ~Early(st[i])
  BY <1>1, NoneEarly
<1>3. Append(st, f)[1].kind # "listener"
  <2>1. CASE st = <<>>
    BY <1>1, <2>1
  <2>2. CASE st # <<>>
    BY <1>1, <2>2 DEF WindowFacts
  <2> QED
    BY <2>1, <2>2
<1>4. ASSUME NEW i \in 1..(Len(st) + 1)
      PROVE  /\ ~Early(Append(st, f)[i])
             /\ OnWindow(Append(st, f)[i]) =>
                   i \in 1..Len(st) /\ Append(st, f)[i] = st[i]
  <2>1. CASE i = Len(st) + 1
    BY <1>1, <2>1
  <2>2. CASE i \in 1..Len(st)
    BY <1>1, <1>2, <2>2
  <2> QED
    BY <1>1, <2>1, <2>2
<1>5. Settled(st, Append(st, f))
  BY <1>1, <1>3, <1>4 DEF Settled
<1> QED
  BY <1>5, SettledFacts

\* The script calls show or navigate.
LEMMA EarlyPush ==
    ASSUME NEW st \in Seq(Frame), NEW hw \in [Dialogs -> BOOLEAN], WindowFacts(st, hw),
           st # <<>> => ~Early(Last(st)),
           NEW f \in Frame, Early(f), hw[f.d] <=> f.kind = "navigate"
    PROVE  WindowFacts(Append(st, f), hw)
<1> DEFINE new == Append(st, f)
<1>1. /\ DOMAIN new = 1..(Len(st) + 1) /\ DOMAIN st = 1..Len(st)
      /\ Len(st) \in Nat /\ Len(new) = Len(st) + 1
      /\ \A i \in 1..Len(st) : new[i] = st[i]
      /\ new[Len(st) + 1] = f
  BY PushStack
<1>2. \A i \in 1..Len(st) : ~Early(st[i])
  BY <1>1, NoneEarly
<1>3. ~OnWindow(f) /\ f.kind # "listener"
  BY DEF OnWindow, Showing, IsClick, Early, Reading
<1> HIDE DEF new
<1>4. new[1].kind # "listener"
  <2>1. CASE st = <<>>
    BY <1>1, <1>3, <2>1
  <2>2. CASE st # <<>>
    BY <1>1, <2>2 DEF WindowFacts
  <2> QED
    BY <2>1, <2>2
<1>5. ASSUME NEW i \in 1..(Len(st) + 1), Early(new[i])
      PROVE  i = Len(new) /\ (hw[new[i].d] <=> new[i].kind = "navigate")
  BY <1>1, <1>2, <1>5
<1>6. ASSUME NEW i \in 1..(Len(st) + 1), OnWindow(new[i])
      PROVE  i \in 1..Len(st) /\ new[i] = st[i]
  BY <1>1, <1>3, <1>6
<1>7. ASSUME NEW i \in 1..(Len(st) + 1) PROVE Showing(new[i]) => OnWindow(new[i])
  BY DEF OnWindow
<1>8. WindowFacts(new, hw)
  BY <1>1, <1>4, <1>5, <1>6, <1>7 DEF WindowFacts
<1> QED
  BY <1>8 DEF new

\* A click is reported for a window.
LEMMA ClickPush ==
    ASSUME NEW st \in Seq(Frame), st # <<>>, NEW hw \in [Dialogs -> BOOLEAN],
           WindowFacts(st, hw), ~Early(Last(st)),
           NEW f \in Frame, IsClick(f), hw[f.d]
    PROVE  WindowFacts(Append(st, f), hw)
<1> DEFINE new == Append(st, f)
<1>1. /\ DOMAIN new = 1..(Len(st) + 1) /\ DOMAIN st = 1..Len(st)
      /\ Len(st) \in Nat \ {0} /\ Len(new) = Len(st) + 1
      /\ \A i \in 1..Len(st) : new[i] = st[i]
      /\ new[Len(st) + 1] = f
  BY PushStack, TopFrame
<1>2. \A i \in 1..Len(st) : ~Early(st[i])
  BY <1>1, NoneEarly
<1>3. ~Showing(f) /\ ~Early(f)
  BY DEF Showing, IsClick, Early
<1> HIDE DEF new
<1>4. new[1].kind # "listener"
  BY <1>1 DEF WindowFacts
<1>5. ASSUME NEW i \in 1..(Len(st) + 1) PROVE ~Early(new[i])
  BY <1>1, <1>2, <1>3
<1>6. ASSUME NEW i \in 1..(Len(st) + 1), OnWindow(new[i]) PROVE hw[new[i].d]
  <2>1. CASE i = Len(st) + 1
    BY <1>1, <2>1
  <2>2. CASE i \in 1..Len(st)
    BY <1>1, <1>6, <2>2 DEF WindowFacts
  <2> QED
    BY <1>1, <2>1, <2>2
<1>7. ASSUME NEW i \in 1..(Len(st) + 1), NEW j \in 1..(Len(st) + 1),
             Showing(new[i]), OnWindow(new[j]), new[j].d = new[i].d
      PROVE  i <= j
  <2>1. i \in 1..Len(st) /\ new[i] = st[i]
    BY <1>1, <1>3, <1>7
  <2>2. CASE j = Len(st) + 1
    BY <1>1, <2>1, <2>2
  <2>3. CASE j \in 1..Len(st)
    BY <1>1, <1>7, <2>1, <2>3 DEF WindowFacts
  <2> QED
    BY <1>1, <2>2, <2>3
<1>8. WindowFacts(new, hw)
  BY <1>1, <1>4, <1>5, <1>6, <1>7 DEF WindowFacts
<1> QED
  BY <1>8 DEF new

---------------------------------------------------------------------------
(* The innermost call moves on *)

\* What a call at another program counter is.
LEMMA MovedTop ==
    ASSUME stack \in Seq(Frame), stack # <<>>, NEW pc,
           \/ Top.kind = "show" /\ pc \in Reading \cup {"open", "constructed", "loop", "destroyed"}
           \/ Top.kind = "navigate" /\ pc \in Reading \cup {"send", "constructed", "navigated"}
    PROVE  LET new == Goto(pc)
               n == Len(stack)
           IN /\ n \in Nat \ {0} /\ DOMAIN stack = 1..n /\ DOMAIN new = 1..n /\ Len(new) = n
              /\ Top = stack[n]
              /\ \A i \in 1..(n - 1) : new[i] = stack[i]
              /\ new[n].kind = Top.kind /\ new[n].d = Top.d /\ new[n].pc = pc
              /\ Top.d \in Dialogs
              /\ ~IsClick(new[n]) /\ ~IsClick(Top)
              /\ new[1].kind = stack[1].kind
<1> DEFINE new == Goto(pc)
           n == Len(stack)
<1>1. n \in Nat \ {0} /\ Top = stack[n] /\ Top \in Frame
  BY TopFrame DEF Top
<1>2. /\ new \in Seq(Frame) /\ Len(new) = n
      /\ \A i \in 1..(n - 1) : new[i] = stack[i]
      /\ new[n] = [Top EXCEPT !.pc = pc]
  BY GotoStack
<1>3. DOMAIN stack = 1..n
  OBVIOUS
<1> HIDE DEF new, n
<1>4. /\ new[n].kind = Top.kind /\ new[n].d = Top.d /\ new[n].pc = pc
  BY <1>1, <1>2, GotoFrame
<1>5. ~IsClick(new[n]) /\ ~IsClick(Top) /\ Top.d \in Dialogs
  BY <1>1, <1>4, FrameKinds DEF IsClick
<1>6. new[1].kind = stack[1].kind
  <2>1. CASE n = 1
    BY <1>1, <1>4, <2>1
  <2>2. CASE 1 \in 1..(n - 1)
    BY <1>2, <2>2
  <2> QED
    BY <1>1, <2>1, <2>2
<1>7. DOMAIN new = 1..n
  BY <1>2
<1> QED
  BY <1>1, <1>2, <1>3, <1>4, <1>5, <1>6, <1>7 DEF new, n

\* CreateConfig goes on.
LEMMA EarlyGoto ==
    ASSUME stack \in Seq(Frame), stack # <<>>, NEW hw, WindowFacts(stack, hw),
           Early(Top), NEW pc,
           \/ Top.kind = "show" /\ pc \in Reading \cup {"open"}
           \/ Top.kind = "navigate" /\ pc \in Reading \cup {"send"}
    PROVE  WindowFacts(Goto(pc), hw)
<1> DEFINE new == Goto(pc)
           n == Len(stack)
<1>1. /\ n \in Nat \ {0} /\ DOMAIN stack = 1..n /\ DOMAIN new = 1..n /\ Len(new) = n
      /\ Top = stack[n]
      /\ \A i \in 1..(n - 1) : new[i] = stack[i]
      /\ new[n].kind = Top.kind /\ new[n].d = Top.d /\ new[n].pc = pc
      /\ ~IsClick(new[n]) /\ new[1].kind = stack[1].kind
  BY MovedTop
<1> HIDE DEF new, n
<1>2. ~OnWindow(new[n])
  BY <1>1 DEF OnWindow, Showing, Reading
<1>3. \A i \in 1..n : ~Early(stack[i]) \/ i = n
  BY <1>1 DEF WindowFacts, n
<1>4. hw[new[n].d] <=> new[n].kind = "navigate"
  BY <1>1 DEF WindowFacts
<1>5. ASSUME NEW i \in 1..n, Early(new[i])
      PROVE  i = Len(new) /\ (hw[new[i].d] <=> new[i].kind = "navigate")
  BY <1>1, <1>3, <1>4, <1>5
<1>6. ASSUME NEW i \in 1..n, OnWindow(new[i])
      PROVE  new[i] = stack[i]
  BY <1>1, <1>2, <1>6
<1>7. ASSUME NEW i \in 1..n PROVE Showing(new[i]) => OnWindow(new[i])
  BY DEF OnWindow
<1>8. new[1].kind # "listener"
  BY <1>1 DEF WindowFacts
<1>9. WindowFacts(new, hw)
  BY <1>1, <1>5, <1>6, <1>7, <1>8 DEF WindowFacts
<1> QED
  BY <1>9 DEF new

\* A call that has its window goes on.
LEMMA LateGoto ==
    ASSUME stack \in Seq(Frame), stack # <<>>, NEW hw, WindowFacts(stack, hw), NEW pc,
           \/ Top.kind = "show" /\ Top.pc = "constructed" /\ pc = "loop"
           \/ Top.kind = "navigate" /\ pc \in {"constructed", "navigated"}
    PROVE  WindowFacts(Goto(pc), hw) /\ ~Early(Last(Goto(pc)))
<1> DEFINE new == Goto(pc)
           n == Len(stack)
<1>1. /\ n \in Nat \ {0} /\ DOMAIN stack = 1..n /\ DOMAIN new = 1..n /\ Len(new) = n
      /\ Top = stack[n]
      /\ \A i \in 1..(n - 1) : new[i] = stack[i]
      /\ new[n].kind = Top.kind /\ new[n].d = Top.d /\ new[n].pc = pc
      /\ ~IsClick(new[n]) /\ new[1].kind = stack[1].kind
  BY MovedTop
<1>2. Last(new) = new[n]
  BY <1>1 DEF Last
<1>3. \A i \in 1..n : ~Early(stack[i]) \/ i = n
  BY <1>1 DEF WindowFacts
<1>4. stack[1].kind # "listener"
  BY DEF WindowFacts
<1> HIDE DEF new, n
<1>5. ~Early(new[n])
  BY <1>1 DEF Early, Reading
<1>6. ASSUME NEW i \in 1..n
      PROVE  /\ ~Early(new[i])
             /\ OnWindow(new[i]) => /\ OnWindow(stack[i])
                                    /\ Showing(new[i]) => Showing(stack[i])
                                    /\ new[i].d = stack[i].d
  <2>1. CASE i = n
    BY <1>1, <1>5, <2>1 DEF OnWindow, Showing
  <2>2. CASE i \in 1..(n - 1)
    <3>1. new[i] = stack[i] /\ ~Early(stack[i])
      BY <1>1, <1>3, <2>2
    <3> QED
      BY <3>1
  <2> QED
    BY <1>1, <2>1, <2>2
<1>7. Settled(stack, new)
  BY <1>1, <1>4, <1>6 DEF Settled
<1> QED
  BY <1>2, <1>5, <1>7, SettledFacts DEF new

\* The window of show appears.
LEMMA OpenGoto ==
    ASSUME stack \in Seq(Frame), stack # <<>>, NEW hw \in [Dialogs -> BOOLEAN],
           WindowFacts(stack, hw), Top.kind = "show", Top.pc = "open"
    PROVE  /\ WindowFacts(Goto("constructed"), [hw EXCEPT ![Top.d] = TRUE])
           /\ ~Early(Last(Goto("constructed")))
           /\ Goto("constructed") \in Seq(Frame) /\ Goto("constructed") # <<>>
<1> DEFINE new == Goto("constructed")
           n == Len(stack)
           hw2 == [hw EXCEPT ![Top.d] = TRUE]
<1>1. /\ n \in Nat \ {0} /\ DOMAIN stack = 1..n /\ DOMAIN new = 1..n /\ Len(new) = n
      /\ Top = stack[n]
      /\ \A i \in 1..(n - 1) : new[i] = stack[i]
      /\ new[n].kind = Top.kind /\ new[n].d = Top.d /\ new[n].pc = "constructed"
      /\ Top.d \in Dialogs
      /\ ~IsClick(new[n]) /\ new[1].kind = stack[1].kind
  BY MovedTop
<1>2. Last(new) = new[n]
  BY <1>1 DEF Last
<1>3. \A i \in 1..n : ~Early(stack[i]) \/ i = n
  BY <1>1 DEF WindowFacts
<1>4. stack[1].kind # "listener" /\ new # <<>>
  BY <1>1 DEF WindowFacts
<1>5. new \in Seq(Frame)
  BY GotoStack
<1>6. Early(Top) /\ hw[Top.d] = FALSE
  BY <1>1 DEF Early, WindowFacts
<1>7. \A d \in Dialogs : hw[d] => hw2[d]
  OBVIOUS
<1>8. hw2[Top.d]
  BY <1>1
<1> HIDE DEF new, n, hw2
<1>9. ~Early(new[n])
  BY <1>1 DEF Early, Reading
<1>10. ASSUME NEW i \in 1..(n - 1), OnWindow(stack[i])
       PROVE  hw[stack[i].d] /\ stack[i].d # Top.d /\ stack[i].d \in Dialogs
  <2>1. stack[i] \in Frame /\ i \in 1..n
    BY <1>1
  <2>2. stack[i].d \in Dialogs
    BY <1>10, <2>1, FrameKinds DEF OnWindow, Showing, IsClick
  <2>3. hw[stack[i].d]
    BY <1>1, <1>10, <2>1 DEF WindowFacts
  <2> QED
    BY <1>6, <2>2, <2>3
<1>11. ASSUME NEW i \in 1..n, i # n PROVE new[i] = stack[i] /\ i \in 1..(n - 1)
  BY <1>1, <1>11
<1>12. ASSUME NEW i \in 1..n PROVE ~Early(new[i])
  BY <1>1, <1>3, <1>9, <1>11
<1>13. ASSUME NEW i \in 1..n, OnWindow(new[i]) PROVE hw2[new[i].d]
  BY <1>1, <1>7, <1>8, <1>10, <1>11, <1>13
<1>14. ASSUME NEW i \in 1..n, NEW j \in 1..n,
              Showing(new[i]), OnWindow(new[j]), new[j].d = new[i].d
       PROVE  i <= j
  <2>1. CASE j = n
    BY <1>1, <2>1
  <2>2. CASE i = n /\ j # n
    BY <1>1, <1>10, <1>11, <1>14, <2>2
  <2>3. CASE i # n /\ j # n
    <3>1. new[i] = stack[i] /\ new[j] = stack[j]
      BY <1>11, <2>3
    <3> QED
      BY <1>1, <1>14, <3>1 DEF WindowFacts
  <2> QED
    BY <2>1, <2>2, <2>3
<1>15. WindowFacts(new, hw2)
  BY <1>1, <1>4, <1>12, <1>13, <1>14 DEF WindowFacts
<1> QED
  BY <1>1, <1>2, <1>4, <1>5, <1>9, <1>15 DEF new, hw2

\* The window of show goes: nothing else refers to it.
LEMMA GoneGoto ==
    ASSUME stack \in Seq(Frame), stack # <<>>, NEW hw \in [Dialogs -> BOOLEAN],
           WindowFacts(stack, hw), Top.kind = "show", Top.pc = "loop"
    PROVE  /\ WindowFacts(Goto("destroyed"), [hw EXCEPT ![Top.d] = FALSE])
           /\ ~Early(Last(Goto("destroyed")))
           /\ Goto("destroyed") \in Seq(Frame) /\ Goto("destroyed") # <<>>
           /\ \A i \in DOMAIN stack : ~(IsClick(stack[i]) /\ stack[i].d = Top.d)
           /\ hw[Top.d]
<1> DEFINE new == Goto("destroyed")
           n == Len(stack)
           hw2 == [hw EXCEPT ![Top.d] = FALSE]
<1>1. /\ n \in Nat \ {0} /\ DOMAIN stack = 1..n /\ DOMAIN new = 1..n /\ Len(new) = n
      /\ Top = stack[n]
      /\ \A i \in 1..(n - 1) : new[i] = stack[i]
      /\ new[n].kind = Top.kind /\ new[n].d = Top.d /\ new[n].pc = "destroyed"
      /\ Top.d \in Dialogs
      /\ ~IsClick(new[n]) /\ ~IsClick(Top) /\ new[1].kind = stack[1].kind
  BY MovedTop
<1>2. Last(new) = new[n]
  BY <1>1 DEF Last
<1>3. \A i \in 1..n : ~Early(stack[i]) \/ i = n
  BY <1>1 DEF WindowFacts
<1>4. stack[1].kind # "listener" /\ new # <<>>
  BY <1>1 DEF WindowFacts
<1>5. new \in Seq(Frame)
  BY GotoStack
<1>6. \A d \in Dialogs : d # Top.d => hw2[d] = hw[d]
  OBVIOUS
<1> HIDE DEF new, n, hw2
<1>7. Showing(Top) /\ OnWindow(Top)
  BY DEF Showing, OnWindow
<1>8. ~Early(new[n]) /\ ~OnWindow(new[n])
  BY <1>1 DEF Early, Reading, OnWindow, Showing
<1>9. ASSUME NEW i \in 1..(n - 1), OnWindow(stack[i])
      PROVE  hw[stack[i].d] /\ stack[i].d # Top.d /\ stack[i].d \in Dialogs
  <2>1. stack[i] \in Frame /\ i \in 1..n /\ n \in 1..n
    BY <1>1
  <2>2. stack[i].d \in Dialogs
    BY <1>9, <2>1, FrameKinds DEF OnWindow, Showing, IsClick
  <2>3. hw[stack[i].d]
    BY <1>1, <1>9, <2>1 DEF WindowFacts
  <2>4. stack[i].d = Top.d => n <= i
    BY <1>1, <1>7, <1>9, <2>1 DEF WindowFacts
  <2> QED
    BY <1>1, <2>2, <2>3, <2>4
<1>10. ASSUME NEW i \in 1..n, i # n PROVE new[i] = stack[i] /\ i \in 1..(n - 1)
  BY <1>1, <1>10
<1>11. ASSUME NEW i \in 1..n PROVE ~Early(new[i])
  BY <1>1, <1>3, <1>8, <1>10
<1>12. ASSUME NEW i \in 1..n, OnWindow(new[i])
       PROVE  new[i] = stack[i] /\ OnWindow(stack[i]) /\ i \in 1..(n - 1) /\ hw2[new[i].d]
  BY <1>6, <1>8, <1>9, <1>10, <1>12
<1>13. ASSUME NEW i \in 1..n, NEW j \in 1..n,
              Showing(new[i]), OnWindow(new[j]), new[j].d = new[i].d
       PROVE  i <= j
  <2>1. OnWindow(new[i])
    BY <1>13 DEF OnWindow
  <2>2. new[i] = stack[i] /\ new[j] = stack[j]
    BY <1>12, <1>13, <2>1
  <2> QED
    BY <1>1, <1>13, <2>2 DEF WindowFacts
<1>14. WindowFacts(new, hw2)
  BY <1>1, <1>4, <1>11, <1>12, <1>13 DEF WindowFacts
<1>15. \A i \in 1..n : ~(IsClick(stack[i]) /\ stack[i].d = Top.d)
  BY <1>1, <1>9, <1>10 DEF OnWindow
<1>16. hw[Top.d]
  BY <1>1, <1>7 DEF WindowFacts
<1> QED
  BY <1>1, <1>2, <1>4, <1>5, <1>8, <1>14, <1>15, <1>16 DEF new, hw2

\* Marks on listeners under way change nothing here.
LEMMA MarkedFacts ==
    ASSUME NEW old \in Seq(Frame), NEW new \in Seq(Frame), NEW hw, WindowFacts(old, hw),
           old # <<>> => ~Early(Last(old)), Len(new) = Len(old),
           \A i \in DOMAIN old : \/ new[i] = old[i]
                                 \/ /\ old[i].kind = "listener" /\ new[i].kind = "listener"
                                    /\ IsClick(new[i]) => IsClick(old[i])
                                    /\ new[i].d = old[i].d
    PROVE  WindowFacts(new, hw) /\ (new # <<>> => ~Early(Last(new)))
<1>1. DOMAIN new = 1..Len(old) /\ DOMAIN old = 1..Len(old) /\ Len(old) \in Nat
  OBVIOUS
<1>2. \A i \in 1..Len(old) : ~Early(old[i])
  BY <1>1, NoneEarly
<1>3. ASSUME NEW i \in 1..Len(old)
      PROVE  /\ ~Early(new[i])
             /\ OnWindow(new[i]) => /\ OnWindow(old[i])
                                    /\ Showing(new[i]) => Showing(old[i])
                                    /\ new[i].d = old[i].d
             /\ new[i].kind = old[i].kind
  <2>1. CASE new[i] = old[i]
    BY <1>2, <2>1
  <2>2. CASE /\ old[i].kind = "listener" /\ new[i].kind = "listener"
             /\ IsClick(new[i]) => IsClick(old[i])
             /\ new[i].d = old[i].d
    BY <2>2 DEF Early, OnWindow, Showing
  <2> QED
    BY <1>1, <2>1, <2>2
<1>4. new # <<>> => new[1].kind # "listener"
  <2>1. new # <<>> => old # <<>> /\ 1 \in 1..Len(old)
    BY <1>1
  <2> QED
    BY <1>3, <2>1 DEF WindowFacts
<1>5. Settled(old, new)
  BY <1>1, <1>3, <1>4 DEF Settled
<1>6. new # <<>> => ~Early(Last(new))
  BY <1>1, <1>3 DEF Last
<1> QED
  BY <1>5, <1>6, SettledFacts

LEMMA AskedMarks ==
    ASSUME stack \in Seq(Frame), NEW hw, WindowFacts(stack, hw),
           stack # <<>> => ~Early(Top), NEW d
    PROVE  WindowFacts(Asked(d), hw)
<1>1. ASSUME NEW i \in DOMAIN stack
      PROVE  \/ Asked(d)[i] = stack[i]
             \/ /\ stack[i].kind = "listener" /\ Asked(d)[i].kind = "listener"
                /\ IsClick(Asked(d)[i]) => IsClick(stack[i])
                /\ Asked(d)[i].d = stack[i].d
  <2>1. stack[i] \in Frame
    OBVIOUS
  <2>2. Asked(d)[i] = IF stack[i].kind = "listener" /\ stack[i].d = d
                      THEN [stack[i] EXCEPT !.asked = TRUE] ELSE stack[i]
    BY Zenon DEF Asked
  <2>3. CASE stack[i].kind = "listener" /\ Asked(d)[i] = [stack[i] EXCEPT !.asked = TRUE]
    BY <2>1, <2>3, MarkedFrame DEF IsClick
  <2> QED
    BY <2>2, <2>3
<1> QED
  BY <1>1, AskedStack, MarkedFacts DEF Top

LEMMA AgainMarks ==
    ASSUME stack \in Seq(Frame), NEW hw, WindowFacts(stack, hw),
           stack # <<>> => ~Early(Top), NEW d
    PROVE  /\ WindowFacts(ClickedAgain(d), hw)
           /\ ClickedAgain(d) # <<>> => ~Early(Last(ClickedAgain(d)))
<1>1. \A i \in DOMAIN stack :
         \/ ClickedAgain(d)[i] = stack[i]
         \/ /\ stack[i].kind = "listener" /\ ClickedAgain(d)[i].kind = "listener"
            /\ IsClick(ClickedAgain(d)[i]) => IsClick(stack[i])
            /\ ClickedAgain(d)[i].d = stack[i].d
  BY ClickedAgainFrame
<1> QED
  BY <1>1, ClickedAgainStack, MarkedFacts DEF Top

LEMMA OtherEmitted ==
    ASSUME stack \in Seq(Frame), stack # <<>>,
           NEW st \in Seq(Frame), st # <<>>, NEW hw, WindowFacts(st, hw), ~Early(Last(st)),
           NEW d \in Dialogs, Emit(st, d, "other", 0, 0)
    PROVE  WindowFacts(stack', hw)
<1>1. \/ stack' = st
      \/ stack' = Front(st)
      \/ \E this \in Dialogs : stack' = Append(st, Listener(d, "other", this, 0, 0))
  BY EmitStack
<1>2. WindowFacts(Front(st), hw)
  BY SettledFront
<1>3. ASSUME NEW this \in Dialogs
      PROVE  WindowFacts(Append(st, Listener(d, "other", this, 0, 0)), hw)
  <2> DEFINE f == Listener(d, "other", this, 0, 0)
  <2>1. f \in Frame
    BY NewFrames
  <2>2. ~Early(f) /\ ~OnWindow(f)
    BY DEF Early, OnWindow, Showing, IsClick, Listener
  <2> HIDE DEF f
  <2>3. WindowFacts(Append(st, f), hw)
    BY <2>1, <2>2, SettledPush
  <2> QED
    BY <2>3 DEF f
<1> QED
  BY <1>1, <1>2, <1>3, Zenon

---------------------------------------------------------------------------
(* Windows and arrays *)

\* The handle is set exactly while there is a window, and only a window ends.
WindowCount ==
    \A d \in Dialogs : /\ windows[d] = IF hwnd[d] THEN 1 ELSE 0
                       /\ ending[d] => hwnd[d]

\* Only the innermost call has arrays.
ArrayFacts ==
    \A d \in Dialogs : buttonsRt[d] # None \/ radiosRt[d] =>
        /\ stack # <<>> /\ Top.kind \in {"show", "navigate"} /\ Top.d = d
        /\ Top.pc \in {"buttons", "radios", "open", "send"}

\* Without getters, the script runs at the bottom and in listeners only.
LEMMA ScriptTop ==
    ASSUME ~Getters, stack \in Seq(Frame), ScriptRuns
    PROVE  stack # <<>> => ~Early(Top) /\ Top.kind = "listener" /\ Top.pc = "listener"
<1>1. stack # <<>> => Top \in Frame /\ Top.pc = "listener"
  BY TopFrame DEF ScriptRuns, Top
<1> QED
  BY <1>1, FrameKinds DEF Early, Reading

\* While messages are dispatched no call is early.
LEMMA PumpingTop ==
    ASSUME stack \in Seq(Frame), Pumping
    PROVE  stack # <<>> /\ ~Early(Top) /\ Top.pc \in {"loop", "modal"}
BY DEF Pumping, Early, Reading

LEMMA WindowFactsStep ==
    ASSUME ~Getters, Typing, WindowFacts(stack, hwnd), WindowCount, [Next]_vars
    PROVE  WindowFacts(stack', hwnd')
<1>0. stack \in Seq(Frame) /\ FieldsTyped /\ hwnd \in [Dialogs -> BOOLEAN]
  BY TypingParts DEF FieldsTyped
<1> USE <1>0
<1>1. ASSUME NEW d \in Dialogs, NEW cfg \in Configs, Show(d, cfg) \/ Navigate(d, cfg)
      PROVE  WindowFacts(stack', hwnd')
  <2>1. PICK kind \in {"show", "navigate"} :
           EnterConfig(kind, d, cfg) /\ (hwnd[d] <=> kind = "navigate")
    BY <1>1 DEF Show, Navigate
  <2> DEFINE f == Call(kind, d, cfg)
  <2>2. /\ f \in Frame /\ Early(f) /\ f.d = d /\ f.kind = kind
    BY NewFrames DEF Early, Call, Reading
  <2>3. stack' = Append(stack, f) /\ hwnd' = hwnd
    BY <2>1 DEF EnterConfig, Push
  <2>4. stack # <<>> => ~Early(Last(stack))
    BY <1>1, ScriptTop DEF Show, Navigate, Top
  <2> HIDE DEF f
  <2> QED
    BY <2>1, <2>2, <2>3, <2>4, EarlyPush
<1>2. ASSUME NEW d \in Dialogs, PreventClose(d)
      PROVE  WindowFacts(stack', hwnd')
  BY <1>2, ScriptTop, AskedMarks DEF PreventClose
<1>3. ASSUME OpenModal
      PROVE  WindowFacts(stack', hwnd')
  <2> DEFINE f == [kind |-> "modal", pc |-> "modal"]
  <2>1. f \in Frame /\ ~Early(f) /\ ~OnWindow(f) /\ f.kind # "listener"
    BY NewFrames DEF Early, OnWindow, Showing, IsClick
  <2>2. stack' = Append(stack, f) /\ hwnd' = hwnd
    BY <1>3 DEF OpenModal, Push, native
  <2>3. stack # <<>> => ~Early(Last(stack))
    BY <1>3, ScriptTop DEF OpenModal, Top
  <2> HIDE DEF f
  <2> QED
    BY <2>1, <2>2, <2>3, SettledPush
<1>4. ASSUME AllocButtons \/ FillButtons \/ FillRadios
      PROVE  WindowFacts(stack', hwnd')
  <2>1. /\ stack # <<>> /\ hwnd' = hwnd
        /\ Top.pc \in Reading
        /\ \E pc \in {"buttons", "radios"} \cup {IF Top.kind = "show" THEN "open" ELSE "send"} :
              stack' = Goto(pc)
    BY <1>4 DEF AllocButtons, FillButtons, FillRadios, AtCall, Reading
  <2>2. Top.kind \in {"show", "navigate"}
    BY <2>1, TopCall
  <2>3. PICK pc : /\ stack' = Goto(pc)
                  /\ \/ Top.kind = "show" /\ pc \in {"buttons", "radios", "open"}
                     \/ Top.kind = "navigate" /\ pc \in {"buttons", "radios", "send"}
    BY <2>1, <2>2
  <2>4. Early(Top)
    BY <2>1, <2>2 DEF Early
  <2> QED
    BY <2>1, <2>3, <2>4, EarlyGoto DEF Reading
<1>5. ASSUME \/ ArrayFault \/ Ended \/ UNCHANGED vars
             \/ \E d \in Dialogs : DanglingCallback(d) \/ Finalize(d)
      PROVE  stack' = stack /\ hwnd' = hwnd
  BY <1>5 DEF ArrayFault, DanglingCallback, Broken, Finalize, Ended, vars, native
<1>6. ASSUME ConfigThrows \/ SystemFails \/ CallReturns \/ CloseModal \/ ListenersReturn
      PROVE  WindowFacts(stack', hwnd')
  <2>1. stack' = Front(stack) /\ hwnd' = hwnd
    BY <1>6 DEF ConfigThrows, SystemFails, CallReturns, CloseModal, ListenersReturn, native
  <2> QED
    BY <2>1, SettledFront
<1>7. ASSUME DialogConstructed
      PROVE  WindowFacts(stack', hwnd')
  <2>1. /\ stack # <<>> /\ Top.pc \in {"open", "send"}
        /\ Emit(Goto("constructed"), Top.d, "other", 0, 0)
        /\ hwnd' = [hwnd EXCEPT ![Top.d] = TRUE]
    BY <1>7 DEF DialogConstructed, HandedOver, AtCall
  <2>2. Top.d \in Dialogs
    BY <2>1, TopCall
  <2>3. CASE Top.pc = "open"
    <3>1. Top.kind = "show"
      BY <2>1, <2>3, TopCall
    <3> QED
      BY <2>1, <2>2, <2>3, <3>1, OpenGoto, OtherEmitted
  <2>4. CASE Top.pc = "send"
    <3>1. Top.kind = "navigate"
      BY <2>1, <2>4, TopCall
    <3>2. /\ WindowFacts(Goto("constructed"), hwnd) /\ ~Early(Last(Goto("constructed")))
          /\ Goto("constructed") \in Seq(Frame) /\ Goto("constructed") # <<>>
      BY <2>1, <3>1, LateGoto, GotoStack
    <3>3. Early(Top) /\ Top = stack[Len(stack)] /\ Len(stack) \in DOMAIN stack
      BY <2>1, <2>4, <3>1, TopFrame DEF Early, Top
    <3>4. hwnd[Top.d]
      BY <3>1, <3>3 DEF WindowFacts
    <3>5. hwnd' = hwnd
      BY <2>1, <2>2, <3>4
    <3> QED
      BY <2>1, <2>2, <3>2, <3>5, OtherEmitted
  <2> QED
    BY <2>1, <2>3, <2>4
<1>8. ASSUME Created \/ Navigated
      PROVE  WindowFacts(stack', hwnd')
  <2>1. PICK pc : /\ stack # <<>> /\ Top.pc = "constructed"
                  /\ Emit(Goto(pc), Top.d, "other", 0, 0)
                  /\ \/ Top.kind = "show" /\ pc = "loop"
                     \/ Top.kind = "navigate" /\ pc = "navigated"
                  /\ hwnd' = hwnd
    BY <1>8 DEF Created, Navigated, At, native
  <2>2. Top.d \in Dialogs
    BY <2>1, TopCall
  <2>3. /\ WindowFacts(Goto(pc), hwnd) /\ ~Early(Last(Goto(pc)))
        /\ Goto(pc) \in Seq(Frame) /\ Goto(pc) # <<>>
    BY <2>1, LateGoto, GotoStack
  <2> QED
    BY <2>1, <2>2, <2>3, OtherEmitted
<1>9. ASSUME Destroyed
      PROVE  WindowFacts(stack', hwnd')
  <2>1. /\ stack # <<>> /\ Top.kind = "show" /\ Top.pc = "loop"
        /\ Emit(Goto("destroyed"), Top.d, "other", 0, 0)
        /\ hwnd' = [hwnd EXCEPT ![Top.d] = FALSE]
    BY <1>9 DEF Destroyed, At
  <2>2. Top.d \in Dialogs
    BY <2>1, TopCall
  <2> QED
    BY <2>1, <2>2, GoneGoto, OtherEmitted
<1>10. ASSUME NEW d \in Dialogs, OtherNotification(d)
       PROVE  WindowFacts(stack', hwnd')
  <2>1. /\ Pumping /\ Emit(stack, d, "other", 0, 0) /\ hwnd' = hwnd
    BY <1>10 DEF OtherNotification, Reports, native
  <2> QED
    BY <2>1, PumpingTop, OtherEmitted DEF Top
<1>11. ASSUME NEW d \in Dialogs, NEW i \in 0..Len(page[d]), ButtonClicked(d, i)
       PROVE  WindowFacts(stack', hwnd')
  <2> DEFINE arg == IF i = 0 THEN 0 ELSE page[d][i] - 1000
             st == ClickedAgain(d)
  <2>1. arg \in Int /\ i \in Nat
    BY DEF FieldsTyped
  <2>2. /\ Pumping /\ windows[d] > 0 /\ hwnd' = hwnd
        /\ Emit(st, d, "click", i, arg)
    BY <1>11 DEF ButtonClicked, Reports
  <2>3. stack # <<>> /\ ~Early(Top) /\ hwnd[d]
    BY <2>2, PumpingTop DEF WindowCount
  <2>4. st \in Seq(Frame) /\ st # <<>> /\ WindowFacts(st, hwnd) /\ ~Early(Last(st))
    BY <2>3, ClickedAgainStack, AgainMarks
  <2> HIDE DEF arg, st
  <2>5. \/ stack' = st
        \/ stack' = Front(st)
        \/ \E this \in Dialogs : stack' = Append(st, Listener(d, "click", this, i, arg))
    BY <2>2, <2>3, EmitStack
  <2>6. WindowFacts(Front(st), hwnd)
    BY <2>4, SettledFront
  <2>7. ASSUME NEW this \in Dialogs
        PROVE  WindowFacts(Append(st, Listener(d, "click", this, i, arg)), hwnd)
    <3> DEFINE f == Listener(d, "click", this, i, arg)
    <3>1. f \in Frame
      BY <2>1, NewFrames
    <3>2. IsClick(f) /\ f.d = d
      BY DEF IsClick, Listener
    <3> HIDE DEF f
    <3>3. WindowFacts(Append(st, f), hwnd)
      BY <2>3, <2>4, <3>1, <3>2, ClickPush
    <3> QED
      BY <3>3 DEF f
  <2> QED
    BY <2>2, <2>4, <2>5, <2>6, <2>7, Zenon
<1>12. ASSUME ListenerThrows
       PROVE  WindowFacts(stack', hwnd')
  <2>1. /\ stack' = Front(stack) \/ stack' = Front(Front(stack))
        /\ hwnd' = hwnd
    BY <1>12 DEF ListenerThrows, Escape, native
  <2>2. Front(stack) \in Seq(Frame)
    BY FrontFront
  <2>3. WindowFacts(Front(stack), hwnd) /\ WindowFacts(Front(Front(stack)), hwnd)
    BY <2>2, SettledFront
  <2> QED
    BY <2>1, <2>3
<1> QED
  BY <1>1, <1>2, <1>3, <1>4, <1>5, <1>6, <1>7, <1>8, <1>9, <1>10, <1>11, <1>12
     DEF Next, ScriptCalls, ConfigStep, SystemStep, UserActs

LEMMA WindowCountStep ==
    ASSUME ~Getters, Typing, WindowFacts(stack, hwnd), WindowCount, [Next]_vars
    PROVE  WindowCount'
<1>0. /\ stack \in Seq(Frame) /\ FieldsTyped
      /\ hwnd \in [Dialogs -> BOOLEAN] /\ windows \in [Dialogs -> Nat]
      /\ ending \in [Dialogs -> BOOLEAN]
  BY TypingParts DEF FieldsTyped
<1> USE <1>0
<1>1. CASE DialogConstructed
  <2>1. /\ stack # <<>> /\ Top.pc \in {"open", "send"}
        /\ hwnd' = [hwnd EXCEPT ![Top.d] = TRUE] /\ ending' = ending
        /\ windows' = IF Top.kind = "show" THEN [windows EXCEPT ![Top.d] = windows[Top.d] + 1]
                      ELSE windows
    BY <1>1 DEF DialogConstructed, HandedOver, AtCall
  <2>2. Top.d \in Dialogs /\ Top.kind \in {"show", "navigate"}
    BY <2>1, TopCall
  <2>3. Early(Top) /\ Top = stack[Len(stack)] /\ Len(stack) \in DOMAIN stack
    BY <2>1, <2>2, TopFrame DEF Early, Top
  <2>4. hwnd[Top.d] <=> Top.kind = "navigate"
    BY <2>3 DEF WindowFacts
  <2> QED
    BY <2>1, <2>2, <2>4 DEF WindowCount
<1>2. CASE Destroyed
  <2>1. /\ stack # <<>> /\ Top.kind = "show" /\ Top.pc = "loop"
        /\ hwnd' = [hwnd EXCEPT ![Top.d] = FALSE]
        /\ windows' = [windows EXCEPT ![Top.d] = windows[Top.d] - 1]
        /\ ending' = [ending EXCEPT ![Top.d] = FALSE]
    BY <1>2 DEF Destroyed, At
  <2>2. Top.d \in Dialogs
    BY <2>1, TopCall
  <2>3. hwnd[Top.d]
    BY <2>1, GoneGoto
  <2> QED
    BY <2>1, <2>2, <2>3 DEF WindowCount
<1>3. CASE ListenersReturn
  <2>1. /\ stack # <<>> /\ Top.kind = "listener"
        /\ hwnd' = hwnd /\ windows' = windows
        /\ \/ ending' = ending
           \/ windows[Top.d] > 0 /\ ending' = [ending EXCEPT ![Top.d] = TRUE]
    BY <1>3 DEF ListenersReturn
  <2>2. Top.d \in Dialogs
    BY <2>1, TopFrame, FrameKinds DEF Top
  <2> QED
    BY <2>1, <2>2 DEF WindowCount
<1>4. ASSUME ~ListenersReturn, ~Destroyed, ~DialogConstructed
      PROVE  hwnd' = hwnd /\ windows' = windows /\ ending' = ending
  BY <1>4 DEF Next, ScriptCalls, ConfigStep, SystemStep, UserActs, vars, native, system,
     Show, Navigate, EnterConfig, PreventClose, OpenModal, AllocButtons, FillButtons,
     FillRadios, ArrayFault, DanglingCallback, Broken, ConfigThrows,
     Created, Navigated, SystemFails, CallReturns, ButtonClicked, OtherNotification,
     CloseModal, ListenerThrows, Finalize, Ended
<1> QED
  BY <1>1, <1>2, <1>3, <1>4 DEF WindowCount

LEMMA ArrayFactsStep ==
    ASSUME ~Getters, Typing, ArrayFacts, [Next]_vars
    PROVE  ArrayFacts'
<1>0. /\ stack \in Seq(Frame) /\ FieldsTyped
      /\ buttonsRt \in [Dialogs -> {None} \cup Seq(Nat)]
      /\ radiosRt \in [Dialogs -> BOOLEAN]
  BY TypingParts DEF FieldsTyped
<1> USE <1>0
<1> DEFINE Without == \A d \in Dialogs : buttonsRt[d] = None /\ ~radiosRt[d]
           Others == \A d \in Dialogs : d # Top.d => buttonsRt[d] = None /\ ~radiosRt[d]
<1>1. ASSUME stack = <<>> \/ Top.pc \notin {"buttons", "radios", "open", "send"}
      PROVE  Without
  BY <1>1 DEF ArrayFacts
<1>2. Others
  BY DEF ArrayFacts
<1>3. ASSUME buttonsRt' = buttonsRt, radiosRt' = radiosRt, Without
      PROVE  ArrayFacts'
  BY <1>3 DEF ArrayFacts
<1>4. ASSUME \/ \E d \in Dialogs, cfg \in Configs : Show(d, cfg) \/ Navigate(d, cfg)
             \/ \E d \in Dialogs : PreventClose(d)
             \/ OpenModal
      PROVE  ArrayFacts'
  <2>1. ScriptRuns /\ buttonsRt' = buttonsRt /\ radiosRt' = radiosRt
    BY <1>4 DEF Show, Navigate, EnterConfig, PreventClose, OpenModal, native
  <2>2. Without
    BY <2>1, <1>1, ScriptTop
  <2> QED
    BY <2>1, <2>2, <1>3
<1>5. ASSUME Created \/ Navigated \/ Destroyed \/ CloseModal \/ ListenersReturn \/ ListenerThrows
      PROVE  ArrayFacts'
  <2>1. /\ stack # <<>>
        /\ Top.pc \in {"constructed", "loop"} \/ Top.kind \in {"modal", "listener"}
        /\ buttonsRt' = buttonsRt /\ radiosRt' = radiosRt
    BY <1>5 DEF Created, Navigated, Destroyed, CloseModal, ListenersReturn, ListenerThrows,
                At, native
  <2>2. Top.pc \in {"constructed", "loop", "modal", "listener"}
    BY <2>1, TopFrame, FrameKinds DEF Top
  <2>3. Without
    BY <2>2, <1>1
  <2> QED
    BY <2>1, <2>3, <1>3
<1>6. ASSUME \E d \in Dialogs : \/ \E i \in 0..Len(page[d]) : ButtonClicked(d, i)
                                \/ OtherNotification(d)
      PROVE  ArrayFacts'
  <2>1. Pumping /\ buttonsRt' = buttonsRt /\ radiosRt' = radiosRt
    BY <1>6 DEF ButtonClicked, OtherNotification, Reports, native
  <2>2. Without
    BY <2>1, <1>1, PumpingTop
  <2> QED
    BY <2>1, <2>2, <1>3
<1>7. ASSUME \/ ArrayFault \/ Ended \/ UNCHANGED vars
             \/ \E d \in Dialogs : DanglingCallback(d) \/ Finalize(d)
      PROVE  ArrayFacts'
  <2>1. stack' = stack /\ buttonsRt' = buttonsRt /\ radiosRt' = radiosRt
    BY <1>7 DEF ArrayFault, DanglingCallback, Broken, Finalize, Ended, vars, native
  <2> QED
    BY <2>1 DEF ArrayFacts, Top
<1>8. ASSUME AllocButtons \/ FillButtons \/ FillRadios
      PROVE  ArrayFacts'
  <2>1. /\ stack # <<>> /\ Top.pc \in Reading
        /\ \E pc \in {"buttons", "radios"} \cup {IF Top.kind = "show" THEN "open" ELSE "send"} :
              stack' = Goto(pc)
        /\ \A d \in Dialogs : d # Top.d => /\ buttonsRt'[d] = buttonsRt[d]
                                           /\ radiosRt'[d] = radiosRt[d]
    BY <1>8 DEF AllocButtons, FillButtons, FillRadios, AtCall, Reading
  <2>2. Top.kind \in {"show", "navigate"}
    BY <2>1, TopCall
  <2>3. PICK pc : /\ stack' = Goto(pc)
                  /\ \/ Top.kind = "show" /\ pc \in {"buttons", "radios", "open"}
                     \/ Top.kind = "navigate" /\ pc \in {"buttons", "radios", "send"}
    BY <2>1, <2>2
  <2>4. Goto(pc) # <<>> /\ Last(Goto(pc)) = [Top EXCEPT !.pc = pc]
    BY <2>1, <2>3, GotoStack DEF Reading
  <2>5. Top \in Frame
    BY <2>1, TopFrame DEF Top
  <2>6. /\ Last(Goto(pc)).kind = Top.kind /\ Last(Goto(pc)).d = Top.d
        /\ Last(Goto(pc)).pc = pc
    BY <2>3, <2>4, <2>5, GotoFrame DEF Reading
  <2>7. Top' = Last(Goto(pc)) /\ stack' # <<>>
    BY <2>3, <2>4 DEF Top
  <2> QED
    BY <1>2, <2>1, <2>2, <2>3, <2>6, <2>7 DEF ArrayFacts
<1>9. ASSUME DialogConstructed \/ SystemFails \/ CallReturns
      PROVE  ArrayFacts'
  <2>1. /\ buttonsRt' = [buttonsRt EXCEPT ![Top.d] = None]
        /\ radiosRt' = [radiosRt EXCEPT ![Top.d] = FALSE]
    BY <1>9 DEF DialogConstructed, SystemFails, CallReturns, FreeRuntime
  <2>2. \A d \in Dialogs : buttonsRt'[d] = None /\ ~radiosRt'[d]
    BY <1>2, <2>1
  <2> QED
    BY <2>2 DEF ArrayFacts
<1>10. ~ConfigThrows
  BY DEF ConfigThrows
<1> QED
  BY <1>4, <1>5, <1>6, <1>7, <1>8, <1>9, <1>10
     DEF Next, ScriptCalls, ConfigStep, SystemStep, UserActs

---------------------------------------------------------------------------
(* The theorems *)

IInv ==
    /\ Typing
    /\ ClickFacts(stack, preventClose)
    /\ WindowFacts(stack, hwnd)
    /\ WindowCount
    /\ ArrayFacts

LEMMA IInvInit == Init => IInv
<1> SUFFICES ASSUME Init PROVE IInv
  OBVIOUS
<1>1. Typing
  BY DEF Init, Typing, TypeOK
<1> QED
  BY <1>1 DEF Init, IInv, ClickFacts, WindowFacts, WindowCount, ArrayFacts

LEMMA IInvStep == ~Getters /\ IInv /\ [Next]_vars => IInv'
<1> SUFFICES ASSUME ~Getters, IInv, [Next]_vars PROVE IInv'
  OBVIOUS
<1>1. Typing'
  BY StackTyped, FieldsTypedStep DEF IInv, Typing, TypeOK, FieldsTyped
<1>2. ClickFacts(stack', preventClose') /\ WindowFacts(stack', hwnd')
  BY ClickFactsStep, WindowFactsStep DEF IInv
<1>3. WindowCount' /\ ArrayFacts'
  BY WindowCountStep, ArrayFactsStep DEF IInv
<1> QED
  BY <1>1, <1>2, <1>3 DEF IInv

LEMMA IInvHolds == ASSUME ~Getters PROVE Spec => []IInv
<1>1. IInv /\ [Next]_vars => IInv'
  BY IInvStep
<1> QED
  BY IInvInit, <1>1, PTL DEF Spec

\* RuntimeOwned: if reading the argument of show runs no script, arrays are owned by
\* the call that will hand them over, whatever fails or throws.
THEOREM ArraysOwned == ASSUME ~Getters PROVE Spec => []RuntimeOwned
<1>1. IInv => RuntimeOwned
  <2> SUFFICES ASSUME IInv, NEW d \in Dialogs, buttonsRt[d] # None \/ radiosRt[d]
               PROVE  \E i \in Calls(d) : stack[i].pc \in {"buttons", "radios", "open", "send"}
    BY DEF RuntimeOwned
  <2>1. /\ stack # <<>> /\ Top.kind \in {"show", "navigate"} /\ Top.d = d
        /\ Top.pc \in {"buttons", "radios", "open", "send"}
    BY DEF IInv, ArrayFacts
  <2>2. stack \in Seq(Frame)
    BY TypingParts DEF IInv
  <2>3. Top = stack[Len(stack)] /\ Len(stack) \in DOMAIN stack
    BY <2>1, <2>2, TopFrame DEF Top
  <2>4. Len(stack) \in Calls(d)
    BY <2>1, <2>3 DEF Calls
  <2> QED
    BY <2>1, <2>3, <2>4
<1> QED
  BY IInvHolds, <1>1, PTL

---------------------------------------------------------------------------
(* Windows and objects when no exception unwinds a call that shows a window: *)
(* listeners do not throw; other modal calls may hide the dialog, and        *)
(* reading the argument may run any code of the script.                      *)

\* What a call or a listener does to a window that is there.
NeedsWindow(f) == f.kind = "navigate" \/ IsClick(f)

\* Calls under way keep their objects; a dialog has a handle while a call shows its
\* window, is shown by one call only, and navigated and clicked above that call.
ShowFacts(st, hw, gn) ==
    /\ \A i \in DOMAIN st : \A d \in Holders(st[i]) : ~gn[d]
    /\ \A i, j \in DOMAIN st :
          i < j /\ Showing(st[i]) /\ st[j].kind = "show" => st[i].d # st[j].d
    /\ \A j \in DOMAIN st : NeedsWindow(st[j]) =>
          \E i \in DOMAIN st : i < j /\ Showing(st[i]) /\ st[i].d = st[j].d
    /\ \A d \in Dialogs : hw[d] <=> \E i \in DOMAIN st : Showing(st[i]) /\ st[i].d = d

WindowNumber == \A d \in Dialogs : windows[d] = IF hwnd[d] THEN 1 ELSE 0

\* The same calls for the same objects, with and without a window as before.
Alike(old, new) ==
    /\ DOMAIN new = DOMAIN old
    /\ \A i \in DOMAIN old :
          /\ new[i].kind = old[i].kind
          /\ Holders(new[i]) = Holders(old[i])
          /\ Showing(new[i]) <=> Showing(old[i])
          /\ NeedsWindow(new[i]) <=> NeedsWindow(old[i])
          /\ old[i].kind = "show" \/ NeedsWindow(old[i]) => new[i].d = old[i].d

LEMMA AlikeFacts ==
    ASSUME NEW old, NEW new, NEW hw, NEW gn, ShowFacts(old, hw, gn), Alike(old, new)
    PROVE  ShowFacts(new, hw, gn)
<1>1. \A i \in DOMAIN old : Showing(old[i]) => new[i].d = old[i].d
  BY DEF Alike, Showing
<1>2. \A i \in DOMAIN new : \A d \in Holders(new[i]) : ~gn[d]
  BY DEF Alike, ShowFacts
<1>3. ASSUME NEW i \in DOMAIN new, NEW j \in DOMAIN new,
             i < j, Showing(new[i]), new[j].kind = "show"
      PROVE  new[i].d # new[j].d
  BY <1>1, <1>3 DEF Alike, ShowFacts
<1>4. ASSUME NEW j \in DOMAIN new, NeedsWindow(new[j])
      PROVE  \E i \in DOMAIN new : i < j /\ Showing(new[i]) /\ new[i].d = new[j].d
  BY <1>1, <1>4 DEF Alike, ShowFacts
<1>5. ASSUME NEW d \in Dialogs
      PROVE  hw[d] <=> \E i \in DOMAIN new : Showing(new[i]) /\ new[i].d = d
  BY <1>1 DEF Alike, ShowFacts
<1> QED
  BY <1>2, <1>3, <1>4, <1>5 DEF ShowFacts

\* A call that shows no window leaves.
LEMMA ShowFront ==
    ASSUME NEW st \in Seq(Frame), st # <<>>, NEW hw, NEW gn, ShowFacts(st, hw, gn),
           ~Showing(Last(st))
    PROVE  ShowFacts(Front(st), hw, gn)
<1> DEFINE new == Front(st)
           n == Len(st)
<1>1. /\ n \in Nat \ {0} /\ DOMAIN st = 1..n /\ DOMAIN new = 1..(n - 1)
      /\ Last(st) = st[n] /\ \A i \in 1..(n - 1) : new[i] = st[i]
  BY FrontStack, TopFrame
<1> HIDE DEF new, n
<1>2. \A i \in 1..(n - 1) : i \in DOMAIN st /\ i < n
  BY <1>1
<1>3. \A i \in 1..n : i = n \/ i \in 1..(n - 1)
  BY <1>1
<1>4. \A i \in DOMAIN new : \A d \in Holders(new[i]) : ~gn[d]
  BY <1>1, <1>2 DEF ShowFacts
<1>5. ASSUME NEW i \in DOMAIN new, NEW j \in DOMAIN new,
             i < j, Showing(new[i]), new[j].kind = "show"
      PROVE  new[i].d # new[j].d
  BY <1>1, <1>2, <1>5 DEF ShowFacts
<1>6. ASSUME NEW j \in DOMAIN new, NeedsWindow(new[j])
      PROVE  \E i \in DOMAIN new : i < j /\ Showing(new[i]) /\ new[i].d = new[j].d
  <2>1. PICK i \in DOMAIN st : i < j /\ Showing(st[i]) /\ st[i].d = st[j].d
    BY <1>1, <1>2, <1>6 DEF ShowFacts
  <2>2. i \in 1..(n - 1)
    BY <1>1, <2>1
  <2> QED
    BY <1>1, <2>1, <2>2
<1>7. ASSUME NEW d \in Dialogs
      PROVE  hw[d] <=> \E i \in DOMAIN new : Showing(new[i]) /\ new[i].d = d
  <2>1. \A i \in DOMAIN st : Showing(st[i]) => i \in 1..(n - 1) /\ new[i] = st[i]
    BY <1>1, <1>3
  <2>2. (\E i \in DOMAIN st : Showing(st[i]) /\ st[i].d = d)
           <=> \E i \in DOMAIN new : Showing(new[i]) /\ new[i].d = d
    BY <1>1, <1>2, <2>1
  <2> QED
    BY <2>2 DEF ShowFacts
<1>8. ShowFacts(new, hw, gn)
  BY <1>4, <1>5, <1>6, <1>7 DEF ShowFacts
<1> QED
  BY <1>8 DEF new

\* A call with a living object enters: show without, navigate with a window.
LEMMA ShowPush ==
    ASSUME NEW st \in Seq(Frame), NEW hw, NEW gn, ShowFacts(st, hw, gn),
           NEW f \in Frame, ~Showing(f), \A d \in Holders(f) : ~gn[d],
           f.kind = "show" => ~hw[f.d], NeedsWindow(f) => hw[f.d]
    PROVE  ShowFacts(Append(st, f), hw, gn)
<1> DEFINE new == Append(st, f)
           n == Len(st) + 1
<1>1. /\ n \in Nat /\ DOMAIN st = 1..(n - 1) /\ DOMAIN new = 1..n
      /\ new[n] = f /\ \A i \in 1..(n - 1) : new[i] = st[i]
  BY PushStack
<1> HIDE DEF new, n
<1>2. \A i \in 1..n : i = n \/ (i \in 1..(n - 1) /\ i < n)
  BY <1>1
<1>3. f.kind = "show" \/ NeedsWindow(f) => f.d \in Dialogs
  BY FrameKinds DEF NeedsWindow, IsClick
<1>4. \A i \in DOMAIN new : \A d \in Holders(new[i]) : ~gn[d]
  BY <1>1, <1>2 DEF ShowFacts
<1>5. ASSUME NEW i \in DOMAIN new, NEW j \in DOMAIN new,
             i < j, Showing(new[i]), new[j].kind = "show"
      PROVE  new[i].d # new[j].d
  <2>1. i \in 1..(n - 1) /\ new[i] = st[i]
    BY <1>1, <1>5
  <2>2. CASE j = n
    <3>1. ~hw[f.d] /\ f.d \in Dialogs /\ new[j] = f
      BY <1>1, <1>3, <1>5, <2>2
    <3> QED
      BY <1>1, <1>5, <2>1, <3>1 DEF ShowFacts
  <2>3. CASE j \in 1..(n - 1)
    BY <1>1, <1>5, <2>1, <2>3 DEF ShowFacts
  <2> QED
    BY <1>1, <1>2, <2>2, <2>3
<1>6. ASSUME NEW j \in DOMAIN new, NeedsWindow(new[j])
      PROVE  \E i \in DOMAIN new : i < j /\ Showing(new[i]) /\ new[i].d = new[j].d
  <2>1. CASE j = n
    <3>1. hw[f.d] /\ f.d \in Dialogs /\ new[j] = f
      BY <1>1, <1>3, <1>6, <2>1
    <3>2. PICK i \in DOMAIN st : Showing(st[i]) /\ st[i].d = f.d
      BY <3>1 DEF ShowFacts
    <3>3. i \in DOMAIN new /\ i < j /\ new[i] = st[i]
      BY <1>1, <2>1, <3>2
    <3> QED
      BY <3>1, <3>2, <3>3
  <2>2. CASE j \in 1..(n - 1)
    <3>1. PICK i \in DOMAIN st : i < j /\ Showing(st[i]) /\ st[i].d = st[j].d
      BY <1>1, <1>6, <2>2 DEF ShowFacts
    <3>2. i \in DOMAIN new /\ new[i] = st[i] /\ new[j] = st[j]
      BY <1>1, <2>2, <3>1
    <3> QED
      BY <3>1, <3>2
  <2> QED
    BY <1>1, <1>2, <2>1, <2>2
<1>7. ASSUME NEW d \in Dialogs
      PROVE  hw[d] <=> \E i \in DOMAIN new : Showing(new[i]) /\ new[i].d = d
  <2>1. \A i \in DOMAIN new : Showing(new[i]) => i \in DOMAIN st /\ new[i] = st[i]
    BY <1>1, <1>2
  <2>2. \A i \in DOMAIN st : i \in DOMAIN new /\ new[i] = st[i]
    BY <1>1
  <2>3. (\E i \in DOMAIN st : Showing(st[i]) /\ st[i].d = d)
           <=> \E i \in DOMAIN new : Showing(new[i]) /\ new[i].d = d
    BY <2>1, <2>2
  <2> QED
    BY <2>3 DEF ShowFacts
<1>8. ShowFacts(new, hw, gn)
  BY <1>4, <1>5, <1>6, <1>7 DEF ShowFacts
<1> QED
  BY <1>8 DEF new

\* The innermost call moves on and keeps, or keeps waiting for, its window.
LEMMA ShowGoto ==
    ASSUME stack \in Seq(Frame), stack # <<>>, NEW hw, NEW gn, ShowFacts(stack, hw, gn), NEW pc,
           \/ Top.kind = "show" /\ pc \in Reading \cup {"open", "constructed", "loop", "destroyed"}
           \/ Top.kind = "navigate" /\ pc \in Reading \cup {"send", "constructed", "navigated"},
           Showing(Top) <=> Top.kind = "show" /\ pc \in {"constructed", "loop"}
    PROVE  ShowFacts(Goto(pc), hw, gn)
<1> DEFINE new == Goto(pc)
           n == Len(stack)
<1>1. /\ n \in Nat \ {0} /\ DOMAIN stack = 1..n /\ DOMAIN new = 1..n
      /\ Top = stack[n]
      /\ \A i \in 1..(n - 1) : new[i] = stack[i]
      /\ new[n].kind = Top.kind /\ new[n].d = Top.d /\ new[n].pc = pc
  BY MovedTop
<1> HIDE DEF new, n
<1>2. /\ Showing(new[n]) <=> Showing(Top)
      /\ NeedsWindow(new[n]) <=> NeedsWindow(Top)
  BY <1>1, MovedTop DEF Showing, NeedsWindow, new, n
<1>3. Holders(new[n]) = Holders(Top)
  BY <1>1 DEF Holders
<1>4. ASSUME NEW i \in 1..n
      PROVE  /\ new[i].kind = stack[i].kind /\ Holders(new[i]) = Holders(stack[i])
             /\ Showing(new[i]) <=> Showing(stack[i])
             /\ NeedsWindow(new[i]) <=> NeedsWindow(stack[i])
             /\ new[i].d = stack[i].d
  <2>1. CASE i = n
    BY <1>1, <1>2, <1>3, <2>1
  <2>2. CASE i \in 1..(n - 1)
    BY <1>1, <2>2
  <2> QED
    BY <1>1, <2>1, <2>2
<1>5. Alike(stack, new)
  BY <1>1, <1>4 DEF Alike
<1> QED
  BY <1>5, AlikeFacts DEF new

\* The innermost call and what it says of its window.
LEMMA ShowTop ==
    ASSUME stack \in Seq(Frame), stack # <<>>, NEW hw, NEW gn, ShowFacts(stack, hw, gn),
           Top.kind \in {"show", "navigate"}
    PROVE  /\ Top.d \in Dialogs /\ ~gn[Top.d]
           /\ Top.kind = "navigate" => hw[Top.d]
           /\ Top.kind = "show" => (hw[Top.d] <=> Showing(Top))
<1> DEFINE n == Len(stack)
<1>1. n \in Nat \ {0} /\ DOMAIN stack = 1..n /\ Top = stack[n] /\ Top \in Frame
  BY TopFrame DEF Top
<1> HIDE DEF n
<1>2. Top.d \in Dialogs /\ n \in DOMAIN stack
  BY <1>1, FrameKinds
<1>3. ~gn[Top.d]
  <2>1. Top.d \in Holders(Top)
    BY DEF Holders
  <2> QED
    BY <1>1, <1>2, <2>1 DEF ShowFacts
<1>4. Top.kind = "navigate" => hw[Top.d]
  BY <1>1, <1>2 DEF ShowFacts, NeedsWindow
<1>5. ASSUME Top.kind = "show", hw[Top.d] PROVE Showing(Top)
  <2>1. PICK i \in DOMAIN stack : Showing(stack[i]) /\ stack[i].d = Top.d
    BY <1>2, <1>5 DEF ShowFacts
  <2>2. i = n \/ i < n
    BY <1>1, <2>1
  <2> QED
    BY <1>1, <1>2, <1>5, <2>1, <2>2 DEF ShowFacts
<1>6. Showing(Top) => hw[Top.d]
  BY <1>1, <1>2 DEF ShowFacts
<1> QED
  BY <1>2, <1>3, <1>4, <1>5, <1>6

\* The window of show appears.
LEMMA ShowOpened ==
    ASSUME stack \in Seq(Frame), stack # <<>>, NEW hw \in [Dialogs -> BOOLEAN], NEW gn,
           ShowFacts(stack, hw, gn), Top.kind = "show", Top.pc = "open"
    PROVE  ShowFacts(Goto("constructed"), [hw EXCEPT ![Top.d] = TRUE], gn)
<1> DEFINE new == Goto("constructed")
           n == Len(stack)
           hw2 == [hw EXCEPT ![Top.d] = TRUE]
<1>1. /\ n \in Nat \ {0} /\ DOMAIN stack = 1..n /\ DOMAIN new = 1..n
      /\ Top = stack[n]
      /\ \A i \in 1..(n - 1) : new[i] = stack[i]
      /\ new[n].kind = Top.kind /\ new[n].d = Top.d /\ new[n].pc = "constructed"
  BY MovedTop
<1>2. Top.d \in Dialogs /\ ~hw[Top.d] /\ ~Showing(Top)
  BY ShowTop DEF Showing
<1>3. \A d \in Dialogs : hw2[d] <=> hw[d] \/ d = Top.d
  BY <1>2
<1> HIDE DEF new, n, hw2
<1>4. Showing(new[n]) /\ Holders(new[n]) = Holders(Top)
  BY <1>1 DEF Showing, Holders
<1>5. \A i \in 1..n : i = n \/ (i \in 1..(n - 1) /\ i < n)
  BY <1>1
<1>6. \A i \in DOMAIN new : \A d \in Holders(new[i]) : ~gn[d]
  BY <1>1, <1>4, <1>5 DEF ShowFacts
<1>7. \A i \in 1..(n - 1) : Showing(stack[i]) => stack[i].d # Top.d
  BY <1>1, <1>2 DEF ShowFacts
<1>8. ASSUME NEW i \in DOMAIN new, NEW j \in DOMAIN new,
             i < j, Showing(new[i]), new[j].kind = "show"
      PROVE  new[i].d # new[j].d
  <2>1. i \in 1..(n - 1) /\ new[i] = stack[i] /\ new[j].d = stack[j].d /\ new[j].kind = stack[j].kind
    BY <1>1, <1>5, <1>8
  <2> QED
    BY <1>1, <1>8, <2>1 DEF ShowFacts
<1>9. ASSUME NEW j \in DOMAIN new, NeedsWindow(new[j])
      PROVE  \E i \in DOMAIN new : i < j /\ Showing(new[i]) /\ new[i].d = new[j].d
  <2>1. j \in 1..(n - 1) /\ new[j] = stack[j]
    BY <1>1, <1>5, <1>9 DEF NeedsWindow, IsClick
  <2>2. PICK i \in DOMAIN stack : i < j /\ Showing(stack[i]) /\ stack[i].d = stack[j].d
    BY <1>1, <1>9, <2>1 DEF ShowFacts
  <2>3. i \in 1..(n - 1) /\ new[i] = stack[i]
    BY <1>1, <2>1, <2>2
  <2> QED
    BY <1>1, <2>1, <2>2, <2>3
<1>10. ASSUME NEW d \in Dialogs
       PROVE  hw2[d] <=> \E i \in DOMAIN new : Showing(new[i]) /\ new[i].d = d
  <2>1. CASE d = Top.d
    BY <1>1, <1>3, <1>4, <2>1
  <2>2. CASE d # Top.d
    <3>1. \A i \in DOMAIN stack : stack[i].d = d => i \in 1..(n - 1) /\ new[i] = stack[i]
      BY <1>1, <1>5, <2>2
    <3>2. \A i \in DOMAIN new : new[i].d = d => new[i] = stack[i] /\ i \in DOMAIN stack
      BY <1>1, <1>5, <2>2
    <3>3. (\E i \in DOMAIN stack : Showing(stack[i]) /\ stack[i].d = d)
             <=> \E i \in DOMAIN new : Showing(new[i]) /\ new[i].d = d
      BY <1>1, <3>1, <3>2
    <3> QED
      BY <1>3, <2>2, <3>3 DEF ShowFacts
  <2> QED
    BY <2>1, <2>2
<1>11. ShowFacts(new, hw2, gn)
  BY <1>6, <1>8, <1>9, <1>10 DEF ShowFacts
<1> QED
  BY <1>11 DEF new, hw2

\* The window of show goes.
LEMMA ShowDestroyed ==
    ASSUME stack \in Seq(Frame), stack # <<>>, NEW hw \in [Dialogs -> BOOLEAN], NEW gn,
           ShowFacts(stack, hw, gn), Top.kind = "show", Top.pc = "loop"
    PROVE  ShowFacts(Goto("destroyed"), [hw EXCEPT ![Top.d] = FALSE], gn)
<1> DEFINE new == Goto("destroyed")
           n == Len(stack)
           hw2 == [hw EXCEPT ![Top.d] = FALSE]
<1>1. /\ n \in Nat \ {0} /\ DOMAIN stack = 1..n /\ DOMAIN new = 1..n
      /\ Top = stack[n]
      /\ \A i \in 1..(n - 1) : new[i] = stack[i]
      /\ new[n].kind = Top.kind /\ new[n].d = Top.d /\ new[n].pc = "destroyed"
  BY MovedTop
<1>2. Top.d \in Dialogs
  BY ShowTop
<1>3. \A d \in Dialogs : hw2[d] <=> hw[d] /\ d # Top.d
  BY <1>2
<1> HIDE DEF new, n, hw2
<1>4. ~Showing(new[n]) /\ Holders(new[n]) = Holders(Top)
  BY <1>1 DEF Showing, Holders
<1>5. \A i \in 1..n : i = n \/ (i \in 1..(n - 1) /\ i < n)
  BY <1>1
<1>6. \A i \in DOMAIN new : \A d \in Holders(new[i]) : ~gn[d]
  BY <1>1, <1>4, <1>5 DEF ShowFacts
<1>7. \A i \in 1..(n - 1) : Showing(stack[i]) => stack[i].d # Top.d
  BY <1>1, <1>2 DEF ShowFacts
<1>8. ASSUME NEW i \in DOMAIN new, NEW j \in DOMAIN new,
             i < j, Showing(new[i]), new[j].kind = "show"
      PROVE  new[i].d # new[j].d
  <2>1. i \in 1..(n - 1) /\ new[i] = stack[i] /\ new[j].d = stack[j].d /\ new[j].kind = stack[j].kind
    BY <1>1, <1>5, <1>8
  <2> QED
    BY <1>1, <1>8, <2>1 DEF ShowFacts
<1>9. ASSUME NEW j \in DOMAIN new, NeedsWindow(new[j])
      PROVE  \E i \in DOMAIN new : i < j /\ Showing(new[i]) /\ new[i].d = new[j].d
  <2>1. j \in 1..(n - 1) /\ new[j] = stack[j]
    BY <1>1, <1>5, <1>9 DEF NeedsWindow, IsClick
  <2>2. PICK i \in DOMAIN stack : i < j /\ Showing(stack[i]) /\ stack[i].d = stack[j].d
    BY <1>1, <1>9, <2>1 DEF ShowFacts
  <2>3. i \in 1..(n - 1) /\ new[i] = stack[i]
    BY <1>1, <2>1, <2>2
  <2> QED
    BY <1>1, <2>1, <2>2, <2>3
<1>10. ASSUME NEW d \in Dialogs
       PROVE  hw2[d] <=> \E i \in DOMAIN new : Showing(new[i]) /\ new[i].d = d
  <2>1. CASE d = Top.d
    <3>1. \A i \in DOMAIN new : Showing(new[i]) => i \in 1..(n - 1) /\ new[i] = stack[i]
      BY <1>1, <1>4, <1>5
    <3> QED
      BY <1>3, <1>7, <2>1, <3>1
  <2>2. CASE d # Top.d
    <3>1. \A i \in DOMAIN stack : stack[i].d = d => i \in 1..(n - 1) /\ new[i] = stack[i]
      BY <1>1, <1>5, <2>2
    <3>2. \A i \in DOMAIN new : new[i].d = d => new[i] = stack[i] /\ i \in DOMAIN stack
      BY <1>1, <1>5, <2>2
    <3>3. (\E i \in DOMAIN stack : Showing(stack[i]) /\ stack[i].d = d)
             <=> \E i \in DOMAIN new : Showing(new[i]) /\ new[i].d = d
      BY <1>1, <3>1, <3>2
    <3> QED
      BY <1>3, <2>2, <3>3 DEF ShowFacts
  <2> QED
    BY <2>1, <2>2
<1>11. ShowFacts(new, hw2, gn)
  BY <1>6, <1>8, <1>9, <1>10 DEF ShowFacts
<1> QED
  BY <1>11 DEF new, hw2

\* Listeners of the innermost call's dialog run on top of calls that are alike.
LEMMA ShowEmit ==
    ASSUME stack \in Seq(Frame), stack # <<>>, NEW hw, NEW gn,
           Top.kind \in {"show", "navigate"}, ~gn[Top.d],
           NEW st \in Seq(Frame), ShowFacts(st, hw, gn),
           NEW d \in Dialogs, NEW note \in {"click", "other"},
           NEW index \in Nat, NEW arg \in Int,
           note = "click" => hw[d],
           Emit(st, d, note, index, arg)
    PROVE  ShowFacts(stack', hw, gn)
<1> DEFINE f == Listener(d, note, Top.d, index, arg)
<1>1. Top.d \in Dialogs
  BY TopFrame, FrameKinds DEF Top
<1>2. CurrentThis = Top.d /\ CurrentThis # None
  BY <1>1, ConstantsAssumption DEF CurrentThis
<1>3. stack' = Append(st, f)
  BY <1>2 DEF Emit, Push
<1>4. f \in Frame
  BY <1>1, NewFrames
<1>5. f.kind = "listener" /\ Holders(f) = {Top.d} /\ f.d = d /\ f.note = note
  BY DEF Listener, Holders
<1> HIDE DEF f
<1>6. ~Showing(f) /\ (NeedsWindow(f) => hw[f.d])
  BY <1>5 DEF Showing, NeedsWindow, IsClick
<1> QED
  BY <1>3, <1>4, <1>5, <1>6, ShowPush

LEMMA ShowTold ==
    ASSUME stack \in Seq(Frame), stack # <<>>, NEW hw, NEW gn,
           Top.kind \in {"show", "navigate"}, Top.d \in Dialogs, ~gn[Top.d],
           NEW st \in Seq(Frame), ShowFacts(st, hw, gn), Emit(st, Top.d, "other", 0, 0)
    PROVE  ShowFacts(stack', hw, gn)
<1>1. "other" \in {"click", "other"} /\ 0 \in Nat /\ 0 \in Int
  OBVIOUS
<1> QED
  BY <1>1, ShowEmit

\* Marks on listeners under way.
LEMMA MarksAlike ==
    ASSUME stack \in Seq(Frame), NEW hw, NEW gn, ShowFacts(stack, hw, gn), NEW d
    PROVE  ShowFacts(Asked(d), hw, gn) /\ ShowFacts(ClickedAgain(d), hw, gn)
<1>1. ASSUME NEW f \in Frame, NEW g,
             \/ g = f
             \/ f.kind = "listener" /\ g \in {[f EXCEPT !.asked = TRUE], [f EXCEPT !.again = TRUE]}
      PROVE  /\ g.kind = f.kind /\ Holders(g) = Holders(f)
             /\ Showing(g) <=> Showing(f)
             /\ NeedsWindow(g) <=> NeedsWindow(f)
             /\ f.kind = "show" \/ NeedsWindow(f) => g.d = f.d
  <2>1. CASE g = f
    BY <2>1
  <2>2. CASE f.kind = "listener" /\ g \in {[f EXCEPT !.asked = TRUE], [f EXCEPT !.again = TRUE]}
    <3>1. f \in ListenerFrame
      BY <2>2, FrameKinds
    <3>2. g.kind = "listener" /\ g.this = f.this /\ g.d = f.d /\ g.note = f.note
      BY <2>2, <3>1 DEF ListenerFrame
    <3> QED
      BY <2>2, <3>2 DEF Holders, Showing, NeedsWindow, IsClick
  <2> QED
    BY <1>1, <2>1, <2>2
<1>2. Alike(stack, Asked(d))
  <2>1. ASSUME NEW i \in DOMAIN stack
        PROVE  Asked(d)[i] = IF stack[i].kind = "listener" /\ stack[i].d = d
                             THEN [stack[i] EXCEPT !.asked = TRUE] ELSE stack[i]
    BY Zenon DEF Asked
  <2>2. DOMAIN Asked(d) = DOMAIN stack
    BY DEF Asked
  <2>3. \A i \in DOMAIN stack : stack[i] \in Frame
    OBVIOUS
  <2> QED
    BY <1>1, <2>1, <2>2, <2>3 DEF Alike
<1>3. Alike(stack, ClickedAgain(d))
  <2>1. ASSUME NEW i \in DOMAIN stack
        PROVE  ClickedAgain(d)[i] = IF stack[i].kind = "listener" /\ stack[i].d = d
                                    THEN [stack[i] EXCEPT !.again = TRUE] ELSE stack[i]
    BY Zenon DEF ClickedAgain
  <2>2. DOMAIN ClickedAgain(d) = DOMAIN stack
    BY DEF ClickedAgain
  <2>3. \A i \in DOMAIN stack : stack[i] \in Frame
    OBVIOUS
  <2> QED
    BY <1>1, <2>1, <2>2, <2>3 DEF Alike
<1> QED
  BY <1>2, <1>3, AlikeFacts

\* A call of another library that pumps messages has no object: emit throws, and the
\* exception ends the process or that call.
LEMMA ShowUnheard ==
    ASSUME stack \in Seq(Frame), stack # <<>>, Top.kind = "modal", NEW hw, NEW gn,
           NEW st \in Seq(Frame), ShowFacts(st, hw, gn),
           st # <<>>, ~Showing(Last(st)),
           NEW d, NEW note, NEW index, NEW arg, Emit(st, d, note, index, arg)
    PROVE  ShowFacts(stack', hw, gn)
<1>1. CurrentThis = None
  BY DEF CurrentThis
<1>2. stack' = st \/ stack' = Front(st)
  BY <1>1 DEF Emit, Escape
<1> QED
  BY <1>2, ShowFront

\* A notification is emitted while show or another modal call pumps messages.
LEMMA ShowReported ==
    ASSUME stack \in Seq(Frame), NEW hw, NEW gn, ShowFacts(stack, hw, gn), Pumping,
           NEW st \in Seq(Frame), ShowFacts(st, hw, gn), DOMAIN st = DOMAIN stack,
           Top.kind = "modal" => st[Len(stack)] = Top,
           NEW d \in Dialogs, NEW note \in {"click", "other"},
           NEW index \in Nat, NEW arg \in Int, note = "click" => hw[d],
           Emit(st, d, note, index, arg)
    PROVE  ShowFacts(stack', hw, gn)
<1>1. stack # <<>> /\ Top.pc \in {"loop", "modal"}
  BY DEF Pumping
<1>2. Top \in Frame /\ Top = stack[Len(stack)] /\ Len(stack) \in DOMAIN stack
  BY <1>1, TopFrame DEF Top
<1>3. Top.kind \in {"show", "modal"}
  BY <1>1, <1>2, FrameKinds DEF Reading
<1>4. CASE Top.kind = "show"
  BY <1>1, <1>4, ShowTop, ShowEmit
<1>5. CASE Top.kind = "modal"
  <2>1. Len(st) = Len(stack) /\ st # <<>>
    BY <1>1, <1>2
  <2>2. Last(st) = Top
    BY <1>5, <2>1 DEF Last
  <2>3. ~Showing(Last(st))
    BY <1>5, <2>2 DEF Showing
  <2> QED
    BY <1>1, <1>5, <2>1, <2>3, ShowUnheard
<1> QED
  BY <1>3, <1>4, <1>5

LEMMA ShowFactsStep ==
    ASSUME ~Throws, Typing, ShowFacts(stack, hwnd, gone), WindowNumber, [Next]_vars
    PROVE  ShowFacts(stack', hwnd', gone')
<1>0. stack \in Seq(Frame) /\ FieldsTyped /\ hwnd \in [Dialogs -> BOOLEAN]
      /\ gone \in [Dialogs -> BOOLEAN]
  BY TypingParts DEF FieldsTyped
<1> USE <1>0
<1>1. ASSUME NEW d \in Dialogs, NEW cfg \in Configs, Show(d, cfg) \/ Navigate(d, cfg)
      PROVE  ShowFacts(stack', hwnd', gone')
  <2>1. PICK kind \in {"show", "navigate"} :
           EnterConfig(kind, d, cfg) /\ (hwnd[d] <=> kind = "navigate") /\ ~gone[d]
    BY <1>1 DEF Show, Navigate
  <2> DEFINE f == Call(kind, d, cfg)
  <2>2. f \in Frame /\ f.d = d /\ f.kind = kind /\ ~Showing(f) /\ Holders(f) = {d}
    BY NewFrames DEF Call, Showing, Holders
  <2>4. NeedsWindow(f) => kind = "navigate"
    BY DEF Call, NeedsWindow, IsClick
  <2>3. stack' = Append(stack, f) /\ hwnd' = hwnd /\ gone' = gone
    BY <2>1 DEF EnterConfig, Push, system
  <2> HIDE DEF f
  <2> QED
    BY <2>1, <2>2, <2>3, <2>4, ShowPush
<1>2. ASSUME NEW d \in Dialogs, PreventClose(d)
      PROVE  ShowFacts(stack', hwnd', gone')
  BY <1>2, MarksAlike DEF PreventClose, system
<1>3. ~ListenerThrows /\ (OpenModal => ShowFacts(stack', hwnd', gone'))
  <2> DEFINE f == [kind |-> "modal", pc |-> "modal"]
  <2>1. /\ f \in Frame /\ f.kind = "modal" /\ ~Showing(f) /\ Holders(f) = {}
        /\ ~NeedsWindow(f)
    BY NewFrames DEF Showing, Holders, NeedsWindow, IsClick
  <2>2. OpenModal => stack' = Append(stack, f) /\ hwnd' = hwnd /\ gone' = gone
    BY DEF OpenModal, Push, native, system
  <2> HIDE DEF f
  <2>3. OpenModal => ShowFacts(stack', hwnd', gone')
    BY <2>1, <2>2, ShowPush
  <2> QED
    BY <2>3 DEF ListenerThrows
<1>4. ASSUME AllocButtons \/ FillButtons \/ FillRadios
      PROVE  ShowFacts(stack', hwnd', gone')
  <2>1. /\ stack # <<>> /\ hwnd' = hwnd /\ gone' = gone
        /\ Top.pc \in Reading
        /\ \E pc \in {"buttons", "radios"} \cup {IF Top.kind = "show" THEN "open" ELSE "send"} :
              stack' = Goto(pc)
    BY <1>4 DEF AllocButtons, FillButtons, FillRadios, AtCall, Reading, system
  <2>2. Top.kind \in {"show", "navigate"}
    BY <2>1, TopCall
  <2>3. PICK pc : /\ stack' = Goto(pc)
                  /\ \/ Top.kind = "show" /\ pc \in {"buttons", "radios", "open"}
                     \/ Top.kind = "navigate" /\ pc \in {"buttons", "radios", "send"}
    BY <2>1, <2>2
  <2>4. ~Showing(Top)
    BY <2>1 DEF Showing, Reading
  <2> QED
    BY <2>1, <2>3, <2>4, ShowGoto DEF Reading
<1>5. ASSUME \/ ArrayFault \/ Ended \/ UNCHANGED vars
             \/ \E d \in Dialogs : DanglingCallback(d)
      PROVE  ShowFacts(stack', hwnd', gone')
  <2>1. stack' = stack /\ hwnd' = hwnd /\ gone' = gone
    BY <1>5 DEF ArrayFault, DanglingCallback, Broken, Ended, vars, native, system
  <2> QED
    BY <2>1
<1>6. ASSUME ConfigThrows \/ SystemFails \/ CallReturns \/ CloseModal \/ ListenersReturn
      PROVE  ShowFacts(stack', hwnd', gone')
  <2>1. /\ stack' = Front(stack) /\ hwnd' = hwnd /\ gone' = gone /\ stack # <<>>
        /\ \/ Top.pc \in Reading \cup {"open", "send", "destroyed", "navigated"}
           \/ Top.kind \in {"modal", "listener"}
    BY <1>6 DEF ConfigThrows, SystemFails, CallReturns, CloseModal, ListenersReturn,
                HandedOver, AtCall, At, native, system
  <2>2. ~Showing(Top)
    BY <2>1 DEF Showing, Reading
  <2> QED
    BY <2>1, <2>2, ShowFront DEF Top
<1>7. ASSUME DialogConstructed
      PROVE  ShowFacts(stack', hwnd', gone')
  <2>1. /\ stack # <<>> /\ Top.pc \in {"open", "send"} /\ gone' = gone
        /\ Emit(Goto("constructed"), Top.d, "other", 0, 0)
        /\ hwnd' = [hwnd EXCEPT ![Top.d] = TRUE]
    BY <1>7 DEF DialogConstructed, HandedOver, AtCall
  <2>2. /\ Top.kind \in {"show", "navigate"}
        /\ Top.pc = "open" => Top.kind = "show"
        /\ Top.pc = "send" => Top.kind = "navigate"
    BY <2>1, TopCall
  <2>3. /\ Top.d \in Dialogs /\ ~gone[Top.d] /\ (Top.kind = "navigate" => hwnd[Top.d])
        /\ Goto("constructed") \in Seq(Frame)
    BY <2>1, <2>2, ShowTop, GotoStack
  <2>4. CASE Top.pc = "open"
    <3>1. ShowFacts(Goto("constructed"), hwnd', gone)
      BY <2>1, <2>2, <2>4, ShowOpened
    <3> QED
      BY <2>1, <2>2, <2>3, <3>1, ShowTold
  <2>5. CASE Top.pc = "send"
    <3>1. hwnd' = hwnd /\ ~Showing(Top)
      BY <2>1, <2>2, <2>3, <2>5 DEF Showing
    <3>2. ShowFacts(Goto("constructed"), hwnd, gone)
      BY <2>1, <2>2, <2>5, <3>1, ShowGoto
    <3>3. ShowFacts(stack', hwnd, gone)
      BY <2>1, <2>2, <2>3, <3>2, ShowTold
    <3> QED
      BY <2>1, <3>1, <3>3
  <2> QED
    BY <2>1, <2>4, <2>5
<1>8. ASSUME Created \/ Navigated
      PROVE  ShowFacts(stack', hwnd', gone')
  <2>1. PICK pc : /\ stack # <<>> /\ Top.pc = "constructed"
                  /\ Emit(Goto(pc), Top.d, "other", 0, 0)
                  /\ \/ Top.kind = "show" /\ pc = "loop"
                     \/ Top.kind = "navigate" /\ pc = "navigated"
                  /\ hwnd' = hwnd /\ gone' = gone
    BY <1>8 DEF Created, Navigated, At, native, system
  <2>2. Top.d \in Dialogs /\ ~gone[Top.d] /\ Goto(pc) \in Seq(Frame)
    BY <2>1, ShowTop, GotoStack
  <2>3. ShowFacts(Goto(pc), hwnd, gone)
    BY <2>1, ShowGoto DEF Showing
  <2> QED
    BY <2>1, <2>2, <2>3, ShowTold
<1>9. ASSUME Destroyed
      PROVE  ShowFacts(stack', hwnd', gone')
  <2>1. /\ stack # <<>> /\ Top.kind = "show" /\ Top.pc = "loop" /\ gone' = gone
        /\ Emit(Goto("destroyed"), Top.d, "other", 0, 0)
        /\ hwnd' = [hwnd EXCEPT ![Top.d] = FALSE]
    BY <1>9 DEF Destroyed, At
  <2>2. Top.d \in Dialogs /\ ~gone[Top.d] /\ Goto("destroyed") \in Seq(Frame)
    BY <2>1, ShowTop, GotoStack
  <2>3. ShowFacts(Goto("destroyed"), hwnd', gone)
    BY <2>1, ShowDestroyed
  <2> QED
    BY <2>1, <2>2, <2>3, ShowTold
<1>10. ASSUME NEW d \in Dialogs, OtherNotification(d)
       PROVE  ShowFacts(stack', hwnd', gone')
  <2>1. Pumping /\ Emit(stack, d, "other", 0, 0) /\ hwnd' = hwnd /\ gone' = gone
    BY <1>10 DEF OtherNotification, Reports, native, system
  <2>2. stack # <<>> /\ stack[Len(stack)] = Top
    BY <2>1, TopFrame DEF Pumping, Top
  <2>3. 0 \in Nat /\ 0 \in Int
    OBVIOUS
  <2> QED
    BY <2>1, <2>2, <2>3, ShowReported
<1>11. ASSUME NEW d \in Dialogs, NEW i \in 0..Len(page[d]), ButtonClicked(d, i)
       PROVE  ShowFacts(stack', hwnd', gone')
  <2> DEFINE arg == IF i = 0 THEN 0 ELSE page[d][i] - 1000
  <2>1. arg \in Int /\ i \in Nat
    BY DEF FieldsTyped
  <2>2. /\ Pumping /\ hwnd' = hwnd /\ gone' = gone /\ windows[d] > 0
        /\ Emit(ClickedAgain(d), d, "click", i, arg)
    BY <1>11 DEF ButtonClicked, Reports, system
  <2>3. /\ ClickedAgain(d) \in Seq(Frame) /\ DOMAIN ClickedAgain(d) = DOMAIN stack
        /\ ShowFacts(ClickedAgain(d), hwnd, gone)
    <3>1. DOMAIN ClickedAgain(d) = DOMAIN stack
      BY DEF ClickedAgain
    <3>2. ClickedAgain(d) \in Seq(Frame)
      BY ClickedAgainStack
    <3> QED
      BY <3>1, <3>2, MarksAlike
  <2>4. Top.kind = "modal" => ClickedAgain(d)[Len(stack)] = Top
    <3>1. stack # <<>> /\ stack[Len(stack)] = Top /\ Len(stack) \in DOMAIN stack
      BY <2>2, TopFrame DEF Pumping, Top
    <3>2. ClickedAgain(d)[Len(stack)] =
             IF Top.kind = "listener" /\ Top.d = d THEN [Top EXCEPT !.again = TRUE] ELSE Top
      BY <3>1, Zenon DEF ClickedAgain
    <3> QED
      BY <3>2
  <2>5. hwnd[d]
    BY <2>2 DEF WindowNumber
  <2> HIDE DEF arg
  <2> QED
    BY <2>1, <2>2, <2>3, <2>4, <2>5, ShowReported
<1>12. ASSUME NEW d \in Dialogs, Finalize(d)
       PROVE  ShowFacts(stack', hwnd', gone')
  <2>1. /\ stack' = stack /\ hwnd' = hwnd /\ gone' = [gone EXCEPT ![d] = TRUE]
        /\ \A i \in DOMAIN stack : d \notin Holders(stack[i])
    BY <1>12 DEF Finalize, native
  <2>2. ASSUME NEW i \in DOMAIN stack, NEW e \in Holders(stack[i]) PROVE ~gone'[e]
    <3>1. e # d /\ ~gone[e] /\ stack[i] \in Frame
      BY <2>1, <2>2 DEF ShowFacts
    <3>2. e \in Dialogs
      BY <3>1, <2>2, FrameKinds DEF Holders
    <3> QED
      BY <2>1, <3>1, <3>2
  <2> QED
    BY <2>1, <2>2 DEF ShowFacts
<1> QED
  BY <1>1, <1>2, <1>3, <1>4, <1>5, <1>6, <1>7, <1>8, <1>9, <1>10, <1>11, <1>12
     DEF Next, ScriptCalls, ConfigStep, SystemStep, UserActs

LEMMA WindowNumberStep ==
    ASSUME Typing, ShowFacts(stack, hwnd, gone), WindowNumber, [Next]_vars
    PROVE  WindowNumber'
<1>0. /\ stack \in Seq(Frame) /\ hwnd \in [Dialogs -> BOOLEAN]
      /\ windows \in [Dialogs -> Nat]
  BY TypingParts DEF FieldsTyped
<1> USE <1>0
<1>1. CASE DialogConstructed
  <2>1. /\ stack # <<>> /\ Top.pc \in {"open", "send"}
        /\ hwnd' = [hwnd EXCEPT ![Top.d] = TRUE]
        /\ windows' = IF Top.kind = "show" THEN [windows EXCEPT ![Top.d] = windows[Top.d] + 1]
                      ELSE windows
    BY <1>1 DEF DialogConstructed, HandedOver, AtCall
  <2>2. Top.kind \in {"show", "navigate"}
    BY <2>1, TopCall
  <2>3. Top.d \in Dialogs /\ (hwnd[Top.d] <=> Top.kind = "navigate")
    BY <2>1, <2>2, ShowTop DEF Showing
  <2> QED
    BY <2>1, <2>2, <2>3 DEF WindowNumber
<1>2. CASE Destroyed
  <2>1. /\ stack # <<>> /\ Top.kind = "show" /\ Top.pc = "loop"
        /\ hwnd' = [hwnd EXCEPT ![Top.d] = FALSE]
        /\ windows' = [windows EXCEPT ![Top.d] = windows[Top.d] - 1]
    BY <1>2 DEF Destroyed, At
  <2>2. Top.d \in Dialogs /\ hwnd[Top.d]
    BY <2>1, ShowTop DEF Showing
  <2> QED
    BY <2>1, <2>2 DEF WindowNumber
<1>3. ASSUME ~Destroyed, ~DialogConstructed
      PROVE  hwnd' = hwnd /\ windows' = windows
  BY <1>3 DEF Next, ScriptCalls, ConfigStep, SystemStep, UserActs, vars, native, system,
     Show, Navigate, EnterConfig, PreventClose, OpenModal, AllocButtons, FillButtons,
     FillRadios, ArrayFault, DanglingCallback, Broken, ConfigThrows, ListenersReturn,
     Created, Navigated, SystemFails, CallReturns, ButtonClicked, OtherNotification,
     CloseModal, ListenerThrows, Finalize, Ended
<1> QED
  BY <1>1, <1>2, <1>3 DEF WindowNumber

ShowInv ==
    /\ Typing
    /\ ClickFacts(stack, preventClose)
    /\ ShowFacts(stack, hwnd, gone)
    /\ WindowNumber

LEMMA ShowInvHolds == ASSUME ~Throws PROVE Spec => []ShowInv
<1>1. Init => ShowInv
  BY DEF Init, ShowInv, Typing, TypeOK, ClickFacts, ShowFacts, WindowNumber
<1>2. ShowInv /\ [Next]_vars => ShowInv'
  <2> SUFFICES ASSUME ShowInv, [Next]_vars PROVE ShowInv'
    OBVIOUS
  <2>1. Typing'
    BY StackTyped, FieldsTypedStep DEF ShowInv, Typing, TypeOK, FieldsTyped
  <2>2. ShowFacts(stack', hwnd', gone') /\ WindowNumber'
    BY ShowFactsStep, WindowNumberStep DEF ShowInv
  <2>3. ClickFacts(stack', preventClose')
    BY ClickFactsStep DEF ShowInv
  <2> QED
    BY <2>1, <2>2, <2>3 DEF ShowInv
<1> QED
  BY <1>1, <1>2, PTL DEF Spec

\* WindowHasObject: whatever the script does while its argument is read, the call
\* that shows a window keeps the object it calls back, references or none.
THEOREM WindowsKeepObject == ASSUME ~Throws PROVE Spec => []WindowHasObject
<1>1. ShowInv => WindowHasObject
  <2> SUFFICES ASSUME ShowInv, NEW d \in Dialogs, windows[d] > 0 PROVE ~gone[d]
    BY DEF WindowHasObject
  <2>1. hwnd[d]
    BY DEF ShowInv, WindowNumber
  <2>2. PICK i \in DOMAIN stack : Showing(stack[i]) /\ stack[i].d = d
    BY <2>1 DEF ShowInv, ShowFacts
  <2>3. d \in Holders(stack[i])
    BY <2>2 DEF Showing, Holders
  <2> QED
    BY <2>3 DEF ShowInv, ShowFacts
<1> QED
  BY ShowInvHolds, <1>1, PTL

---------------------------------------------------------------------------
(* What both halves know: getters, or listeners that throw, but not both *)

\* Windows are counted by handles; a call about to open a window finds none, one
\* about to navigate finds it; clicks have a window, and none is under way when
\* the loop of its window has control; a listener that may throw is run by some call.
WindowsKnown ==
    /\ Typing
    /\ ClickFacts(stack, preventClose)
    /\ WindowCount
    /\ \A i \in DOMAIN stack : IsClick(stack[i]) => hwnd[stack[i].d]
    /\ stack # <<>> =>
          /\ Top.pc \in {"open", "send"} => (hwnd[Top.d] <=> Top.kind = "navigate")
          /\ Top.kind = "show" /\ Top.pc = "loop" =>
                hwnd[Top.d] /\ \A i \in DOMAIN stack : ~(IsClick(stack[i]) /\ stack[i].d = Top.d)
          /\ Throws => stack[1].kind # "listener"

\* From the first half.
LEMMA KnownWithoutGetters == ASSUME IInv PROVE WindowsKnown
<1>1. stack \in Seq(Frame) /\ hwnd \in [Dialogs -> BOOLEAN]
  BY TypingParts DEF IInv, FieldsTyped
<1>2. \A i \in DOMAIN stack : IsClick(stack[i]) => hwnd[stack[i].d]
  BY DEF IInv, WindowFacts, OnWindow
<1>3. ASSUME stack # <<>>, Top.pc \in {"open", "send"}
      PROVE  hwnd[Top.d] <=> Top.kind = "navigate"
  <2>1. Early(Top)
    BY <1>1, <1>3, TopCall DEF Early
  <2> QED
    BY <1>1, <1>3, <2>1, TopFrame DEF IInv, WindowFacts, Top
<1>4. ASSUME stack # <<>>, Top.kind = "show", Top.pc = "loop"
      PROVE  hwnd[Top.d] /\ \A i \in DOMAIN stack : ~(IsClick(stack[i]) /\ stack[i].d = Top.d)
  <2>1. WindowFacts(stack, hwnd)
    BY DEF IInv
  <2> QED
    BY <1>1, <1>4, <2>1, GoneGoto
<1>5. stack # <<>> => stack[1].kind # "listener"
  BY DEF IInv, WindowFacts
<1> QED
  BY <1>2, <1>3, <1>4, <1>5 DEF IInv, WindowsKnown

\* From the second.
LEMMA KnownWithoutThrows == ASSUME ~Throws, ShowInv PROVE WindowsKnown
<1>1. stack \in Seq(Frame) /\ hwnd \in [Dialogs -> BOOLEAN] /\ ShowFacts(stack, hwnd, gone)
  BY TypingParts DEF ShowInv, FieldsTyped
<1>2. WindowCount
  <2>1. \A d \in Dialogs : ending[d] => windows[d] > 0
    BY DEF ShowInv, Typing
  <2> QED
    BY <2>1 DEF ShowInv, WindowNumber, WindowCount
<1>3. ASSUME NEW i \in DOMAIN stack, IsClick(stack[i])
      PROVE  /\ hwnd[stack[i].d]
             /\ \E k \in DOMAIN stack : k < i /\ Showing(stack[k]) /\ stack[k].d = stack[i].d
  <2>1. stack[i].d \in Dialogs
    BY <1>1, <1>3, FrameKinds DEF IsClick
  <2>2. PICK k \in DOMAIN stack : k < i /\ Showing(stack[k]) /\ stack[k].d = stack[i].d
    BY <1>1, <1>3 DEF ShowFacts, NeedsWindow
  <2> QED
    BY <1>1, <2>1, <2>2 DEF ShowFacts
<1>4. ASSUME stack # <<>>, Top.pc \in {"open", "send"}
      PROVE  hwnd[Top.d] <=> Top.kind = "navigate"
  <2>1. Top.kind \in {"show", "navigate"} /\ ~Showing(Top)
    BY <1>1, <1>4, TopCall DEF Showing
  <2> QED
    BY <1>1, <1>4, <2>1, ShowTop
<1>5. ASSUME stack # <<>>, Top.kind = "show", Top.pc = "loop"
      PROVE  hwnd[Top.d] /\ \A i \in DOMAIN stack : ~(IsClick(stack[i]) /\ stack[i].d = Top.d)
  <2>1. Showing(Top)
    BY <1>5 DEF Showing
  <2>2. hwnd[Top.d]
    BY <1>1, <1>5, <2>1, ShowTop
  <2>3. /\ Top = stack[Len(stack)] /\ Len(stack) \in DOMAIN stack
        /\ \A i \in DOMAIN stack : i \in Nat /\ i <= Len(stack)
    BY <1>1, <1>5, TopFrame DEF Top
  <2>4. ASSUME NEW i \in DOMAIN stack, IsClick(stack[i]), stack[i].d = Top.d
        PROVE  FALSE
    <3>1. PICK k \in DOMAIN stack : k < i /\ Showing(stack[k]) /\ stack[k].d = Top.d
      BY <1>3, <2>4
    <3>2. k < Len(stack)
      BY <2>3, <3>1
    <3> QED
      BY <1>1, <1>5, <2>3, <3>1, <3>2 DEF ShowFacts
  <2> QED
    BY <2>2, <2>4
<1> QED
  BY <1>2, <1>3, <1>4, <1>5 DEF ShowInv, WindowsKnown

LEMMA WindowsKnownHolds == ASSUME ~(Getters /\ Throws) PROVE Spec => []WindowsKnown
<1>1. CASE ~Getters
  <2>1. IInv => WindowsKnown
    BY KnownWithoutGetters
  <2> QED
    BY <1>1, <2>1, IInvHolds, PTL
<1>2. CASE ~Throws
  <2>1. ShowInv => WindowsKnown
    BY <1>2, KnownWithoutThrows
  <2> QED
    BY <1>2, <2>1, ShowInvHolds, PTL
<1> QED
  BY <1>1, <1>2

LEMMA CountedWindows ==
    ASSUME WindowCount, NEW d \in Dialogs
    PROVE  windows[d] <= 1 /\ (hwnd[d] <=> windows[d] > 0)
<1>1. windows[d] = IF hwnd[d] THEN 1 ELSE 0
  BY DEF WindowCount
<1>2. CASE hwnd[d]
  BY <1>1, <1>2
<1>3. CASE ~hwnd[d]
  BY <1>1, <1>3
<1> QED
  BY <1>2, <1>3

\* OneWindow: no sequence of calls, clicks, failures and exceptions, at any depth,
\* gives an object two windows, unless code that reading the argument runs shows
\* the same dialog and a listener of that one throws.
THEOREM WindowsCorrect == ASSUME ~(Getters /\ Throws) PROVE Spec => []OneWindow
<1>1. WindowsKnown => OneWindow
  BY CountedWindows DEF WindowsKnown, OneWindow
<1> QED
  BY WindowsKnownHolds, <1>1, PTL

\* HandleFollowsWindow: nor a handle without a window, or a window without a handle.
THEOREM HandleCorrect == ASSUME ~(Getters /\ Throws) PROVE Spec => []HandleFollowsWindow
<1>1. WindowsKnown => HandleFollowsWindow
  BY CountedWindows DEF WindowsKnown, HandleFollowsWindow
<1> QED
  BY WindowsKnownHolds, <1>1, PTL

\* RefusedOnlyIfAsked: a click that leaves its window open is one during which
\* preventClose was called, whatever else is under way.
THEOREM RefusalAsked == ASSUME ~(Getters /\ Throws) PROVE Spec => RefusedOnlyIfAsked
<1>1. WindowsKnown /\ [Next]_vars => [ClickAnswered /\ ~ending'[Top.d] => Top.asked]_vars
  <2> SUFFICES ASSUME WindowsKnown, [Next]_vars, ClickAnswered, ~ending'[Top.d]
               PROVE  Top.asked
    OBVIOUS
  <2>0. /\ stack \in Seq(Frame) /\ stack # <<>> /\ Len(stack) \in Nat \ {0}
        /\ Top \in Frame /\ Top = stack[Len(stack)] /\ Len(stack) \in DOMAIN stack
        /\ Top.kind = "listener" /\ Top.note = "click" /\ IsClick(Top)
        /\ Top.pc = "listener" /\ Top.d \in Dialogs
        /\ stack' = Front(stack) /\ Len(stack') = Len(stack) - 1 /\ fault' = None
    <3>1. /\ stack \in Seq(Frame) /\ stack # <<>> /\ Top.kind = "listener"
          /\ Top.note = "click" /\ stack' = Front(stack) /\ fault' = None
      BY TypingParts DEF ClickAnswered, WindowsKnown
    <3>2. /\ Len(stack) \in Nat \ {0} /\ Top \in Frame /\ Top = stack[Len(stack)]
          /\ Len(stack) \in DOMAIN stack
      BY <3>1, TopFrame DEF Top
    <3> QED
      BY <3>1, <3>2, FrontStack, FrameKinds DEF IsClick
  <2>1. CASE ListenersReturn
    <3>1. windows[Top.d] > 0
      <4>1. hwnd[Top.d]
        BY <2>0 DEF WindowsKnown
      <4> QED
        BY <2>0, <4>1 DEF WindowsKnown, WindowCount
    <3>2. ending \in [Dialogs -> BOOLEAN]
      BY TypingParts DEF WindowsKnown, FieldsTyped
    <3>3. preventClose[Top.d]
      <4>1. ~preventClose[Top.d] => ending' = [ending EXCEPT ![Top.d] = TRUE]
        BY <2>0, <2>1, <3>1 DEF ListenersReturn
      <4> QED
        BY <2>0, <3>2, <4>1
    <3> QED
      BY <2>0, <3>3 DEF WindowsKnown, ClickFacts
  <2>2. CASE ListenerThrows
    <3>1. stack' = Front(Front(stack))
      <4>1. "exception" # None
        BY ConstantsAssumption
      <4> QED
        BY <2>0, <2>2, <4>1 DEF ListenerThrows, Escape
    <3>2. Front(stack) # <<>>
      <4>1. stack[1].kind # "listener"
        BY <2>0, <2>2 DEF WindowsKnown, ListenerThrows
      <4>2. Len(stack) # 1
        BY <2>0, <4>1
      <4>3. Len(Front(stack)) = Len(stack) - 1
        BY <2>0, FrontStack
      <4> QED
        BY <2>0, <4>2, <4>3
    <3>3. Front(stack) \in Seq(Frame) /\ Len(Front(stack)) = Len(stack) - 1
      BY <2>0, FrontStack
    <3>4. Len(Front(Front(stack))) = Len(Front(stack)) - 1
      BY <3>2, <3>3, FrontStack
    <3>5. Len(stack') = Len(stack) - 2
      <4>1. Len(stack') = Len(Front(Front(stack)))
        BY <3>1
      <4> QED
        BY <2>0, <3>3, <3>4, <4>1
    <3>6. Len(stack') = Len(stack) - 1 /\ Len(stack) \in Nat
      BY <2>0
    <3> QED
      BY <3>5, <3>6
  <2>3. ASSUME NEW f \in Frame, stack' = Append(stack, f) PROVE FALSE
    BY <2>0, <2>3, PushStack
  <2>4. ~\E d \in Dialogs, cfg \in Configs : Show(d, cfg) \/ Navigate(d, cfg)
    <3>1. ASSUME NEW d \in Dialogs, NEW cfg \in Configs, NEW kind \in {"show", "navigate"},
                 EnterConfig(kind, d, cfg)
          PROVE  FALSE
      <4>1. Call(kind, d, cfg) \in Frame
        BY NewFrames
      <4>2. stack' = Append(stack, Call(kind, d, cfg))
        BY <3>1 DEF EnterConfig, Push
      <4> QED
        BY <2>3, <4>1, <4>2
    <3> QED
      BY <3>1 DEF Show, Navigate
  <2>5. ~OpenModal
    BY <2>3, NewFrames DEF OpenModal, Push
  <2>6. ~\E d \in Dialogs : PreventClose(d)
    BY <2>0, AskedStack DEF PreventClose
  <2>7. ~Pumping /\ ~CloseModal /\ ~ConfigStep /\ ~ConfigThrows /\ ~SystemStep
    BY <2>0 DEF Pumping, CloseModal, ConfigStep, ConfigThrows, SystemStep, AllocButtons,
       FillButtons, FillRadios, ArrayFault, DialogConstructed, Created, Navigated, Destroyed,
       SystemFails, CallReturns, HandedOver, AtCall, At, Reading
  <2>8. ~\E d \in Dialogs : \/ \E i \in 0..Len(page[d]) : ButtonClicked(d, i)
                            \/ OtherNotification(d) \/ DanglingCallback(d)
    BY <2>7 DEF ButtonClicked, OtherNotification, DanglingCallback, Reports
  <2>9. stack' # stack
    BY <2>0
  <2>10. ~(\E d \in Dialogs : Finalize(d)) /\ ~Ended /\ ~UNCHANGED vars
    BY <2>9 DEF Finalize, Ended, vars
  <2> QED
    BY <2>1, <2>2, <2>4, <2>5, <2>6, <2>7, <2>8, <2>10 DEF Next, ScriptCalls, UserActs
<1> QED
  BY WindowsKnownHolds, <1>1, PTL DEF Spec, RefusedOnlyIfAsked
===========================================================================
