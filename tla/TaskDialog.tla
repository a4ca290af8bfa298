---------------------------- MODULE TaskDialog ----------------------------
(***************************************************************************)
(* NKWinTaskDialog (src/NekoScript/NKWinTaskDialog.cpp): the native half of  *)
(* a script's task dialogs, and the one thread that runs them.               *)
(*                                                                          *)
(* show() is modal: TaskDialogIndirect pumps messages until its window ends, *)
(* and the callback it makes runs listeners of the script, which may show a  *)
(* dialog in their turn.  stack is that nesting, the innermost call last:    *)
(* calls of Show and Navigate, listeners run from the callback, and other    *)
(* modal native calls (alert, a message box through NKWinAPI).  A dialog has *)
(* no owner window, so while an inner call pumps messages the user can still *)
(* act on every window that is open.                                         *)
(***************************************************************************)
EXTENDS Integers, SequencesExt, FiniteSets

CONSTANTS
    Dialogs,    \* NKWinTaskDialog objects
    Configs,    \* arguments of show: numbers of buttons and radioButtons
    Getters,    \* TRUE: reading the argument may run code of the script
    Throws,     \* TRUE: a listener may throw
    ApiModal,   \* TRUE: listeners may call other modal native functions
    None,
    MaxDepth    \* bound: calls under way at once

\* A field of a configuration is absent (None) or an array of that length.
ASSUME ConstantsAssumption ==
    /\ Configs \subseteq [buttons : Nat \cup {None}, radios : Nat \cup {None}]
    /\ {Getters, Throws, ApiModal} \subseteq BOOLEAN
    /\ None \notin Dialogs \cup Nat \cup {"array", "exception", "dangling"}
    /\ MaxDepth \in Nat

VARIABLES
    hwnd,          \* _hwnd is set
    preventClose,  \* _preventClose
    buttonsRt,     \* the nButtonID fields of _buttonsRuntime, None for nullptr
    radiosRt,      \* _radiosRuntime is set
    tdc,           \* cButtons and cRadioButtons of _tdc
    windows,       \* windows the system has open for the dialog
    ending,        \* the system has accepted the end of the window
    page,          \* button identifiers the window was given
    gone,          \* the finalizer has deleted the native object
    stack,         \* calls under way
    fault          \* None, or what ended the process

native == <<hwnd, preventClose, buttonsRt, radiosRt, tdc>>
system == <<windows, ending, page, gone>>
vars == <<native, system, stack, fault>>

Reading == {"fields", "buttons", "radios"}   \* inside CreateConfig

CallFrame ==
    [kind : {"show"}, d : Dialogs, cfg : Configs,
     pc : Reading \cup {"open", "constructed", "loop", "destroyed"}]
    \cup [kind : {"navigate"}, d : Dialogs, cfg : Configs,
          pc : Reading \cup {"send", "constructed", "navigated"}]

\* A listener run by the callback of d: the object it is emitted on, the button
\* clicked and the one reported; and, as history, whether preventClose was
\* called and another click on d was reported meanwhile.
ListenerFrame ==
    [kind : {"listener"}, pc : {"listener"}, d : Dialogs, note : {"click", "other"},
     this : Dialogs, asked : BOOLEAN, again : BOOLEAN, index : Nat, arg : Int]

ModalFrame == [kind : {"modal"}, pc : {"modal"}]

Frame == CallFrame \cup ListenerFrame \cup ModalFrame

Init ==
    /\ hwnd = [d \in Dialogs |-> FALSE]
    /\ preventClose = [d \in Dialogs |-> FALSE]
    /\ buttonsRt = [d \in Dialogs |-> None]
    /\ radiosRt = [d \in Dialogs |-> FALSE]
    /\ tdc = [d \in Dialogs |-> [buttons |-> 0, radios |-> 0]]
    /\ windows = [d \in Dialogs |-> 0]
    /\ ending = [d \in Dialogs |-> FALSE]
    /\ page = [d \in Dialogs |-> <<>>]
    /\ gone = [d \in Dialogs |-> FALSE]
    /\ stack = <<>>
    /\ fault = None

---------------------------------------------------------------------------
(* Who has control *)

Top == Last(stack)

At(kind, pc) == stack # <<>> /\ Top.kind = kind /\ Top.pc = pc

AtCall(pc) == stack # <<>> /\ Top.pc = pc

\* The script has control at the bottom, in a listener, and in a getter or a
\* toString that CreateConfig runs.
ScriptRuns ==
    /\ fault = None
    /\ stack # <<>> =>
          Top.pc \in {"listener"} \cup (IF Getters THEN Reading ELSE {})

\* A modal call that dispatches messages of every window of the thread; the
\* loop of a dialog stops after the message that ends its own window.
Pumping ==
    /\ fault = None
    /\ stack # <<>>
    /\ Top.pc \in {"loop", "modal"}
    /\ Top.pc = "loop" => ~ending[Top.d]

\* CreateConfig is done and the system has _tdc.
HandedOver == fault = None /\ (AtCall("open") \/ AtCall("send"))

Goto(pc) == [stack EXCEPT ![Len(stack)].pc = pc]

Push(st, frame) == Append(st, frame)

\* The objects a frame keeps alive: this of the call, this of the listener.
Holders(frame) ==
    CASE frame.kind = "modal" -> {}
      [] frame.kind = "listener" -> {frame.this}
      [] OTHER -> {frame.d}

---------------------------------------------------------------------------
(* Show, Navigate and PreventClose, called by the script *)

Call(kind, d, cfg) == [kind |-> kind, d |-> d, cfg |-> cfg, pc |-> "fields"]

\* Entering CreateConfig: memset of _tdc.
EnterConfig(kind, d, cfg) ==
    /\ Len(stack) < MaxDepth
    /\ tdc' = [tdc EXCEPT ![d] = [buttons |-> 0, radios |-> 0]]
    /\ stack' = Push(stack, Call(kind, d, cfg))
    /\ UNCHANGED <<hwnd, preventClose, buttonsRt, radiosRt, system, fault>>

\* Mutant of Show: does not look for a window.
ShowAgain(d, cfg) == ScriptRuns /\ ~gone[d] /\ EnterConfig("show", d, cfg)

\* With a window already open, Show only brings it to the foreground.
Show(d, cfg) ==
    /\ ScriptRuns /\ ~gone[d]
    /\ ~hwnd[d]
    /\ EnterConfig("show", d, cfg)

\* Navigate without a window is Show, which then reads the same argument.
Navigate(d, cfg) ==
    /\ ScriptRuns /\ ~gone[d]
    /\ EnterConfig(IF hwnd[d] THEN "navigate" ELSE "show", d, cfg)

\* Listeners of d under way learn that preventClose was called.
Asked(d) ==
    [i \in DOMAIN stack |->
        IF stack[i].kind = "listener" /\ stack[i].d = d
        THEN [stack[i] EXCEPT !.asked = TRUE] ELSE stack[i]]

PreventClose(d) ==
    /\ ScriptRuns /\ ~gone[d]
    /\ preventClose' = [preventClose EXCEPT ![d] = TRUE]
    /\ stack' = Asked(d)
    /\ UNCHANGED <<hwnd, buttonsRt, radiosRt, tdc, system, fault>>

---------------------------------------------------------------------------
(* CreateConfig, cut where it reads the argument *)

\* commonButtons and before, then: _buttonsRuntime = new TASKDIALOG_BUTTON[length].
AllocButtons ==
    /\ fault = None /\ AtCall("fields")
    /\ buttonsRt' = IF Top.cfg.buttons = None THEN buttonsRt
                    ELSE [buttonsRt EXCEPT ![Top.d] = [i \in 1..Top.cfg.buttons |-> 0]]
    /\ stack' = Goto("buttons")
    /\ UNCHANGED <<hwnd, preventClose, radiosRt, tdc, system, fault>>

\* Writing identifiers from base on into the n first elements of an array.
Numbered(array, n, base) ==
    [i \in DOMAIN array |-> IF i <= n THEN base + i - 1 ELSE array[i]]

\* Whether writing or reading n elements stays inside the array.
Holds(array, n) == n = 0 \/ (array # None /\ n <= Len(array))

Broken(what) ==
    /\ fault' = what
    /\ UNCHANGED <<native, system, stack>>

\* The loop over the buttons, then: _radiosRuntime = new TASKDIALOG_BUTTON[length].
\* Every element read may run the script; here it runs before the first or after the
\* last, which tells the arrays apart but not the identifiers of a half-filled one.
FillButtons ==
    LET d == Top.d  n == Top.cfg.buttons
    IN /\ fault = None /\ AtCall("buttons")
       /\ IF n = None
          THEN UNCHANGED <<buttonsRt, tdc>>
          ELSE /\ Holds(buttonsRt[d], n)
               /\ buttonsRt' = IF n = 0 THEN buttonsRt
                               ELSE [buttonsRt EXCEPT ![d] = Numbered(@, n, 1000)]
               /\ tdc' = [tdc EXCEPT ![d].buttons = n]
       /\ radiosRt' = [radiosRt EXCEPT ![d] = @ \/ Top.cfg.radios # None]
       /\ stack' = Goto("radios")
       /\ UNCHANGED <<hwnd, preventClose, system, fault>>

\* The loop over the radio buttons; it writes to _buttonsRuntime.
FillRadios ==
    LET d == Top.d  n == Top.cfg.radios
    IN /\ fault = None /\ AtCall("radios")
       /\ IF n = None
          THEN UNCHANGED <<buttonsRt, tdc>>
          ELSE /\ Holds(buttonsRt[d], n)
               /\ buttonsRt' = IF n = 0 THEN buttonsRt
                               ELSE [buttonsRt EXCEPT ![d] = Numbered(@, n, 2000)]
               /\ tdc' = [tdc EXCEPT ![d].radios = n]
       /\ stack' = Goto(IF Top.kind = "show" THEN "open" ELSE "send")
       /\ UNCHANGED <<hwnd, preventClose, radiosRt, system, fault>>

\* Undefined behaviour ends the run: the loops write past an array or through
\* a null pointer, the system reads an array that is no longer there.
ArrayFault ==
    /\ fault = None
    /\ \/ /\ AtCall("buttons")
          /\ Top.cfg.buttons # None /\ ~Holds(buttonsRt[Top.d], Top.cfg.buttons)
       \/ /\ AtCall("radios")
          /\ Top.cfg.radios # None /\ ~Holds(buttonsRt[Top.d], Top.cfg.radios)
       \/ /\ HandedOver
          /\ \/ ~Holds(buttonsRt[Top.d], tdc[Top.d].buttons)
             \/ ~Holds(buttonsRt[Top.d], tdc[Top.d].radios)
    /\ Broken("array")

\* A getter or a toString throws: CreateConfig and its caller are left as is.
ConfigThrows ==
    /\ fault = None /\ Getters
    /\ stack # <<>> /\ Top.pc \in Reading
    /\ stack' = Front(stack)
    /\ UNCHANGED <<native, system, fault>>

---------------------------------------------------------------------------
(* The callback *)

Listener(d, note, this, index, arg) ==
    [kind |-> "listener", pc |-> "listener", d |-> d, note |-> note, this |-> this,
     asked |-> FALSE, again |-> FALSE, index |-> index, arg |-> arg]

\* duk_push_this: the this value of the innermost native call, which is the
\* dialog of that call or, in another modal function, no dialog.
CurrentThis == IF Top.kind = "modal" THEN None ELSE Top.d

\* An exception leaves the callback through the system's frames: it ends the
\* process, or unwinds the modal call on top and surfaces in its caller, and
\* the window of that call stays without a loop.
Escape(st) ==
    \/ /\ fault' = "exception"
       /\ stack' = st
    \/ /\ fault' = fault
       /\ stack' = Front(st)

\* Mutant of Emit: an undefined this is not noticed.
EmitUnchecked(st, d, note, index, arg) ==
    /\ Len(st) < MaxDepth
    /\ stack' = Push(st, Listener(d, note, CurrentThis, index, arg))
    /\ fault' = fault

\* emit called with this: its listeners run, or it throws on undefined.
Emit(st, d, note, index, arg) ==
    IF CurrentThis = None
    THEN Escape(st)
    ELSE /\ Len(st) < MaxDepth
         /\ stack' = Push(st, Listener(d, note, CurrentThis, index, arg))
         /\ fault' = fault

\* A callback for a window whose object has been deleted: its data is the
\* address of that object.
DanglingCallback(d) ==
    /\ Pumping /\ windows[d] > 0 /\ ~ending[d]
    /\ gone[d]
    /\ Broken("dangling")

\* Mutant of FreeRuntime: forgets one of the arrays.
FreeRadiosRuntime(d) ==
    /\ radiosRt' = [radiosRt EXCEPT ![d] = FALSE]
    /\ UNCHANGED buttonsRt

FreeRuntime(d) ==
    /\ buttonsRt' = [buttonsRt EXCEPT ![d] = None]
    /\ radiosRt' = [radiosRt EXCEPT ![d] = FALSE]

\* TDN_DIALOG_CONSTRUCTED, the first notification of a window and of a page.
DialogConstructed ==
    LET d == Top.d
    IN /\ HandedOver
       /\ Holds(buttonsRt[d], tdc[d].buttons) /\ Holds(buttonsRt[d], tdc[d].radios)
       /\ page' = [page EXCEPT ![d] = IF tdc[d].buttons = 0 THEN <<>>
                                      ELSE SubSeq(buttonsRt[d], 1, tdc[d].buttons)]
       /\ windows' = IF Top.kind = "show" THEN [windows EXCEPT ![d] = @ + 1] ELSE windows
       /\ hwnd' = [hwnd EXCEPT ![d] = TRUE]
       /\ FreeRuntime(d)
       /\ Emit(Goto("constructed"), d, "other", 0, 0)
       /\ UNCHANGED <<preventClose, tdc, ending, gone>>

\* TDN_CREATED.
Created ==
    /\ fault = None /\ At("show", "constructed")
    /\ Emit(Goto("loop"), Top.d, "other", 0, 0)
    /\ UNCHANGED <<native, system>>

\* TDN_NAVIGATED.
Navigated ==
    /\ fault = None /\ At("navigate", "constructed")
    /\ Emit(Goto("navigated"), Top.d, "other", 0, 0)
    /\ UNCHANGED <<native, system>>

\* The system makes callbacks for a window it has open, until its end is
\* accepted.
Reports(d) == Pumping /\ windows[d] > 0 /\ ~ending[d] /\ ~gone[d]

\* Clicks on d that are being reported learn that there is another one.
ClickedAgain(d) ==
    [i \in DOMAIN stack |->
        IF stack[i].kind = "listener" /\ stack[i].d = d
        THEN [stack[i] EXCEPT !.again = TRUE] ELSE stack[i]]

\* Mutant of ButtonClicked: the flag of an earlier call is not reset.
ButtonClickedStale(d, i) ==
    /\ Reports(d)
    /\ Emit(ClickedAgain(d), d, "click", i, IF i = 0 THEN 0 ELSE page[d][i] - 1000)
    /\ UNCHANGED <<native, system>>

\* TDN_BUTTON_CLICKED for the i-th custom button, or for a common button (0),
\* which is reported by name.
ButtonClicked(d, i) ==
    /\ Reports(d)
    /\ preventClose' = [preventClose EXCEPT ![d] = FALSE]
    /\ Emit(ClickedAgain(d), d, "click", i, IF i = 0 THEN 0 ELSE page[d][i] - 1000)
    /\ UNCHANGED <<hwnd, buttonsRt, radiosRt, tdc, system>>

\* The notifications that only emit: hyperlink, radio button, verification,
\* expando button, help.
OtherNotification(d) ==
    /\ Reports(d)
    /\ Emit(stack, d, "other", 0, 0)
    /\ UNCHANGED <<native, system>>

\* Mutant of Destroyed: the handle is not reset.
DestroyedKeepsHandle ==
    LET d == Top.d
    IN /\ fault = None /\ At("show", "loop")
       /\ ending[d]
       /\ windows' = [windows EXCEPT ![d] = @ - 1]
       /\ ending' = [ending EXCEPT ![d] = FALSE]
       /\ Emit(Goto("destroyed"), d, "other", 0, 0)
       /\ UNCHANGED <<native, page, gone>>

\* TDN_DESTROYED, sent when the loop of the window's own Show has control.
Destroyed ==
    LET d == Top.d
    IN /\ fault = None /\ At("show", "loop")
       /\ ending[d]
       /\ windows' = [windows EXCEPT ![d] = @ - 1]
       /\ ending' = [ending EXCEPT ![d] = FALSE]
       /\ hwnd' = [hwnd EXCEPT ![d] = FALSE]
       /\ Emit(Goto("destroyed"), d, "other", 0, 0)
       /\ UNCHANGED <<preventClose, buttonsRt, radiosRt, tdc, page, gone>>

\* Mutant of ListenersReturn: always answers S_OK.
ListenersReturnClosing ==
    LET d == Top.d
    IN /\ fault = None /\ stack # <<>> /\ Top.kind = "listener"
       /\ ending' = IF Top.note = "click" /\ windows[d] > 0
                    THEN [ending EXCEPT ![d] = TRUE] ELSE ending
       /\ stack' = Front(stack)
       /\ UNCHANGED <<native, windows, page, gone, fault>>

\* The listeners of an emission have returned.  A click is answered S_FALSE
\* when preventClose was called, otherwise the system ends the window.
ListenersReturn ==
    LET d == Top.d
    IN /\ fault = None /\ stack # <<>> /\ Top.kind = "listener"
       /\ IF Top.note = "click" /\ preventClose[d]
          THEN /\ preventClose' = [preventClose EXCEPT ![d] = FALSE]
               /\ UNCHANGED ending
          ELSE /\ ending' = IF Top.note = "click" /\ windows[d] > 0
                            THEN [ending EXCEPT ![d] = TRUE] ELSE ending
               /\ UNCHANGED preventClose
       /\ stack' = Front(stack)
       /\ UNCHANGED <<hwnd, buttonsRt, radiosRt, tdc, windows, page, gone, fault>>

ListenerThrows ==
    /\ fault = None /\ Throws
    /\ stack # <<>> /\ Top.kind = "listener"
    /\ Escape(Front(stack))
    /\ UNCHANGED <<native, system>>

---------------------------------------------------------------------------
(* The system and other modal calls *)

\* TaskDialogIndirect or TDM_NAVIGATE_PAGE fails without a callback; the
\* runtime arrays are freed and the call throws.
SystemFails ==
    /\ HandedOver
    /\ Holds(buttonsRt[Top.d], tdc[Top.d].buttons)
    /\ Holds(buttonsRt[Top.d], tdc[Top.d].radios)
    /\ FreeRuntime(Top.d)
    /\ stack' = Front(stack)
    /\ UNCHANGED <<hwnd, preventClose, tdc, system, fault>>

\* Mutant of CallReturns: Show does not wait for the end of its window.
CallReturnsEarly ==
    /\ fault = None
    /\ At("show", "loop") \/ At("show", "destroyed") \/ At("navigate", "navigated")
    /\ FreeRuntime(Top.d)
    /\ stack' = Front(stack)
    /\ UNCHANGED <<hwnd, preventClose, tdc, system, fault>>

\* TaskDialogIndirect or SendMessage returns S_OK to Show or Navigate.
CallReturns ==
    /\ fault = None
    /\ At("show", "destroyed") \/ At("navigate", "navigated")
    /\ FreeRuntime(Top.d)
    /\ stack' = Front(stack)
    /\ UNCHANGED <<hwnd, preventClose, tdc, system, fault>>

OpenModal ==
    /\ ScriptRuns /\ ApiModal
    /\ Len(stack) < MaxDepth
    /\ stack' = Push(stack, [kind |-> "modal", pc |-> "modal"])
    /\ UNCHANGED <<native, system, fault>>

CloseModal ==
    /\ fault = None /\ stack # <<>> /\ Top.kind = "modal"
    /\ stack' = Front(stack)
    /\ UNCHANGED <<native, system, fault>>

\* The script has dropped its references to d, and no call under way has it as
\* this: JSClass runs the finalizer, which deletes the native object.
Finalize(d) ==
    /\ fault = None /\ ~gone[d]
    /\ \A i \in DOMAIN stack : d \notin Holders(stack[i])
    /\ gone' = [gone EXCEPT ![d] = TRUE]
    /\ UNCHANGED <<native, windows, ending, page, stack, fault>>

\* After a fault nothing of the program is left to run; and the script may end.
Ended == (fault # None \/ stack = <<>>) /\ UNCHANGED vars

---------------------------------------------------------------------------

ScriptCalls ==
    \/ \E d \in Dialogs, cfg \in Configs : Show(d, cfg) \/ Navigate(d, cfg)
    \/ \E d \in Dialogs : PreventClose(d)
    \/ OpenModal

ConfigStep == AllocButtons \/ FillButtons \/ FillRadios \/ ArrayFault

SystemStep ==
    \/ DialogConstructed \/ Created \/ Navigated \/ Destroyed
    \/ SystemFails \/ CallReturns

UserActs ==
    \/ \E d \in Dialogs : \E i \in 0..Len(page[d]) : ButtonClicked(d, i)
    \/ \E d \in Dialogs : OtherNotification(d) \/ DanglingCallback(d)
    \/ CloseModal

Next ==
    \/ ScriptCalls \/ ConfigStep \/ ConfigThrows \/ SystemStep
    \/ UserActs \/ ListenersReturn \/ ListenerThrows
    \/ (\E d \in Dialogs : Finalize(d)) \/ Ended

Spec == Init /\ [][Next]_vars

\* A click on the dialog whose loop has control, accepted: at depth n.
AcceptedAt(n) ==
    /\ Len(stack) = n
    /\ ListenersReturn
    /\ Top.note = "click" /\ ~preventClose[Top.d]

ClickedAt(n) == Len(stack) = n /\ At("show", "loop") /\ ButtonClicked(Top.d, 0)

GivenBackAt(n) == Len(stack) = n /\ (ListenersReturn \/ CloseModal)

\* The code and the system run on.  Of the rest the code assumes what every
\* modal call assumes: whoever has control gives it back.  At each depth where
\* it can happen, a listener that keeps running returns, a user who sees a
\* window in front clicks a button, and no script refuses every click there is.
Fairness ==
    /\ WF_vars(ConfigStep) /\ WF_vars(SystemStep)
    /\ \A n \in 2..MaxDepth : SF_vars(GivenBackAt(n)) /\ SF_vars(AcceptedAt(n))
    /\ \A n \in 1..(MaxDepth - 1) : SF_vars(ClickedAt(n))

FairSpec == Spec /\ Fairness

---------------------------------------------------------------------------
(* Properties *)

\* Frames, arrays and window counts are well formed; no listener runs on no dialog.
TypeOK ==
    /\ {hwnd, preventClose, radiosRt, ending, gone} \subseteq [Dialogs -> BOOLEAN]
    /\ buttonsRt \in [Dialogs -> {None} \cup Seq(Nat)]
    /\ tdc \in [Dialogs -> [buttons : Nat, radios : Nat]]
    /\ windows \in [Dialogs -> Nat]
    /\ page \in [Dialogs -> Seq(Nat)]
    /\ stack \in Seq(Frame)
    /\ fault \in {None, "array", "exception", "dangling"}

Calls(d) == {i \in DOMAIN stack : stack[i].kind # "modal" /\ stack[i].d = d}

\* One object never has two windows: the handle, the page texts and the arrays
\* it owns serve one.  The listeners of dialogConstructed and destroyed may
\* show the dialog again, and a getter may show it before its window exists.
OneWindow == \A d \in Dialogs : windows[d] <= 1

\* The handle is set exactly while the window exists, so that show opens a
\* window when there is none, and enableButton and navigate reach one.
HandleFollowsWindow == \A d \in Dialogs : hwnd[d] <=> windows[d] > 0

\* Lines 81-82 of NKWinTaskDialog.cpp, _ASSERTE(_buttonsRuntime == nullptr) and
\* _ASSERTE(_radiosRuntime == nullptr) on entry of CreateConfig; lines 21-22
\* state the same of the destructor.  The arrays exist only while a call that
\* has not handed them to a window is under way.
RuntimeFree ==
    \A d \in Dialogs :
        AtCall("fields") /\ Top.d = d => buttonsRt[d] = None /\ ~radiosRt[d]

RuntimeOwned ==
    \A d \in Dialogs : buttonsRt[d] # None \/ radiosRt[d] =>
        \E i \in Calls(d) : stack[i].pc \in {"buttons", "radios", "open", "send"}

\* The callback of a click on d is answered in this step.
ClickAnswered ==
    /\ fault' = None
    /\ stack # <<>> /\ Top.kind = "listener" /\ Top.note = "click"
    /\ stack' = Front(stack)

\* A click is refused only when preventClose was called while it was being
\* reported: a call made at another moment, or for an earlier click, does not
\* keep the window open.
RefusedOnlyIfAsked ==
    [][ClickAnswered /\ ~ending'[Top.d] => Top.asked]_vars

\* And when it was called, the click is refused, unless another click on the
\* same dialog was reported meanwhile: that one clears the flag they share.
PreventCloseHonoured ==
    [][ClickAnswered /\ Top.asked /\ ~Top.again /\ ~ending[Top.d]
          => ~ending'[Top.d]]_vars

\* The system calls back with the address of a living object: while a dialog has
\* a window, the call of show that opened it keeps the object, whatever
\* references the script drops.  Only an exception that unwinds that call leaves
\* the window behind.
WindowHasObject == \A d \in Dialogs : windows[d] > 0 => ~gone[d]

\* The dialogs and clicks of ModalDialogs: the handle says whether there is a
\* window; configurations, arrays and flags are not seen, nor what is left of
\* the calls after a fault.
DialogState ==
    [d \in Dialogs |-> IF ~hwnd[d] THEN "closed"
                       ELSE IF ending[d] THEN "closing" ELSE "open"]

ClickOf(frame) ==
    IF frame.kind = "listener" /\ frame.note = "click"
    THEN [d |-> frame.d, asked |-> frame.asked, again |-> frame.again]
    ELSE [d |-> None, asked |-> FALSE, again |-> FALSE]

CallsSeen ==
    IF fault = None THEN [i \in DOMAIN stack |-> ClickOf(stack[i])] ELSE <<>>

Modal == INSTANCE ModalDialogs WITH dialog <- DialogState, calls <- CallsSeen

\* The dialogs keep what ModalDialogs promises a script: one window, that stays
\* while a click on it is being reported; clicks answered one by one, each by
\* its own request only, however calls, exceptions and failures interleave.
KeepsPromise == Modal!Spec

\* A dialog whose end was accepted while an inner call had control is gone in
\* the end, and can be shown again: until then show only raises its window.
EndingCompletes == \A d \in Dialogs : ending[d] ~> ~hwnd[d]

\* An event of a dialog is emitted on that dialog, whose listeners were
\* registered for it (src/examples/test.js lines 3-13): on no other dialog, and
\* not on undefined, which would throw through the system's frames.
EventReachesItsDialog ==
    /\ \A i \in DOMAIN stack :
          stack[i].kind = "listener" => stack[i].this = stack[i].d
    /\ ~Throws => fault # "exception"

\* buttonClicked reports the index of the button in the buttons array.
ClickReportsIndex ==
    \A i \in DOMAIN stack :
        stack[i].kind = "listener" /\ stack[i].note = "click" /\ stack[i].index # 0
            => stack[i].arg = stack[i].index - 1
===========================================================================
