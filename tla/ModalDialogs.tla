--------------------------- MODULE ModalDialogs ---------------------------
(***************************************************************************)
(* What NKWinTaskDialog promises a script about its dialogs, without the    *)
(* configuration, the arrays, the window handles and the flag of the object *)
(* (src/NekoScript/NKWinTaskDialog.cpp): a dialog is closed, open, or its    *)
(* end is accepted; each click is answered, in the order calls return; the  *)
(* answer is the script's if it asks during the click, and nobody else's.   *)
(* TaskDialog implements this module.                                      *)
(***************************************************************************)
EXTENDS SequencesExt

CONSTANTS
    Dialogs,
    None      \* no dialog, which is none of Dialogs

VARIABLES
    dialog,  \* where each dialog is
    calls    \* calls under way, the innermost last: clicks and others

vars == <<dialog, calls>>

\* A click on d that is being reported: preventClose was called meanwhile,
\* another click on d was reported meanwhile.  And any other call.
Click(d) == [d |-> d, asked |-> FALSE, again |-> FALSE]

Other == Click(None)

Init ==
    /\ dialog = [d \in Dialogs |-> "closed"]
    /\ calls = <<>>

Clicks(d) == {i \in DOMAIN calls : calls[i].d = d}

Innermost == Last(calls)

---------------------------------------------------------------------------
(* Calls other than clicks *)

Enter ==
    /\ calls' = Append(calls, Other)
    /\ UNCHANGED dialog

Leave ==
    /\ calls # <<>> /\ Innermost.d = None
    /\ calls' = Front(calls)
    /\ UNCHANGED dialog

\* An exception leaves a listener and the modal call that runs it.
Unwind ==
    /\ Len(calls) >= 2
    /\ calls' = Front(Front(calls))
    /\ UNCHANGED dialog

\* The process ends.
Crash ==
    /\ calls' = <<>>
    /\ UNCHANGED dialog

\* The window appears, and the script is told.
Open(d) ==
    /\ dialog[d] = "closed"
    /\ dialog' = [dialog EXCEPT ![d] = "open"]
    /\ calls' = Append(calls, Other)

\* The window goes only when its end was accepted and none of its clicks is
\* still being reported, and the script is told.
Close(d) ==
    /\ dialog[d] = "closing"
    /\ Clicks(d) = {}
    /\ dialog' = [dialog EXCEPT ![d] = "closed"]
    /\ calls' = Append(calls, Other)

---------------------------------------------------------------------------
(* Clicks *)

\* Clicks on d that are under way learn that there is another one.
Repeated(d) ==
    [i \in DOMAIN calls |->
        IF i \in Clicks(d) THEN [calls[i] EXCEPT !.again = TRUE] ELSE calls[i]]

ClickOn(d) ==
    /\ dialog[d] = "open"
    /\ calls' = Append(Repeated(d), Click(d))
    /\ UNCHANGED dialog

\* Reporting the click fails, and takes the call that pumps messages with it.
ClickLost(d) ==
    /\ dialog[d] = "open"
    /\ calls # <<>> /\ Innermost.d = None
    /\ calls' = Front(Repeated(d))
    /\ UNCHANGED dialog

PreventClose(d) ==
    /\ calls' = [i \in DOMAIN calls |->
                    IF i \in Clicks(d) THEN [calls[i] EXCEPT !.asked = TRUE]
                    ELSE calls[i]]
    /\ UNCHANGED dialog

\* A click is refused only if that was asked while it was reported,
Refuse ==
    /\ calls # <<>> /\ Innermost.d # None
    /\ Innermost.asked
    /\ calls' = Front(calls)
    /\ UNCHANGED dialog

\* and accepted only if it was not, or another click has used the request up.
Accept ==
    /\ calls # <<>> /\ Innermost.d # None
    /\ Innermost.asked => Innermost.again
    /\ dialog[Innermost.d] # "closed"
    /\ dialog' = [dialog EXCEPT ![Innermost.d] = "closing"]
    /\ calls' = Front(calls)

---------------------------------------------------------------------------

Next ==
    \/ Enter \/ Leave \/ Unwind \/ Crash \/ Refuse \/ Accept
    \/ \E d \in Dialogs :
          Open(d) \/ Close(d) \/ ClickOn(d) \/ ClickLost(d) \/ PreventClose(d)

Spec == Init /\ [][Next]_vars
===========================================================================
