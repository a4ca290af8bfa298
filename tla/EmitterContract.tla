-------------------------- MODULE EmitterContract --------------------------
(***************************************************************************)
(* What the emitter promises a script, without arrays, entries, copies and   *)
(* once flags (src/NekoScript/lib/init_EventEmitter.js): functions are        *)
(* attached to events; an emission promises to execute what is attached when  *)
(* it begins, is released from a promise only by executing the function or by  *)
(* its removal, and returns when nothing is left of its promises.              *)
(* EventEmitter implements this module.                                       *)
(***************************************************************************)
EXTENDS SequencesExt

CONSTANTS
    Events,
    Listeners,
    None        \* no function, which is none of Listeners

VARIABLES
    attached,  \* pairs of an event and a function
    promised,  \* what each emission under way still promises, the innermost last
    running    \* the function each of them is executing, or None

vars == <<attached, promised, running>>

Init ==
    /\ attached = {}
    /\ promised = <<>>
    /\ running = <<>>

\* The script has control: at the bottom, or in a listener.
Script == running # <<>> => Last(running) # None

\* The innermost emission has control.
Loop == running # <<>> /\ Last(running) = None

Now(f) == [running EXCEPT ![Len(running)] = f]

\* before was promised, after is: only what is detached in this step is gone.
Released(before, after) ==
    /\ DOMAIN after = DOMAIN before
    /\ \A i \in DOMAIN before :
          /\ after[i] \subseteq before[i]
          /\ before[i] \ after[i] \subseteq attached \ attached'

\* Only registrations of f go; one that was made twice may stay.
DetachedOnly(f) ==
    /\ attached' \subseteq attached
    /\ attached \ attached' \subseteq Events \X {f}

---------------------------------------------------------------------------

Attach(keys, f) ==
    /\ Script
    /\ attached' = attached \cup (keys \X {f})
    /\ UNCHANGED <<promised, running>>

Detach(f) ==
    /\ Script
    /\ DetachedOnly(f)
    /\ Released(promised, promised')
    /\ UNCHANGED running

\* Dropping whole events releases no emission from what it promised.
DropEvents(keys) ==
    /\ Script
    /\ attached' = attached \ (keys \X Listeners)
    /\ UNCHANGED <<promised, running>>

Begin(keys) ==
    /\ Script
    /\ promised' = Append(promised, attached \cap (keys \X Listeners))
    /\ running' = Append(running, None)
    /\ UNCHANGED attached

\* Executing f for e; a once registration goes with it.
Execute(e, f) ==
    /\ Loop
    /\ DetachedOnly(f)
    /\ Released([promised EXCEPT ![Len(promised)] = @ \ {<<e, f>>}], promised')
    /\ running' = Now(f)

\* A listener may ask to be detached by what it returns.
Return ==
    /\ running # <<>> /\ Script
    /\ DetachedOnly(Last(running))
    /\ Released(promised, promised')
    /\ running' = Now(None)

\* The emission returns only when it has kept all it promised.
End ==
    /\ Loop
    /\ Last(promised) = {}
    /\ promised' = Front(promised)
    /\ running' = Front(running)
    /\ UNCHANGED attached

\* An exception of a listener ends its emission, whatever is left.
Abandon ==
    /\ running # <<>> /\ Script
    /\ promised' = Front(promised)
    /\ running' = Front(running)
    /\ UNCHANGED attached

Next ==
    \/ \E keys \in SUBSET Events :
          \/ \E f \in Listeners : Attach(keys, f)
          \/ DropEvents(keys) \/ Begin(keys)
    \/ \E f \in Listeners : Detach(f)
    \/ \E e \in Events, f \in Listeners : Execute(e, f)
    \/ Return \/ End \/ Abandon

Spec == Init /\ [][Next]_vars
===========================================================================
