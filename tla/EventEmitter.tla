--------------------------- MODULE EventEmitter ---------------------------
(***************************************************************************)
(* The event emitter every scriptable native object inherits from          *)
(* (src/NekoScript/lib/init_EventEmitter.js).  One emitter object, the      *)
(* script that calls it, and the emissions that are under way on it.        *)
(*                                                                         *)
(* A listener is a function of the script.  While it runs it may call any  *)
(* operation of the same emitter, emitEvent included, so emissions nest:    *)
(* stack holds one frame for each call of emitEvent that has not returned.  *)
(* An event name is a member of Events.  A regular expression is the set    *)
(* of the names it matches; only names that are defined react to it.        *)
(***************************************************************************)
EXTENDS Integers, SequencesExt

CONSTANTS
    Events,        \* event names
    Listeners,     \* listener functions
    Regexes,       \* regular expressions, each the set of names it matches
    Values,        \* what a listener may return
    DefaultOnce,   \* true, the value _getOnceReturnValue starts from
    None,          \* no event, no listener
    MaxListeners,  \* bound: entries in one listener array
    MaxDepth       \* bound: emissions under way at once

ASSUME ConstantsAssumption ==
    /\ Regexes \subseteq SUBSET Events
    /\ DefaultOnce \in Values
    /\ None \notin Events
    /\ None \notin Listeners
    /\ MaxListeners \in Nat
    /\ MaxDepth \in Nat

VARIABLES
    defined,     \* the keys of this._events
    listeners,   \* this._events[e], <<>> for a key that is not defined
    onceReturn,  \* this._onceReturnValue, or its default
    stack        \* the emitEvent calls under way, the innermost last

vars == <<defined, listeners, onceReturn, stack>>

Entry == [listener : Listeners, once : BOOLEAN]

\* The evt argument of an operation: a name or a regular expression.
Selector == [regex : {FALSE}, keys : {{e} : e \in Events}]
                \cup [regex : {TRUE}, keys : Regexes]

\* The local variables of one emitEvent call.  live and detached are the keys
\* of listenersMap the loop has not reached: the array of a live key still is
\* the one of the emitter, the array of a detached key was dropped from the
\* emitter by removeEvent and nothing can change it any more.  owed is a
\* history field: the registrations found when the call began that were
\* neither executed nor taken back before the turn of their event.
Frame == [sel : Selector, live : SUBSET Events, detached : SUBSET Events,
          old : [Events -> Seq(Entry)], key : Events \cup {None},
          snap : Seq(Entry), cur : Listeners \cup {None},
          owed : SUBSET (Events \X Listeners)]

Init ==
    /\ defined = {}
    /\ listeners = [e \in Events |-> <<>>]
    /\ onceReturn = DefaultOnce
    /\ stack = <<>>

---------------------------------------------------------------------------
(* Listener arrays *)

\* Searches from the end; 0 stands for the -1 of the code.
indexOfListener(array, f) == SelectLastInSeq(array, LAMBDA x : x.listener = f)

Attached(array, f) == \E i \in DOMAIN array : array[i].listener = f

\* Mutant of Added: the search for a duplicate is missing.
AddedAlways(array, f) == Append(array, [listener |-> f, once |-> FALSE])

\* addListener with a function: no entry when the function is there already.
Added(array, f) ==
    IF indexOfListener(array, f) = 0
    THEN Append(array, [listener |-> f, once |-> FALSE])
    ELSE array

\* addOnceListener hands addListener a wrapper object, which is the
\* listener of no entry: the search for a duplicate never finds one.
AddedOnce(array, f) == Append(array, [listener |-> f, once |-> TRUE])

\* splice(index, 1) at the index found, if any.
Removed(array, f) ==
    LET i == indexOfListener(array, f)
    IN IF i = 0 THEN array ELSE RemoveAt(array, i)

\* getListeners: a name that was not defined becomes defined by being looked
\* up, a regular expression selects among the names that are.
Touched(sel) == IF sel.regex THEN defined ELSE defined \cup sel.keys

getListenersAsObject(sel) == sel.keys \cap Touched(sel)

---------------------------------------------------------------------------
(* Frames *)

ScriptRuns == stack # <<>> => Last(stack).cur # None

Pending(fr) == fr.live \cup fr.detached

NewFrame(sel) ==
    [sel |-> sel, live |-> getListenersAsObject(sel), detached |-> {},
     old |-> [e \in Events |-> <<>>], key |-> None, snap |-> <<>>, cur |-> None,
     owed |-> {p \in getListenersAsObject(sel) \X Listeners :
                    Attached(listeners[p[1]], p[2])}]

\* A registration taken out of an array whose turn has not come is not owed.
Settled(fr, arrays) ==
    [fr EXCEPT !.owed =
        {p \in @ : p[1] \in fr.live => Attached(arrays[p[1]], p[2])}]

\* removeEvent drops the arrays of the keys in gone; a listenersMap that
\* still holds one keeps it as it is.
Detached(fr, gone) ==
    [fr EXCEPT !.live = @ \ gone,
               !.detached = @ \cup (fr.live \cap gone),
               !.old = [e \in Events |-> IF e \in fr.live \cap gone
                                         THEN listeners[e] ELSE @[e]]]

\* this.removeListener(sel, f), with st the emissions under way.
Unregister(sel, f, st) ==
    /\ defined' = Touched(sel)
    /\ listeners' = [e \in Events |-> IF e \in getListenersAsObject(sel)
                                      THEN Removed(listeners[e], f)
                                      ELSE listeners[e]]
    /\ stack' = [i \in DOMAIN st |-> Settled(st[i], listeners')]

WithTop(fr) == [stack EXCEPT ![Len(stack)] = fr]

---------------------------------------------------------------------------
(* Operations the script may call, from a listener too *)

addListener(sel, f) ==
    /\ ScriptRuns
    /\ defined' = Touched(sel)
    /\ listeners' = [e \in Events |-> IF e \in getListenersAsObject(sel)
                                      THEN Added(listeners[e], f)
                                      ELSE listeners[e]]
    /\ \A e \in Events : Len(listeners'[e]) <= MaxListeners
    /\ UNCHANGED <<onceReturn, stack>>

addOnceListener(sel, f) ==
    /\ ScriptRuns
    /\ defined' = Touched(sel)
    /\ listeners' = [e \in Events |-> IF e \in getListenersAsObject(sel)
                                      THEN AddedOnce(listeners[e], f)
                                      ELSE listeners[e]]
    /\ \A e \in Events : Len(listeners'[e]) <= MaxListeners
    /\ UNCHANGED <<onceReturn, stack>>

removeListener(sel, f) ==
    /\ ScriptRuns
    /\ Unregister(sel, f, stack)
    /\ UNCHANGED onceReturn

defineEvent(e) ==
    /\ ScriptRuns
    /\ defined' = defined \cup {e}
    /\ UNCHANGED <<listeners, onceReturn, stack>>

\* Mutant of removeEvent: the key goes, its array stays.
RemoveEventOnly(keys) ==
    /\ ScriptRuns
    /\ defined' = defined \ keys
    /\ UNCHANGED <<listeners, onceReturn, stack>>

\* keys: one name, the names a regular expression matches, or all of them
\* when removeEvent is called without an argument.
removeEvent(keys) ==
    /\ ScriptRuns
    /\ defined' = defined \ keys
    /\ listeners' = [e \in Events |-> IF e \in keys THEN <<>> ELSE listeners[e]]
    /\ stack' = [i \in DOMAIN stack |-> Detached(stack[i], keys)]
    /\ UNCHANGED onceReturn

setOnceReturnValue(v) ==
    /\ ScriptRuns
    /\ onceReturn' = v
    /\ UNCHANGED <<defined, listeners, stack>>

\* emit and emitEvent: evaluate listenersMap and enter the loop.
emitEvent(sel) ==
    /\ ScriptRuns
    /\ Len(stack) < MaxDepth
    /\ defined' = Touched(sel)
    /\ stack' = Append(stack, NewFrame(sel))
    /\ UNCHANGED <<listeners, onceReturn>>

---------------------------------------------------------------------------
(* The loop of the innermost emitEvent *)

LoopRuns == stack # <<>> /\ Last(stack).cur = None

\* Mutant of Snapshot: looks the key up in the emitter, not in listenersMap.
SnapshotOfEmitter(fr, e) == listeners[e]

\* slice(0) of the array of the next key, in whatever order for-in gives.
Snapshot(fr, e) == IF e \in fr.live THEN listeners[e] ELSE fr.old[e]

NextKey(e) ==
    LET fr == Last(stack)
    IN /\ LoopRuns
       /\ fr.snap = <<>>
       /\ e \in Pending(fr)
       /\ stack' = WithTop([fr EXCEPT !.key = e, !.snap = Snapshot(fr, e),
                                      !.live = @ \ {e}, !.detached = @ \ {e},
                                      !.old[e] = <<>>])
       /\ UNCHANGED <<defined, listeners, onceReturn>>

\* Mutants of Calling: an entry is skipped; the index is not decremented.
CallingSkips(fr) ==
    [fr EXCEPT !.snap = SubSeq(@, 1, Len(@) - 2), !.cur = Last(fr.snap).listener,
               !.owed = @ \ {<<fr.key, Last(fr.snap).listener>>}]

CallingAgain(fr) ==
    [fr EXCEPT !.cur = Last(fr.snap).listener,
               !.owed = @ \ {<<fr.key, Last(fr.snap).listener>>}]

\* The frame while the last entry of its copy runs.
Calling(fr) ==
    [fr EXCEPT !.snap = Front(@), !.cur = Last(fr.snap).listener,
               !.owed = @ \ {<<fr.key, Last(fr.snap).listener>>}]

\* Mutant of CallListener: a once entry stays registered.
CallListenerKeeping ==
    /\ LoopRuns
    /\ Last(stack).snap # <<>>
    /\ stack' = WithTop(Calling(Last(stack)))
    /\ UNCHANGED <<defined, listeners, onceReturn>>

CallListener ==
    LET fr == Last(stack)
    IN /\ LoopRuns
       /\ fr.snap # <<>>
       /\ IF Last(fr.snap).once
          THEN Unregister(fr.sel, Last(fr.snap).listener, WithTop(Calling(fr)))
          ELSE /\ stack' = WithTop(Calling(fr))
               /\ UNCHANGED <<defined, listeners>>
       /\ UNCHANGED onceReturn

ListenerReturns(v) ==
    LET fr == Last(stack)
        top == [fr EXCEPT !.cur = None]
    IN /\ stack # <<>>
       /\ fr.cur # None
       /\ IF v = onceReturn
          THEN Unregister(fr.sel, fr.cur, WithTop(top))
          ELSE /\ stack' = WithTop(top)
               /\ UNCHANGED <<defined, listeners>>
       /\ UNCHANGED onceReturn

\* An exception leaves the listener and the emitEvent that called it; the
\* listener below, or the script, catches it or throws in its turn.
ListenerThrows ==
    /\ stack # <<>>
    /\ Last(stack).cur # None
    /\ stack' = Front(stack)
    /\ UNCHANGED <<defined, listeners, onceReturn>>

LoopEnds(fr) == fr.cur = None /\ fr.snap = <<>> /\ Pending(fr) = {}

EmitReturns ==
    /\ stack # <<>>
    /\ LoopEnds(Last(stack))
    /\ stack' = Front(stack)
    /\ UNCHANGED <<defined, listeners, onceReturn>>

---------------------------------------------------------------------------

ScriptStep ==
    \/ \E sel \in Selector, f \in Listeners :
          addListener(sel, f) \/ addOnceListener(sel, f) \/ removeListener(sel, f)
    \/ \E e \in Events : defineEvent(e)
    \/ \E sel \in Selector : removeEvent(sel.keys) \/ emitEvent(sel)
    \/ removeEvent(Events)
    \/ \E v \in Values : setOnceReturnValue(v)

LoopStep ==
    \/ \E e \in Events : NextKey(e)
    \/ CallListener
    \/ EmitReturns

ListenerEnds == ListenerThrows \/ \E v \in Values : ListenerReturns(v)

Next == ScriptStep \/ LoopStep \/ ListenerEnds

Spec == Init /\ [][Next]_vars

\* emitEvent's loop is ordinary code and runs on; a listener is assumed to
\* return or to throw in the end, whatever it does before.
Fairness == WF_vars(LoopStep) /\ WF_vars(ListenerEnds)

FairSpec == Spec /\ Fairness

---------------------------------------------------------------------------
(* Properties *)

\* Arrays hold entries, undefined events hold none, frames are well formed.
TypeOK ==
    /\ defined \subseteq Events
    /\ listeners \in [Events -> Seq(Entry)]
    /\ \A e \in Events \ defined : listeners[e] = <<>>
    /\ onceReturn \in Values
    /\ stack \in Seq(Frame)

\* In an array, every entry for a function after its first one is a once
\* entry: addListener registers a function at most once, whatever removals
\* (which search from the end), once registrations and emissions came between.
OnceFollow(array) ==
    \A i, j \in DOMAIN array :
        i < j /\ array[i].listener = array[j].listener => array[j].once

PersistentOnce == \A e \in Events : OnceFollow(listeners[e])

\* What an emission owes is still queued: in the copy being executed, in the
\* array of an event to come, or in such an array after removeEvent dropped it.
Queued(fr, arrays) ==
    \A p \in fr.owed :
        \/ p[1] \in fr.live /\ Attached(arrays[p[1]], p[2])
        \/ p[1] \in fr.detached /\ Attached(fr.old[p[1]], p[2])
        \/ p[1] = fr.key /\ Attached(fr.snap, p[2])

OwedIsQueued == \A i \in DOMAIN stack : Queued(stack[i], listeners)

\* The keys a call has still to visit are live or detached, never both.
QueuesDisjoint == \A i \in DOMAIN stack : stack[i].live \cap stack[i].detached = {}

\* The key being visited is none of those, and is set when its copy is walked.
KeyTaken ==
    \A i \in DOMAIN stack :
        /\ stack[i].key \notin stack[i].live
        /\ stack[i].snap # <<>> => stack[i].key # None

\* When emitEvent returns, every listener that was attached when it was called
\* has been executed or was removed before the turn of its event came, even if
\* listeners add, remove, emit and remove whole events meanwhile.
EmissionDelivers ==
    \A i \in DOMAIN stack : LoopEnds(stack[i]) => stack[i].owed = {}

\* The emitter as EmitterContract sees it.
AttachedPairs == {p \in Events \X Listeners : Attached(listeners[p[1]], p[2])}

PromisedIn(st) == [i \in DOMAIN st |-> st[i].owed]

RunningIn(st) == [i \in DOMAIN st |-> st[i].cur]

Contract == INSTANCE EmitterContract WITH
    attached <- AttachedPairs,
    promised <- PromisedIn(stack),
    running <- RunningIn(stack)

\* The emitter keeps its contract: what a call of on, off or removeEvent changes
\* is what it says, and an emission is released from executing a listener only
\* by executing it or by that listener's removal, in whatever order listeners
\* act on the emitter while they are executed.
KeepsContract == Contract!Spec

\* emitEvent works on copies: it returns even when the listeners it executes
\* register themselves again on every call.
EmissionEnds == [](stack # <<>> => <>(stack = <<>>))

\* Lines 348 and 352 of init_EventEmitter.js: "every listener attached to that
\* event will be executed", "emit to all events that match it".  Executing one
\* listener does not cost the emission another one it still owes.
CallCostsOnlyItself ==
    [][\A i \in DOMAIN stack \cap DOMAIN stack' :
          stack[i].cur = None /\ stack'[i].cur # None =>
             stack[i].owed \ stack'[i].owed
                \subseteq {<<stack'[i].key, stack'[i].cur>>}]_vars
===========================================================================
