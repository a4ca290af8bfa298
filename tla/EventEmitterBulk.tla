------------------------- MODULE EventEmitterBulk -------------------------
(***************************************************************************)
(* EventEmitter with its bulk operations, and a history variable that       *)
(* counts the executions once registrations still entitle a function to.    *)
(***************************************************************************)
EXTENDS EventEmitter

CONSTANTS
    Bulks,      \* arguments of the bulk operations: sequences of listeners
    MaxCredit   \* bound on credit, hence on calls of addOnceListener

ASSUME BulksAssumption == Bulks \subseteq Seq(Listeners)

\* credit[e][f]: addOnceListener calls for f on e, less the executions of a
\* once entry for f in the turn of e.
VARIABLE credit

bulkVars == <<vars, credit>>

BulkInit ==
    /\ Init
    /\ credit = [e \in Events |-> [f \in Listeners |-> 0]]

---------------------------------------------------------------------------
(* manipulateListeners: the elements of the argument, last one first. *)

single(remove, array, f) == IF remove THEN Removed(array, f) ELSE Added(array, f)

\* Mutant of Manipulated: the first element first.
ManipulatedForward(remove, array, fs) ==
    LET after[n \in 0..Len(fs)] ==
            IF n = 0 THEN array ELSE single(remove, after[n - 1], fs[n])
    IN after[Len(fs)]

\* after[n] is the array when the last n elements have been passed to single.
Manipulated(remove, array, fs) ==
    LET after[n \in 0..Len(fs)] ==
            IF n = 0 THEN array ELSE single(remove, after[n - 1], fs[Len(fs) + 1 - n])
    IN after[Len(fs)]

\* manipulateListeners(remove, evt, listeners) with an array.  With an object
\* it is one such call, or one addListener, per property.  An empty array
\* calls nothing, so it does not define the event either.
manipulateListeners(remove, sel, fs) ==
    /\ ScriptRuns
    /\ fs # <<>>
    /\ defined' = Touched(sel)
    /\ listeners' = [e \in Events |->
                        IF e \notin getListenersAsObject(sel) THEN listeners[e]
                        ELSE Manipulated(remove, listeners[e], fs)]
    /\ \A e \in Events : Len(listeners'[e]) <= MaxListeners
    /\ stack' = [i \in DOMAIN stack |-> Settled(stack[i], listeners')]
    /\ UNCHANGED <<onceReturn, credit>>

addListeners(sel, fs) == manipulateListeners(FALSE, sel, fs)

removeListeners(sel, fs) == manipulateListeners(TRUE, sel, fs)

---------------------------------------------------------------------------
(* The steps of EventEmitter with their effect on credit. *)

AddOnceCounted(sel, f) ==
    /\ addOnceListener(sel, f)
    /\ credit' = [e \in Events |->
                    IF e \in getListenersAsObject(sel)
                    THEN [credit[e] EXCEPT ![f] = @ + 1] ELSE credit[e]]
    /\ \A e \in Events : credit'[e][f] <= MaxCredit

CallCounted ==
    /\ CallListener
    /\ LET fr == Last(stack)
       IN credit' = IF Last(fr.snap).once
                    THEN [credit EXCEPT ![fr.key][Last(fr.snap).listener] = @ - 1]
                    ELSE credit

Uncounted ==
    /\ \/ \E sel \in Selector, f \in Listeners :
             addListener(sel, f) \/ removeListener(sel, f)
       \/ \E sel \in Selector : removeEvent(sel.keys) \/ emitEvent(sel)
       \/ \E e \in Events : defineEvent(e) \/ NextKey(e)
       \/ removeEvent(Events)
       \/ \E v \in Values : setOnceReturnValue(v)
       \/ EmitReturns
       \/ ListenerEnds
    /\ UNCHANGED credit

BulkNext ==
    \/ Uncounted
    \/ \E sel \in Selector, f \in Listeners : AddOnceCounted(sel, f)
    \/ CallCounted
    \/ \E sel \in Selector, fs \in Bulks :
          addListeners(sel, fs) \/ removeListeners(sel, fs)

BulkSpec == BulkInit /\ [][BulkNext]_bulkVars

\* Fairness of EventEmitter for the steps as they are here.
BulkFairness ==
    /\ WF_bulkVars(CallCounted \/ (UNCHANGED credit /\ LoopStep /\ Last(stack).snap = <<>>))
    /\ WF_bulkVars(ListenerEnds /\ UNCHANGED credit)

BulkFairSpec == BulkSpec /\ BulkFairness

---------------------------------------------------------------------------
(* Properties *)

OnceEntries(array, f) ==
    {i \in DOMAIN array : array[i].once /\ array[i].listener = f}

\* Lines 153-154 of init_EventEmitter.js: once "will add a listener that will
\* be automatically removed after its first execution".  A function is executed
\* by once entries at most as often as it was registered with once.
OnceRunsOnce == \A e \in Events, f \in Listeners : credit[e][f] >= 0

\* While emissions do not nest, no array, attached or already copied, holds
\* more once entries for a function than executions are left to it, although
\* an execution removes the last such entry and not the one it executes.
OnceEntriesCovered ==
    \A e \in Events, f \in Listeners :
        /\ Cardinality(OnceEntries(listeners[e], f)) <= credit[e][f]
        /\ \A i \in DOMAIN stack :
              /\ Cardinality(OnceEntries(stack[i].old[e], f)) <= credit[e][f]
              /\ e = stack[i].key =>
                    Cardinality(OnceEntries(stack[i].snap, f)) <= credit[e][f]

Fresh(array, fs) == \A i \in DOMAIN fs : ~Attached(array, fs[i])

\* After addListeners, the listeners it added are executed in the order of its
\* argument: it appends them in reverse, and emitEvent runs from the end, which is
\* what Reverse stands for here.  (Listeners added one by one are executed in the
\* reverse order of addition.)
BulkRunsInOrder ==
    \A e \in Events : \A fs \in Bulks :
        IsInjective(fs) /\ Fresh(listeners[e], fs) =>
            LET run == Reverse(Manipulated(FALSE, listeners[e], fs))
            IN [i \in DOMAIN fs |-> run[i].listener] = fs
===========================================================================
