----------------------------- MODULE JSClass -----------------------------
(***************************************************************************)
(* JSClass (src/NekoScript/JSClass.h): the life of the native object behind *)
(* a script object, from the constructor to the finalizer the engine runs.   *)
(* The script object holds the address of its native object in a hidden      *)
(* property; a method finds it there, the finalizer deletes it.              *)
(*                                                                          *)
(* The garbage collector is the engine's.  What it promises is modelled:     *)
(* an object no running code can reach is finalized, in any order, even when *)
(* it is part of a cycle; a finalizer written in the script may use and      *)
(* rescue what it reaches, finalized objects included; a rescued object is   *)
(* finalized again; duk_destroy_heap finalizes everything that is left.      *)
(***************************************************************************)
EXTENDS Naturals

CONSTANTS
    Objects,   \* script objects
    Hooks,     \* TRUE: plain objects have a finalizer written in the script
    Derive,    \* TRUE: the script calls Object.create on its objects
    None

ASSUME ConstantsAssumption ==
    /\ {Hooks, Derive} \subseteq BOOLEAN
    /\ None \notin Objects \cup {"wrapper", "plain", "derived"}

VARIABLES
    kind,     \* None before the object exists, then wrapper, plain or derived
    base,     \* the end of the prototype chain: itself, unless it is derived
    ptr,      \* own hidden property: the native object, named by its creator
    native,   \* the native object created for the script object
    refs,     \* properties that refer to other objects
    roots,    \* objects referred to by globals and by running functions
    heap,     \* alive, queued for its finalizer, finalized, or freed
    running,  \* objects whose script finalizer runs
    phase     \* running, destroying, exited; assert or dangling ends it too

vars == <<kind, base, ptr, native, refs, roots, heap, running, phase>>

Init ==
    /\ kind = [o \in Objects |-> None]
    /\ base = [o \in Objects |-> o]
    /\ ptr = [o \in Objects |-> None]
    /\ native = [o \in Objects |-> "none"]
    /\ refs = [o \in Objects |-> {}]
    /\ roots = {}
    /\ heap = [o \in Objects |-> "alive"]
    /\ running = {}
    /\ phase = "running"

---------------------------------------------------------------------------
(* Reachability, and what is found through the prototype chain *)

Exists(o) == kind[o] # None /\ heap[o] # "freed"

\* A derived object refers to its prototype.
Edges(o) == refs[o] \cup ({base[o]} \ {o})

Closed(set) == \A o \in set : Edges(o) \subseteq set

\* Everything that every closed set around from has in common.
Reach(from) ==
    {o \in Objects : \A set \in SUBSET Objects :
                        from \subseteq set /\ Closed(set) => o \in set}

\* What running code can get at.
Used == roots \cup running

HasFinalizer(o) == kind[base[o]] = "wrapper" \/ (kind[base[o]] = "plain" /\ Hooks)

\* duk_get_prop_string of the hidden property.
Found(o) == ptr[base[o]]

\* _ASSERTE(self), and what follows it uses *self.
Using(o) == IF Found(o) = None THEN "assert"
            ELSE IF native[Found(o)] = "deleted" THEN "dangling" ELSE phase

---------------------------------------------------------------------------
(* The script, or a finalizer of the script *)

ScriptRuns == phase = "running" \/ (phase = "destroying" /\ running # {})

Held(o) == o \in Reach(Used)

\* Mutant of Construct: duk_set_finalizer is missing.
ConstructWithoutFinalizer(o) ==
    /\ ScriptRuns
    /\ kind[o] = None
    /\ kind' = [kind EXCEPT ![o] = "plain"]
    /\ native' = [native EXCEPT ![o] = "live"]
    /\ ptr' = [ptr EXCEPT ![o] = o]
    /\ roots' = roots \cup {o}
    /\ UNCHANGED <<base, refs, heap, running, phase>>

\* constructor: tryConstruct, the finalizer, the hidden property.  When
\* tryConstruct throws there is neither, and the object is a plain one.
Construct(o) ==
    /\ ScriptRuns
    /\ kind[o] = None
    /\ kind' = [kind EXCEPT ![o] = "wrapper"]
    /\ native' = [native EXCEPT ![o] = "live"]
    /\ ptr' = [ptr EXCEPT ![o] = o]
    /\ roots' = roots \cup {o}
    /\ UNCHANGED <<base, refs, heap, running, phase>>

NewPlain(o) ==
    /\ ScriptRuns
    /\ kind[o] = None
    /\ kind' = [kind EXCEPT ![o] = "plain"]
    /\ roots' = roots \cup {o}
    /\ UNCHANGED <<base, ptr, native, refs, heap, running, phase>>

\* Object.create(p)
NewDerived(o, p) ==
    /\ ScriptRuns /\ Derive
    /\ kind[o] = None /\ Held(p) /\ base[p] = p
    /\ kind' = [kind EXCEPT ![o] = "derived"]
    /\ base' = [base EXCEPT ![o] = p]
    /\ roots' = roots \cup {o}
    /\ UNCHANGED <<ptr, native, refs, heap, running, phase>>

\* The properties of o are set or deleted.  References of an object to itself
\* are left out; cycles of several objects are not.
Assign(o, to) ==
    /\ ScriptRuns
    /\ Held(o) /\ to \subseteq Reach(Used) \ {o}
    /\ refs' = [refs EXCEPT ![o] = to]
    /\ UNCHANGED <<kind, base, ptr, native, roots, heap, running, phase>>

SetRoots(to) ==
    /\ ScriptRuns
    /\ to \subseteq Reach(Used)
    /\ roots' = to
    /\ UNCHANGED <<kind, base, ptr, native, refs, heap, running, phase>>

\* instanceMethodWrapper: any object can be the this value of a method.
CallMethod(o) ==
    /\ ScriptRuns
    /\ Held(o)
    /\ phase' = Using(o)
    /\ UNCHANGED <<kind, base, ptr, native, refs, roots, heap, running>>

---------------------------------------------------------------------------
(* The garbage collector *)

Unreached(o) == Exists(o) /\ heap[o] = "alive" /\ ~Held(o)

\* Mark and sweep.  Every unreachable object with a finalizer is queued, and
\* keeps what it refers to.  An object whose finalizer has run is freed, or
\* was rescued and will be finalized again.
Queue == {o \in Objects : Unreached(o) /\ HasFinalizer(o)}

Kept == Reach(Used \cup Queue \cup {o \in Objects : heap[o] = "queued"})

Collected ==
    [o \in Objects |->
        IF ~Exists(o) \/ heap[o] = "queued" \/ o \in running THEN heap[o]
        ELSE IF o \in Queue THEN "queued"
        ELSE IF o \in Kept THEN "alive" ELSE "freed"]

Collect ==
    /\ phase = "running"
    /\ heap' = Collected
    /\ UNCHANGED <<kind, base, ptr, native, refs, roots, running, phase>>

\* The last reference to o is gone.
ReferenceLost(o) ==
    /\ phase = "running"
    /\ Unreached(o) /\ HasFinalizer(o)
    /\ \A p \in Objects \ {o} : Exists(p) => o \notin Edges(p)
    /\ heap' = [heap EXCEPT ![o] = "queued"]
    /\ UNCHANGED <<kind, base, ptr, native, refs, roots, running, phase>>

\* Queued objects, reachable again or not, and in duk_destroy_heap all others.
Finalizable(o) ==
    \/ phase = "running" /\ heap[o] = "queued"
    \/ phase = "destroying" /\ heap[o] = "alive" /\ kind[o] # None /\ HasFinalizer(o)

\* Mutant of Finalize: the hidden property is not deleted.
FinalizeKeepingPointer(o) ==
    /\ Finalizable(o) /\ kind[base[o]] = "wrapper"
    /\ heap' = [heap EXCEPT ![o] = "finalized"]
    /\ native' = IF Found(o) = None THEN native
                 ELSE [native EXCEPT ![Found(o)] = "deleted"]
    /\ phase' = Using(o)
    /\ UNCHANGED <<kind, base, ptr, refs, roots, running>>

\* JSClass::finalizer, run for o.  Only an own property of o can be deleted.  Without an
\* address a debug build stops at _ASSERTE; to any other there is nothing to delete.
Finalize(o) ==
    /\ Finalizable(o) /\ kind[base[o]] = "wrapper"
    /\ heap' = [heap EXCEPT ![o] = "finalized"]
    /\ ptr' = [ptr EXCEPT ![o] = None]
    /\ native' = IF Found(o) = None THEN native
                 ELSE [native EXCEPT ![Found(o)] = "deleted"]
    /\ phase' \in {Using(o)} \cup (IF Found(o) = None THEN {phase} ELSE {})
    /\ UNCHANGED <<kind, base, refs, roots, running>>

StartHook(o) ==
    /\ Finalizable(o) /\ kind[base[o]] = "plain"
    /\ heap' = [heap EXCEPT ![o] = "finalized"]
    /\ running' = running \cup {o}
    /\ UNCHANGED <<kind, base, ptr, native, refs, roots, phase>>

\* When it was run for a lost reference, a new one rescues the object at once.
EndHook(o) ==
    /\ phase \in {"running", "destroying"}
    /\ o \in running
    /\ running' = running \ {o}
    /\ heap' \in {heap} \cup
          (IF phase = "running" /\ \E p \in Objects : o \in roots \cup refs[p]
           THEN {[heap EXCEPT ![o] = "alive"]} ELSE {})
    /\ UNCHANGED <<kind, base, ptr, native, refs, roots, phase>>

---------------------------------------------------------------------------
(* The end of AppMain *)

\* Mutant of DestroyHeap: AppMain returns without it.
ReturnAtOnce ==
    /\ phase = "running" /\ running = {}
    /\ phase' = "exited"
    /\ UNCHANGED <<kind, base, ptr, native, refs, roots, heap, running>>

\* The script has returned; duk_destroy_heap collects a last time.
DestroyHeap ==
    /\ phase = "running" /\ running = {}
    /\ \A o \in Objects : heap[o] # "queued"
    /\ heap' = [o \in Objects |-> IF Collected[o] = "queued" THEN "alive" ELSE Collected[o]]
    /\ phase' = "destroying"
    /\ UNCHANGED <<kind, base, ptr, native, refs, roots, running>>

\* No finalizer is left to run.
Exit ==
    /\ phase = "destroying" /\ running = {}
    /\ \A o \in Objects : ~Finalizable(o)
    /\ phase' = "exited"
    /\ UNCHANGED <<kind, base, ptr, native, refs, roots, heap, running>>

Ended == phase \in {"exited", "assert", "dangling"} /\ UNCHANGED vars

---------------------------------------------------------------------------

ScriptStep ==
    \/ \E o \in Objects : Construct(o) \/ NewPlain(o) \/ CallMethod(o)
    \/ \E o, p \in Objects : NewDerived(o, p)
    \/ \E to \in SUBSET Objects : SetRoots(to) \/ \E o \in Objects : Assign(o, to)

Finalizer == \E o \in Objects : Finalize(o) \/ StartHook(o) \/ EndHook(o)

Next ==
    \/ ScriptStep \/ Finalizer \/ Collect \/ \E o \in Objects : ReferenceLost(o)
    \/ DestroyHeap \/ Exit \/ Ended

Spec == Init /\ [][Next]_vars

---------------------------------------------------------------------------
(* Properties *)

\* Only objects a constructor returned have had a native object.
TypeOK ==
    /\ kind \in [Objects -> {None, "wrapper", "plain", "derived"}]
    /\ base \in [Objects -> Objects]
    /\ ptr \in [Objects -> Objects \cup {None}]
    /\ native \in [Objects -> {"none", "live", "deleted"}]
    /\ \A o \in Objects : native[o] # "none" <=> kind[o] = "wrapper"
    /\ refs \in [Objects -> SUBSET Objects]
    /\ roots \subseteq Objects
    /\ heap \in [Objects -> {"alive", "queued", "finalized", "freed"}]
    /\ running \subseteq Objects
    /\ phase \in {"running", "destroying", "exited", "assert", "dangling"}

\* A native object is never used or deleted after it was deleted, although a
\* script finalizer may keep an object whose finalizer has run, call its
\* methods, and drop it again: the finalizer takes the address back.  It takes
\* it back from the object it is run for, which is of no use when that object
\* inherits finalizer and address from another one.
NothingDangles ==
    (\A o \in Objects : kind[o] # "derived") =>
        /\ phase # "dangling"
        /\ \A o \in Objects : Exists(o) /\ Found(o) # None => native[Found(o)] = "live"

\* An object that is freed has given its native object back, and none is left
\* when AppMain returns after duk_destroy_heap.
NothingLeaks ==
    \A o \in Objects :
        native[o] = "live" => heap[o] # "freed" /\ phase # "exited"
===========================================================================
