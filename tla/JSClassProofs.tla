--------------------------- MODULE JSClassProofs ---------------------------
(***************************************************************************)
(* Proofs about JSClass: any number of objects, with and without finalizers *)
(* of the script and inherited objects.                                    *)
(***************************************************************************)
EXTENDS JSClass, TLAPS

---------------------------------------------------------------------------
(* Reachability *)

\* What is reachable holds where it starts from, is closed under reference, and
\* is the least such set.
LEMMA ReachFacts ==
    ASSUME TypeOK, NEW from \in SUBSET Objects
    PROVE  /\ from \subseteq Reach(from) /\ Reach(from) \subseteq Objects
           /\ Closed(Reach(from))
           /\ \A set \in SUBSET Objects :
                 from \subseteq set /\ Closed(set) => Reach(from) \subseteq set
<1>1. ASSUME NEW o \in Reach(from), NEW p \in Edges(o) PROVE p \in Reach(from)
  <2>1. o \in Objects
    BY DEF Reach
  <2>2. p \in Objects
    BY <2>1 DEF TypeOK, Edges
  <2>3. ASSUME NEW set \in SUBSET Objects, from \subseteq set, Closed(set)
        PROVE  p \in set
    <3>1. o \in set
      BY <2>3 DEF Reach
    <3> QED
      BY <2>3, <3>1 DEF Closed
  <2> QED
    BY <2>2, <2>3 DEF Reach
<1>2. Closed(Reach(from))
  BY <1>1 DEF Closed
<1> QED
  BY <1>2 DEF Reach

\* More to start from reaches more.
LEMMA ReachGrows ==
    ASSUME TypeOK, NEW less \in SUBSET Objects, NEW more \in SUBSET Objects,
           less \subseteq more
    PROVE  Reach(less) \subseteq Reach(more)
<1>1. more \subseteq Reach(more) /\ Reach(more) \in SUBSET Objects /\ Closed(Reach(more))
  BY ReachFacts
<1>2. less \subseteq Reach(more)
  BY <1>1
<1> QED
  BY <1>1, <1>2, ReachFacts

---------------------------------------------------------------------------
(* The inductive invariant *)

\* What no constructor and no Object.create made is untouched; only derived
\* objects have a prototype with a finalizer; an address is an object's own.
Shape ==
    \A o \in Objects :
        /\ kind[o] = None => heap[o] = "alive" /\ refs[o] = {}
        /\ kind[o] # "derived" => base[o] = o
        /\ ptr[o] \in {None, o}
        /\ o \in running => heap[o] = "finalized" \/ heap[o] = "queued"

\* References of objects that exist, of globals and of running code lead to
\* objects that exist.
NoneMissing ==
    /\ \A o \in Objects : Exists(o) => \A p \in Edges(o) : Exists(p)
    /\ \A o \in Used : Exists(o)

\* A native object that was not deleted belongs to an object whose finalizer is
\* still to run and will find it.
LiveHasOwner ==
    \A o \in Objects :
        native[o] = "live" => heap[o] \in {"alive", "queued"} /\ ptr[o] = o

\* Without inheritance an address leads to a native object that was not deleted.
AddressIsLive ==
    (\A o \in Objects : kind[o] # "derived") =>
        /\ phase # "dangling"
        /\ \A o \in Objects : ptr[o] # None => native[o] = "live"

\* duk_destroy_heap leaves no finalizer queued, and Exit none to run.
QueueEmpty ==
    /\ phase \in {"destroying", "exited"} => \A o \in Objects : heap[o] # "queued"
    /\ phase = "exited" => \A o \in Objects : native[o] # "live"

IInv ==
    /\ TypeOK /\ Shape /\ NoneMissing /\ LiveHasOwner /\ AddressIsLive /\ QueueEmpty

\* What the script can get at has not been freed.
NothingHeldFreed == \A o \in Objects : Held(o) => Exists(o)

LEMMA HeldExist == ASSUME TypeOK, NoneMissing PROVE NothingHeldFreed
<1> DEFINE E == {o \in Objects : Exists(o)}
<1>1. Used \in SUBSET Objects /\ Used \subseteq E
  BY DEF TypeOK, NoneMissing, Used
<1>2. Closed(E)
  BY DEF NoneMissing, Closed, Edges, TypeOK
<1>3. Reach(Used) \subseteq E
  BY <1>1, <1>2, ReachFacts
<1> QED
  BY <1>3 DEF NothingHeldFreed, Held

LEMMA InitIInv == Init => IInv
<1> SUFFICES ASSUME Init PROVE IInv
  OBVIOUS
<1>1. TypeOK
  BY ConstantsAssumption DEF Init, TypeOK
<1>2. Shape /\ LiveHasOwner /\ AddressIsLive /\ QueueEmpty
  BY DEF Init, Shape, LiveHasOwner, AddressIsLive, QueueEmpty
<1>3. NoneMissing
  BY DEF Init, NoneMissing, Exists, Used
<1> QED
  BY <1>1, <1>2, <1>3 DEF IInv

---------------------------------------------------------------------------
(* Steps of the script *)

\* A new object with nothing in it.
LEMMA ConstructStep ==
    ASSUME IInv, NEW o \in Objects, Construct(o) \/ NewPlain(o)
    PROVE  IInv'
<1> USE DEF IInv
<1>1. kind[o] = None /\ heap[o] = "alive" /\ refs[o] = {} /\ base[o] = o /\ ScriptRuns
  BY ConstantsAssumption DEF Construct, NewPlain, Shape
<1>2. PICK k \in {"wrapper", "plain"} :
         /\ kind' = [kind EXCEPT ![o] = k]
         /\ roots' = roots \cup {o}
         /\ UNCHANGED <<base, refs, heap, running, phase>>
         /\ k = "wrapper" => /\ ptr' = [ptr EXCEPT ![o] = o]
                             /\ native' = [native EXCEPT ![o] = "live"]
         /\ k = "plain" => UNCHANGED <<ptr, native>>
  BY DEF Construct, NewPlain
<1>3. TypeOK'
  <2>1. native[o] = "none"
    BY <1>1, ConstantsAssumption DEF TypeOK
  <2> QED
    BY <1>2, <2>1 DEF TypeOK
<1>4. Shape'
  BY <1>1, <1>2 DEF TypeOK, Shape
<1>5. NoneMissing'
  <2>1. \A p \in Objects : Exists(p) => Exists(p)'
    BY <1>1, <1>2 DEF TypeOK, Exists
  <2>2. Exists(o)'
    <3>1. k # None
      BY ConstantsAssumption
    <3> QED
      BY <1>1, <1>2, <3>1 DEF TypeOK, Exists
  <2>3. \A p \in Objects : Edges(p)' = Edges(p)
    BY <1>2 DEF Edges
  <2>4. Edges(o) = {}
    BY <1>1 DEF Edges
  <2>5. ASSUME NEW p \in Objects, Exists(p)', NEW q \in Edges(p) PROVE Exists(q)'
    <3>1. p # o /\ Exists(p) /\ q \in Objects
      BY <1>2, <2>4, <2>5 DEF TypeOK, Exists, Edges
    <3> QED
      BY <2>1, <2>5, <3>1 DEF NoneMissing
  <2>6. ASSUME NEW p \in Used' PROVE Exists(p)'
    BY <1>2, <2>1, <2>2 DEF NoneMissing, Used, TypeOK
  <2> QED
    BY <2>3, <2>5, <2>6 DEF NoneMissing
<1>6. LiveHasOwner'
  BY <1>1, <1>2 DEF TypeOK, LiveHasOwner
<1>7. AddressIsLive'
  BY <1>1, <1>2, ConstantsAssumption DEF TypeOK, AddressIsLive
<1>8. QueueEmpty'
  BY <1>1, <1>2 DEF TypeOK, QueueEmpty, ScriptRuns
<1> QED
  BY <1>3, <1>4, <1>5, <1>6, <1>7, <1>8

\* Object.create: the new object refers to its prototype and owns nothing.
LEMMA NewDerivedStep ==
    ASSUME IInv, NEW o \in Objects, NEW p \in Objects, NewDerived(o, p)
    PROVE  IInv'
<1> USE DEF IInv
<1>1. /\ kind[o] = None /\ heap[o] = "alive" /\ refs[o] = {} /\ Exists(p)
      /\ kind' = [kind EXCEPT ![o] = "derived"]
      /\ base' = [base EXCEPT ![o] = p]
      /\ roots' = roots \cup {o}
      /\ UNCHANGED <<ptr, native, refs, heap, running, phase>>
  BY HeldExist DEF NewDerived, Shape, NothingHeldFreed
<1>2. TypeOK'
  BY <1>1, ConstantsAssumption DEF TypeOK
<1>3. Shape'
  BY <1>1 DEF TypeOK, Shape
<1>4. NoneMissing'
  <2>1. /\ Exists(o)' /\ \A q \in Objects : Exists(q) => Exists(q)'
        /\ \A q \in Objects : Exists(q)' => q = o \/ Exists(q)
    BY <1>1, ConstantsAssumption DEF TypeOK, Exists
  <2>2. Edges(o)' \subseteq {p} /\ \A q \in Objects \ {o} : Edges(q)' = Edges(q)
    BY <1>1 DEF TypeOK, Edges
  <2>3. ASSUME NEW q \in Objects, Exists(q)', NEW r \in Edges(q)' PROVE Exists(r)'
    <3>1. CASE q = o
      BY <1>1, <2>1, <2>2, <2>3, <3>1
    <3>2. CASE q # o
      <4>1. Exists(r) /\ r \in Objects
        BY <2>1, <2>2, <2>3, <3>2 DEF NoneMissing, TypeOK, Edges
      <4> QED
        BY <2>1, <4>1
    <3> QED
      BY <3>1, <3>2
  <2>4. ASSUME NEW q \in Used' PROVE Exists(q)'
    BY <1>1, <2>1 DEF NoneMissing, Used, TypeOK
  <2> QED
    BY <2>3, <2>4 DEF NoneMissing
<1>5. LiveHasOwner'
  BY <1>1 DEF LiveHasOwner
<1>6. AddressIsLive'
  BY <1>1 DEF TypeOK, AddressIsLive
<1>7. QueueEmpty'
  BY <1>1 DEF QueueEmpty
<1> QED
  BY <1>2, <1>3, <1>4, <1>5, <1>6, <1>7

\* Properties and variables are given what the script can get at already.
LEMMA AssignStep ==
    ASSUME IInv, NEW to \in SUBSET Objects,
           SetRoots(to) \/ \E o \in Objects : Assign(o, to)
    PROVE  IInv'
<1> USE DEF IInv
<1>1. UNCHANGED <<kind, base, ptr, native, heap, running, phase>>
  BY DEF Assign, SetRoots
<1>2. \A q \in to : Exists(q)
  BY HeldExist DEF Assign, SetRoots, NothingHeldFreed, Held
<1>3. \/ /\ roots' = roots
         /\ \E o \in Objects : refs' = [refs EXCEPT ![o] = to] /\ Exists(o)
      \/ roots' = to /\ refs' = refs
  BY HeldExist DEF Assign, SetRoots, NothingHeldFreed
<1>4. TypeOK'
  BY <1>1, <1>3 DEF TypeOK
<1>5. Shape'
  BY <1>1, <1>3 DEF TypeOK, Shape, Exists
<1>6. NoneMissing'
  <2>1. \A q : Exists(q)' = Exists(q)
    BY <1>1 DEF Exists
  <2>2. ASSUME NEW q \in Objects, Exists(q), NEW r \in Edges(q)' PROVE Exists(r)
    <3>1. r \in Edges(q) \/ r \in to
      BY <1>1, <1>3, <2>2 DEF TypeOK, Edges
    <3> QED
      BY <1>2, <2>2, <3>1 DEF NoneMissing
  <2>3. \A q \in Used' : Exists(q)
    BY <1>1, <1>2, <1>3 DEF NoneMissing, Used
  <2> QED
    BY <2>1, <2>2, <2>3 DEF NoneMissing
<1>7. LiveHasOwner' /\ AddressIsLive' /\ QueueEmpty'
  BY <1>1 DEF LiveHasOwner, AddressIsLive, QueueEmpty
<1> QED
  BY <1>4, <1>5, <1>6, <1>7

\* Without inheritance a method or a finalizer finds no deleted native object.
LEMMA UsingOwn ==
    ASSUME IInv, NEW o \in Objects
    PROVE  /\ Using(o) \in {"assert", "dangling", phase}
           /\ (\A q \in Objects : kind[q] # "derived") =>
                 Using(o) \in {"assert", phase}
<1>1. (\A q \in Objects : kind[q] # "derived") =>
         (ptr[base[o]] # None => native[ptr[base[o]]] = "live")
  BY DEF IInv, Shape, AddressIsLive
<1> QED
  BY <1>1 DEF Using, Found

LEMMA CallMethodStep ==
    ASSUME IInv, NEW o \in Objects, CallMethod(o)
    PROVE  IInv'
<1> USE DEF IInv
<1>1. /\ phase \in {"running", "destroying"}
      /\ phase' \in {"assert", "dangling", phase}
      /\ (\A q \in Objects : kind[q] # "derived") => phase' \in {"assert", phase}
      /\ UNCHANGED <<kind, base, ptr, native, refs, roots, heap, running>>
  BY UsingOwn DEF CallMethod, ScriptRuns
<1>2. TypeOK'
  BY <1>1 DEF TypeOK
<1>3. Shape' /\ LiveHasOwner'
  BY <1>1 DEF Shape, LiveHasOwner
<1>4. NoneMissing'
  BY <1>1 DEF NoneMissing, Exists, Edges, Used
<1>5. AddressIsLive' /\ QueueEmpty'
  BY <1>1 DEF AddressIsLive, QueueEmpty
<1> QED
  BY <1>2, <1>3, <1>4, <1>5

---------------------------------------------------------------------------
(* Finalizers *)

\* The finalizer of the class deletes the native object and takes its address back.
LEMMA FinalizeStep ==
    ASSUME IInv, NEW o \in Objects, Finalize(o)
    PROVE  IInv'
<1> USE DEF IInv
<1>1. /\ phase \in {"running", "destroying"} /\ kind[base[o]] = "wrapper"
      /\ heap[o] \in {"alive", "queued"}
      /\ heap' = [heap EXCEPT ![o] = "finalized"]
      /\ ptr' = [ptr EXCEPT ![o] = None]
      /\ UNCHANGED <<kind, base, refs, roots, running>>
  BY DEF Finalize, Finalizable
<1>2. \/ native' = native /\ Found(o) = None
      \/ native' = [native EXCEPT ![base[o]] = "deleted"] /\ Found(o) = base[o]
  BY DEF Finalize, Found, Shape, TypeOK
<1>3. /\ phase' \in {"assert", "dangling", phase}
      /\ (\A q \in Objects : kind[q] # "derived") => phase' \in {"assert", phase}
  BY UsingOwn DEF Finalize
<1>4. kind[o] # None
  BY <1>1, ConstantsAssumption DEF Shape
<1>5. TypeOK'
  <2>1. base[o] \in Objects /\ native[base[o]] # "none"
    BY <1>1 DEF TypeOK
  <2>2. native' \in [Objects -> {"none", "live", "deleted"}]
    BY <1>2 DEF TypeOK
  <2>3. \A q \in Objects : native'[q] = "none" <=> native[q] = "none"
    BY <1>2, <2>1 DEF TypeOK
  <2>4. \A q \in Objects : native'[q] # "none" <=> kind'[q] = "wrapper"
    BY <1>1, <2>3 DEF TypeOK
  <2> QED
    BY <1>1, <1>3, <2>2, <2>4 DEF TypeOK
<1>6. Shape'
  BY <1>1, <1>4 DEF TypeOK, Shape
<1>7. NoneMissing'
  <2>1. \A q \in Objects : Exists(q)' = Exists(q) /\ Edges(q)' = Edges(q)
    BY <1>1, <1>4 DEF TypeOK, Exists, Edges
  <2>2. \A q \in Objects : Edges(q) \subseteq Objects
    BY DEF TypeOK, Edges
  <2>3. Used' = Used /\ Used \subseteq Objects
    BY <1>1 DEF TypeOK, Used
  <2> QED
    BY <2>1, <2>2, <2>3 DEF NoneMissing
<1>8. LiveHasOwner'
  <2>0. SUFFICES ASSUME NEW q \in Objects, native'[q] = "live"
                PROVE  heap'[q] \in {"alive", "queued"} /\ ptr'[q] = q
    BY DEF LiveHasOwner
  <2>1. native[q] = "live" /\ (Found(o) = base[o] => q # base[o])
    BY <1>2, <2>0, ConstantsAssumption DEF TypeOK
  <2>2. kind[q] = "wrapper" /\ base[q] = q /\ ptr[q] = q
    BY <2>1 DEF TypeOK, Shape, LiveHasOwner
  <2>3. q # o
    BY <1>2, <2>1, <2>2, ConstantsAssumption DEF Found
  <2> QED
    BY <1>1, <2>1, <2>3 DEF TypeOK, LiveHasOwner
<1>9. AddressIsLive'
  <2> SUFFICES ASSUME \A q \in Objects : kind[q] # "derived", NEW q \in Objects,
                      ptr'[q] # None
               PROVE  native'[q] = "live"
    BY <1>1, <1>3 DEF AddressIsLive
  <2>1. q # o /\ ptr[q] # None
    BY <1>1 DEF TypeOK
  <2>2. base[o] = o
    BY DEF Shape
  <2> QED
    BY <1>2, <2>1, <2>2 DEF AddressIsLive, TypeOK
<1>10. QueueEmpty'
  BY <1>1, <1>3 DEF TypeOK, QueueEmpty
<1> QED
  BY <1>5, <1>6, <1>7, <1>8, <1>9, <1>10

\* A finalizer of the script begins: it runs for no native object.
LEMMA StartHookStep ==
    ASSUME IInv, NEW o \in Objects, StartHook(o)
    PROVE  IInv'
<1> USE DEF IInv
<1>1. /\ phase \in {"running", "destroying"} /\ kind[base[o]] = "plain"
      /\ heap[o] \in {"alive", "queued"}
      /\ heap' = [heap EXCEPT ![o] = "finalized"]
      /\ running' = running \cup {o}
      /\ UNCHANGED <<kind, base, ptr, native, refs, roots, phase>>
  BY DEF StartHook, Finalizable
<1>2. kind[o] # None /\ native[o] # "live"
  BY <1>1, ConstantsAssumption DEF TypeOK, Shape
<1>3. TypeOK'
  BY <1>1 DEF TypeOK
<1>4. Shape'
  BY <1>1, <1>2 DEF TypeOK, Shape
<1>5. NoneMissing'
  <2>1. \A q \in Objects : Exists(q)' = Exists(q) /\ Edges(q)' = Edges(q)
    BY <1>1, <1>2 DEF TypeOK, Exists, Edges
  <2>2. \A q \in Objects : Edges(q) \subseteq Objects
    BY DEF TypeOK, Edges
  <2>3. Exists(o) /\ Used' = Used \cup {o} /\ Used \subseteq Objects
    BY <1>1, <1>2 DEF TypeOK, Used, Exists
  <2> QED
    BY <2>1, <2>2, <2>3 DEF NoneMissing
<1>6. LiveHasOwner'
  BY <1>1, <1>2 DEF TypeOK, LiveHasOwner
<1>7. AddressIsLive' /\ QueueEmpty'
  BY <1>1 DEF TypeOK, AddressIsLive, QueueEmpty
<1> QED
  BY <1>3, <1>4, <1>5, <1>6, <1>7

\* And ends; the object may be rescued.
LEMMA EndHookStep ==
    ASSUME IInv, NEW o \in Objects, EndHook(o)
    PROVE  IInv'
<1> USE DEF IInv
<1>1. /\ o \in running /\ running' = running \ {o}
      /\ \/ heap' = heap
         \/ phase = "running" /\ heap' = [heap EXCEPT ![o] = "alive"]
      /\ UNCHANGED <<kind, base, ptr, native, refs, roots, phase>>
  BY DEF EndHook
<1>2. heap[o] # "alive" /\ kind[o] # None
  BY <1>1 DEF Shape
<1>3. TypeOK'
  BY <1>1 DEF TypeOK
<1>4. Shape'
  BY <1>1, <1>2 DEF TypeOK, Shape
<1>5. NoneMissing'
  <2>1. Exists(o) /\ \A q \in Objects : Exists(q)' = Exists(q) /\ Edges(q)' = Edges(q)
    BY <1>1, <1>2 DEF TypeOK, Exists, Edges, NoneMissing, Used
  <2>2. \A q \in Objects : Edges(q) \subseteq Objects
    BY DEF TypeOK, Edges
  <2>3. Used' \subseteq Used /\ Used \subseteq Objects
    BY <1>1 DEF TypeOK, Used
  <2> QED
    BY <2>1, <2>2, <2>3 DEF NoneMissing
<1>6. LiveHasOwner'
  BY <1>1 DEF TypeOK, LiveHasOwner
<1>7. AddressIsLive' /\ QueueEmpty'
  BY <1>1 DEF TypeOK, AddressIsLive, QueueEmpty
<1> QED
  BY <1>3, <1>4, <1>5, <1>6, <1>7

---------------------------------------------------------------------------
(* The garbage collector *)

\* A collection frees what is not kept, no more and no less; it keeps objects
\* whose finalizer is still to run.
LEMMA CollectedFacts ==
    ASSUME IInv, NEW o \in Objects
    PROVE  /\ Collected[o] \in {heap[o], "alive", "queued", "freed"}
           /\ ~Exists(o) \/ o \in running => Collected[o] = heap[o]
           /\ Exists(o) => (Collected[o] # "freed" <=> o \in Kept)
           /\ native[o] = "live" => Collected[o] \in {"alive", "queued"}
<1> DEFINE Start == Used \cup Queue \cup {q \in Objects : heap[q] = "queued"}
<1> USE DEF IInv
<1>1. Used \in SUBSET Objects /\ Start \in SUBSET Objects
  BY DEF TypeOK, Used, Queue
<1>2. Start \subseteq Kept /\ Reach(Used) \subseteq Kept
  BY <1>1, ReachFacts, ReachGrows DEF Kept
<1>3. Collected[o] = IF ~Exists(o) \/ heap[o] = "queued" \/ o \in running THEN heap[o]
                     ELSE IF o \in Queue THEN "queued"
                     ELSE IF o \in Kept THEN "alive" ELSE "freed"
  BY DEF Collected
<1>4. Exists(o) => (Collected[o] # "freed" <=> o \in Kept)
  BY <1>2, <1>3 DEF Exists, Used
<1>5. ASSUME native[o] = "live" PROVE Collected[o] \in {"alive", "queued"}
  <2>1. /\ kind[o] = "wrapper" /\ base[o] = o /\ heap[o] \in {"alive", "queued"}
        /\ Exists(o) /\ HasFinalizer(o)
    BY <1>5, ConstantsAssumption DEF TypeOK, Shape, LiveHasOwner, Exists, HasFinalizer
  <2>2. CASE Held(o)
    BY <1>2, <1>3, <2>1, <2>2 DEF Held
  <2>3. CASE ~Held(o)
    <3>1. heap[o] = "queued" \/ o \in Queue
      BY <2>1, <2>3 DEF Queue, Unreached
    <3> QED
      BY <1>3, <2>1, <3>1
  <2> QED
    BY <2>2, <2>3
<1> QED
  BY <1>3, <1>4, <1>5

\* A collection keeps the invariant, also the last one, after which what was
\* queued is finalized with everything else.
LEMMA CollectedKeeps ==
    ASSUME IInv, UNCHANGED <<kind, base, ptr, native, refs, roots, running>>,
           \/ heap' = Collected
           \/ /\ heap' = [o \in Objects |-> IF Collected[o] = "queued" THEN "alive"
                                            ELSE Collected[o]]
              /\ running = {}
           , phase = "running" /\ phase' \in {"running", "destroying"}
    PROVE  TypeOK' /\ Shape' /\ NoneMissing' /\ LiveHasOwner' /\ AddressIsLive'
<1> USE DEF IInv
<1>1. \A o \in Objects : heap'[o] = Collected[o] \/ (Collected[o] = "queued" /\ heap'[o] = "alive")
  OBVIOUS
<1>2. TypeOK'
  <2>1. \A o \in Objects : heap'[o] \in {"alive", "queued", "finalized", "freed"}
    BY <1>1, CollectedFacts DEF TypeOK
  <2>2. heap' = [o \in Objects |-> heap'[o]]
    BY DEF Collected
  <2>3. heap' \in [Objects -> {"alive", "queued", "finalized", "freed"}]
    BY <2>1, <2>2
  <2> QED
    BY <2>3 DEF TypeOK
<1>3. Shape'
  <2> SUFFICES ASSUME NEW o \in Objects
               PROVE  /\ kind[o] = None => heap'[o] = "alive"
                      /\ o \in running => heap'[o] = "finalized" \/ heap'[o] = "queued"
    BY DEF Shape
  <2>1. ~Exists(o) \/ o \in running => Collected[o] = heap[o]
    BY CollectedFacts
  <2>2. kind[o] = None => heap'[o] = "alive"
    BY <1>1, <2>1 DEF Shape, Exists
  <2>3. o \in running => heap'[o] = "finalized" \/ heap'[o] = "queued"
    BY <2>1 DEF Shape
  <2> QED
    BY <2>2, <2>3
<1>4. NoneMissing'
  <2>1. \A o \in Objects : Exists(o) => (Exists(o)' <=> o \in Kept)
    <3> SUFFICES ASSUME NEW o \in Objects, Exists(o) PROVE Exists(o)' <=> o \in Kept
      OBVIOUS
    <3>1. Collected[o] # "freed" <=> o \in Kept
      BY CollectedFacts
    <3> QED
      BY <1>1, <3>1 DEF Exists
  <2>2. \A o \in Objects : Exists(o)' => Exists(o)
    <3> SUFFICES ASSUME NEW o \in Objects, ~Exists(o) PROVE ~Exists(o)'
      OBVIOUS
    <3>1. Collected[o] = heap[o]
      BY CollectedFacts
    <3> QED
      BY <1>1, <3>1 DEF Exists
  <2>3. Closed(Kept) /\ Used \subseteq Kept /\ Used \subseteq Objects
    BY ReachFacts DEF Kept, TypeOK, Used, Queue
  <2>4. \A o \in Objects : Edges(o)' = Edges(o) /\ Edges(o) \subseteq Objects
    BY DEF Edges, TypeOK
  <2>5. ASSUME NEW o \in Objects, Exists(o)', NEW p \in Edges(o) PROVE Exists(p)'
    <3>1. Exists(o) /\ o \in Kept
      BY <2>1, <2>2, <2>5
    <3>2. p \in Kept /\ Exists(p) /\ p \in Objects
      BY <2>3, <2>4, <2>5, <3>1 DEF Closed, NoneMissing
    <3> QED
      BY <2>1, <3>2
  <2>6. ASSUME NEW o \in Used PROVE Exists(o)'
    BY <2>1, <2>3 DEF NoneMissing
  <2>7. Used' = Used
    BY DEF Used
  <2> QED
    BY <2>4, <2>5, <2>6, <2>7 DEF NoneMissing
<1>5. LiveHasOwner'
  <2> SUFFICES ASSUME NEW o \in Objects, native[o] = "live"
               PROVE  heap'[o] \in {"alive", "queued"} /\ ptr[o] = o
    BY DEF LiveHasOwner
  <2>1. Collected[o] \in {"alive", "queued"}
    BY CollectedFacts
  <2> QED
    BY <1>1, <2>1 DEF LiveHasOwner
<1>6. AddressIsLive'
  BY DEF AddressIsLive
<1> QED
  BY <1>2, <1>3, <1>4, <1>5, <1>6

LEMMA CollectStep == IInv /\ Collect => IInv'
<1> SUFFICES ASSUME IInv, Collect PROVE IInv'
  OBVIOUS
<1>1. phase' = phase /\ phase = "running"
  BY DEF Collect
<1>2. TypeOK' /\ Shape' /\ NoneMissing' /\ LiveHasOwner' /\ AddressIsLive'
  BY CollectedKeeps DEF Collect
<1>3. QueueEmpty'
  BY <1>1 DEF QueueEmpty
<1> QED
  BY <1>2, <1>3 DEF IInv

LEMMA DestroyHeapStep == IInv /\ DestroyHeap => IInv'
<1> SUFFICES ASSUME IInv, DestroyHeap PROVE IInv'
  OBVIOUS
<1>1. TypeOK' /\ Shape' /\ NoneMissing' /\ LiveHasOwner' /\ AddressIsLive'
  BY CollectedKeeps DEF DestroyHeap
<1>2. QueueEmpty'
  BY DEF DestroyHeap, QueueEmpty
<1> QED
  BY <1>1, <1>2 DEF IInv

LEMMA ReferenceLostStep == ASSUME IInv, NEW o \in Objects, ReferenceLost(o) PROVE IInv'
<1> USE DEF IInv
<1>1. /\ phase = "running" /\ heap' = [heap EXCEPT ![o] = "queued"] /\ Exists(o)
      /\ UNCHANGED <<kind, base, ptr, native, refs, roots, running, phase>>
  BY DEF ReferenceLost, Unreached
<1>2. kind[o] # None
  BY <1>1 DEF Exists
<1>3. TypeOK'
  BY <1>1 DEF TypeOK
<1>4. Shape'
  BY <1>1, <1>2 DEF TypeOK, Shape
<1>5. NoneMissing'
  <2>1. \A q \in Objects : Exists(q)' = Exists(q) /\ Edges(q)' = Edges(q)
    BY <1>1 DEF TypeOK, Exists, Edges
  <2>2. \A q \in Objects : Edges(q) \subseteq Objects
    BY DEF TypeOK, Edges
  <2>3. Used' = Used /\ Used \subseteq Objects
    BY <1>1 DEF TypeOK, Used
  <2> QED
    BY <2>1, <2>2, <2>3 DEF NoneMissing
<1>6. LiveHasOwner'
  BY <1>1 DEF TypeOK, LiveHasOwner
<1>7. AddressIsLive' /\ QueueEmpty'
  BY <1>1 DEF AddressIsLive, QueueEmpty
<1> QED
  BY <1>3, <1>4, <1>5, <1>6, <1>7

\* When nothing is left to finalize, no native object is left.
LEMMA ExitStep == IInv /\ Exit => IInv'
<1> SUFFICES ASSUME IInv, Exit PROVE IInv'
  OBVIOUS
<1> USE DEF IInv
<1>1. /\ phase = "destroying" /\ phase' = "exited" /\ \A o \in Objects : ~Finalizable(o)
      /\ UNCHANGED <<kind, base, ptr, native, refs, roots, heap, running>>
  BY DEF Exit
<1>2. \A o \in Objects : native[o] # "live"
  <2> SUFFICES ASSUME NEW o \in Objects, native[o] = "live" PROVE FALSE
    OBVIOUS
  <2>1. kind[o] = "wrapper" /\ base[o] = o /\ heap[o] = "alive"
    BY <1>1 DEF TypeOK, Shape, LiveHasOwner, QueueEmpty
  <2> QED
    BY <1>1, <2>1, ConstantsAssumption DEF Finalizable, HasFinalizer
<1>3. TypeOK' /\ Shape' /\ LiveHasOwner' /\ AddressIsLive'
  BY <1>1 DEF TypeOK, Shape, LiveHasOwner, AddressIsLive
<1>4. NoneMissing'
  BY <1>1 DEF NoneMissing, Exists, Edges, Used
<1>5. QueueEmpty'
  BY <1>1, <1>2 DEF QueueEmpty
<1> QED
  BY <1>3, <1>4, <1>5

---------------------------------------------------------------------------
(* Theorems *)

LEMMA IInvStep == IInv /\ [Next]_vars => IInv'
<1> SUFFICES ASSUME IInv, [Next]_vars PROVE IInv'
  OBVIOUS
<1>1. CASE ScriptStep
  BY <1>1, ConstructStep, NewDerivedStep, AssignStep, CallMethodStep DEF ScriptStep
<1>2. CASE Finalizer
  BY <1>2, FinalizeStep, StartHookStep, EndHookStep DEF Finalizer
<1>3. CASE Collect \/ DestroyHeap \/ Exit \/ \E o \in Objects : ReferenceLost(o)
  BY <1>3, CollectStep, DestroyHeapStep, ExitStep, ReferenceLostStep
<1>4. CASE Ended \/ UNCHANGED vars
  <2>1. UNCHANGED vars
    BY <1>4 DEF Ended
  <2>2. TypeOK' /\ Shape' /\ LiveHasOwner' /\ AddressIsLive' /\ QueueEmpty'
    BY <2>1 DEF vars, IInv, TypeOK, Shape, LiveHasOwner, AddressIsLive, QueueEmpty
  <2>3. NoneMissing'
    BY <2>1 DEF vars, IInv, NoneMissing, Exists, Edges, Used
  <2> QED
    BY <2>2, <2>3 DEF IInv
<1> QED
  BY <1>1, <1>2, <1>3, <1>4 DEF Next

LEMMA InvariantHolds == Spec => []IInv
  BY InitIInv, IInvStep, PTL DEF Spec

\* Objects, addresses and finalizers keep their types, and only what a
\* constructor returned has a native object, however many objects there are.
THEOREM TypeCorrect == Spec => []TypeOK
<1>1. IInv => TypeOK
  BY DEF IInv
<1> QED
  BY <1>1, InvariantHolds, PTL

\* The collector frees nothing that the script, or a finalizer of the script,
\* can get at, rescued objects and finalized ones included.
THEOREM NothingHeldIsFreed == Spec => []NothingHeldFreed
<1>1. IInv => NothingHeldFreed
  BY HeldExist DEF IInv
<1> QED
  BY <1>1, InvariantHolds, PTL

\* Unless objects inherit from native ones, no native object is used or deleted
\* after it was deleted, whatever finalizers of the script rescue and call.
THEOREM NoneDangles == Spec => []NothingDangles
<1>1. IInv => NothingDangles
  <2> SUFFICES ASSUME IInv, \A o \in Objects : kind[o] # "derived"
               PROVE  /\ phase # "dangling"
                      /\ \A o \in Objects : Found(o) # None => native[Found(o)] = "live"
    BY DEF NothingDangles
  <2>1. \A o \in Objects : Found(o) = ptr[o] /\ ptr[o] \in {None, o}
    BY DEF IInv, Shape, Found
  <2> QED
    BY <2>1 DEF IInv, AddressIsLive
<1> QED
  BY <1>1, InvariantHolds, PTL

\* Inheritance or not, an object is freed only after its native object was
\* deleted, and none is left when AppMain returns.
THEOREM NoneLeaks == Spec => []NothingLeaks
<1>1. IInv => NothingLeaks
  BY DEF IInv, LiveHasOwner, QueueEmpty, NothingLeaks
<1> QED
  BY <1>1, InvariantHolds, PTL
===========================================================================
