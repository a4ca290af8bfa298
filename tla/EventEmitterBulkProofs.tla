---------------------- MODULE EventEmitterBulkProofs ----------------------
(***************************************************************************)
(* Proofs about EventEmitterBulk: bulk operations with arguments and arrays  *)
(* of any length, and once registrations while emissions do not nest.       *)
(***************************************************************************)
EXTENDS EventEmitterBulk, EventEmitterProofs, FiniteSetTheorems

---------------------------------------------------------------------------
(* Induction and recursion over the indices of an argument *)

\* A set with 0 and the successor of each of its members below n has 0..n.
LEMMA UpToInduction ==
    ASSUME NEW n \in Nat, NEW S, 0 \in S,
           \A k \in 0..n : k \in S /\ k < n => k + 1 \in S
    PROVE  0..n \subseteq S
<1> DEFINE T == (0..n) \ S
<1> SUFFICES ASSUME T # {} PROVE FALSE
  OBVIOUS
<1>1. T \subseteq Nat
  OBVIOUS
<1>2. PICK t \in T : \A u \in T : ~(<<u, t>> \in OpToRel(<, Nat))
  <2> HIDE DEF T
  <2> QED
    BY <1>1, NatLessThanWellFounded, WFMin
<1>3. t \in Nat /\ t # 0 /\ t <= n
  OBVIOUS
<1>4. t - 1 \in 0..n /\ t - 1 < n /\ (t - 1) + 1 = t
  BY <1>3
<1>5. t - 1 \notin T
  <2>1. t - 1 < t /\ t - 1 \in Nat
    BY <1>3
  <2> QED
    BY <1>2, <1>3, <2>1 DEF OpToRel
<1> QED
  BY <1>4, <1>5

\* What manipulateListeners computes: one call of single after the other.
LEMMA Manipulation ==
    ASSUME NEW remove \in BOOLEAN, NEW array, NEW fs \in Seq(Listeners)
    PROVE  \E after : /\ after[0] = array
                      /\ \A n \in 1..Len(fs) :
                            after[n] = single(remove, after[n - 1], fs[Len(fs) + 1 - n])
                      /\ Manipulated(remove, array, fs) = after[Len(fs)]
<1> DEFINE N == Len(fs)
           Rec(g, k) == [n \in 0..k |-> IF n = 0 THEN array
                                        ELSE single(remove, g[n - 1], fs[N + 1 - n])]
           S == {k \in 0..N : \E g : g = Rec(g, k)}
           after == CHOOSE g : g = Rec(g, N)
<1>1. N \in Nat
  OBVIOUS
<1>2. 0 \in S
  <2> DEFINE g == [n \in 0..0 |-> array]
  <2>1. g = Rec(g, 0)
    OBVIOUS
  <2>2. 0 \in 0..N
    BY <1>1
  <2> HIDE DEF g
  <2>3. \E h : h = Rec(h, 0)
    BY <2>1
  <2> QED
    BY <2>2, <2>3
<1>3. ASSUME NEW k \in 0..N, k \in S, k < N PROVE k + 1 \in S
  <2>1. PICK g : g = Rec(g, k)
    BY <1>3
  <2> DEFINE h == [n \in 0..(k + 1) |-> IF n = k + 1
                                        THEN single(remove, g[k], fs[N + 1 - n])
                                        ELSE g[n]]
  <2> HIDE DEF N
  <2>2. ASSUME NEW n \in 0..(k + 1)
        PROVE  h[n] = IF n = 0 THEN array ELSE single(remove, h[n - 1], fs[N + 1 - n])
    <3>1. CASE n = k + 1
      <4>1. h[n] = single(remove, g[k], fs[N + 1 - n]) /\ h[k] = g[k] /\ n - 1 = k /\ n # 0
        BY <3>1
      <4> QED
        BY <4>1
    <3>2. CASE n # k + 1
      <4>1. n \in 0..k /\ h[n] = g[n]
        BY <3>2
      <4>2. g[n] = IF n = 0 THEN array ELSE single(remove, g[n - 1], fs[N + 1 - n])
        BY <2>1, <4>1
      <4>3. n # 0 => h[n - 1] = g[n - 1]
        BY <4>1
      <4> QED
        BY <4>1, <4>2, <4>3
    <3> QED
      BY <3>1, <3>2
  <2>3. h = Rec(h, k + 1)
    BY <2>2
  <2> HIDE DEF h
  <2>4. k + 1 \in 0..N
    BY <1>1, <1>3
  <2> QED
    BY <2>3, <2>4
<1>4. N \in S
  <2> HIDE DEF S, N
  <2>1. \A k \in 0..N : k \in S /\ k < N => k + 1 \in S
    BY <1>3
  <2>2. 0..N \subseteq S
    BY <1>1, <1>2, <2>1, UpToInduction
  <2> QED
    BY <1>1, <2>2
<1>5. after = Rec(after, N)
  BY <1>4
<1>6. Manipulated(remove, array, fs) = after[N]
  BY DEF Manipulated
<1> HIDE DEF after, N
<1>7. after[0] = array /\ \A n \in 1..N : after[n] = single(remove, after[n - 1], fs[N + 1 - n])
  BY <1>1, <1>5
<1> QED
  BY <1>6, <1>7 DEF N

---------------------------------------------------------------------------
(* Counting the once entries of an array *)

Count(array, f) == Cardinality(OnceEntries(array, f))

LEMMA Counted ==
    ASSUME NEW s \in Seq(Entry), NEW f
    PROVE  IsFiniteSet(OnceEntries(s, f)) /\ Count(s, f) \in Nat
<1>1. Len(s) \in Nat /\ OnceEntries(s, f) \in SUBSET (1..Len(s))
  BY DEF OnceEntries
<1>2. IsFiniteSet(1..Len(s))
  BY <1>1, FS_Interval
<1> QED
  BY <1>1, <1>2, FS_Subset, FS_CardinalityType DEF Count

LEMMA CountEmpty == \A f : Count(<<>>, f) = 0
  BY FS_EmptySet DEF Count, OnceEntries

\* Removing takes no entry into an array, and if the function has once entries
\* takes one of them out: the last entry for it, which is a once entry.
LEMMA CountRemoved ==
    ASSUME NEW s \in Seq(Entry), NEW f, NEW g
    PROVE  /\ Count(Removed(s, f), g) <= Count(s, g)
           /\ OnceFollow(s) /\ Count(s, f) > 0 => Count(Removed(s, f), f) <= Count(s, f) - 1
<1> DEFINE k == indexOfListener(s, f)
<1>0. Count(s, f) \in Nat /\ Count(s, g) \in Nat /\ IsFiniteSet(OnceEntries(s, f))
  BY Counted
<1>1. CASE k = 0
  <2>1. Removed(s, f) = s /\ ~Attached(s, f)
    BY <1>1, IndexOfListener DEF Removed
  <2>2. OnceEntries(s, f) = {}
    BY <2>1 DEF OnceEntries, Attached
  <2>3. Count(s, f) = 0
    BY <2>2, FS_EmptySet DEF Count
  <2> QED
    BY <1>0, <2>1, <2>3
<1>2. CASE k # 0
  <2>1. /\ k \in 1..Len(s) /\ s[k].listener = f
        /\ \A j \in 1..Len(s) : s[j].listener = f => j <= k
    BY <1>2, IndexOfListener
  <2>2. Removed(s, f) = RemoveAt(s, k)
    BY <1>2 DEF Removed
  <2> HIDE DEF k
  <2> DEFINE r == RemoveAt(s, k)
             from(j) == IF j < k THEN j ELSE j + 1
  <2>3. /\ r \in Seq(Entry)
        /\ DOMAIN r = 1..(Len(s) - 1)
        /\ \A j \in DOMAIN r : r[j] = s[from(j)]
    <3>1. /\ r \in Seq(Entry)
          /\ Len(r) = Len(s) - 1
          /\ \A j \in 1..(Len(s) - 1) : r[j] = IF j < k THEN s[j] ELSE s[j + 1]
      BY <2>1, RemoveAtShape
    <3> QED
      BY <3>1
  <2> HIDE DEF r
  <2>4. ASSUME NEW h PROVE Count(r, h) <= Cardinality(OnceEntries(s, h) \ {k})
    <3> DEFINE S == OnceEntries(r, h)
               T == OnceEntries(s, h) \ {k}
               map == [j \in S |-> from(j)]
    <3>1. \A j \in S : from(j) \in T
      BY <2>1, <2>3 DEF OnceEntries
    <3>2. \A i, j \in S : from(i) = from(j) => i = j
      BY <2>1, <2>3 DEF OnceEntries
    <3>3. map \in Injection(S, T)
      BY <3>1, <3>2 DEF Injection, IsInjective
    <3>4. IsFiniteSet(T)
      BY Counted, FS_RemoveElement
    <3> HIDE DEF map, S, T
    <3>5. Cardinality(S) <= Cardinality(T)
      BY <3>3, <3>4, FS_Injection
    <3> QED
      BY <3>5 DEF S, T, Count
  <2>5. Count(r, g) <= Count(s, g)
    <3>0. /\ IsFiniteSet(OnceEntries(s, g))
          /\ Cardinality(OnceEntries(s, g) \ {k}) =
                IF k \in OnceEntries(s, g) THEN Count(s, g) - 1 ELSE Count(s, g)
      BY Counted, FS_RemoveElement DEF Count
    <3>1. Cardinality(OnceEntries(s, g) \ {k}) <= Count(s, g)
      BY <1>0, <3>0
    <3>2. Cardinality(OnceEntries(s, g) \ {k}) \in Nat /\ Count(r, g) \in Nat
      BY <2>3, Counted, FS_RemoveElement, FS_CardinalityType
    <3> QED
      BY <1>0, <2>4, <3>1, <3>2
  <2>6. ASSUME OnceFollow(s), Count(s, f) > 0 PROVE Count(r, f) <= Count(s, f) - 1
    <3>1. OnceEntries(s, f) # {}
      BY <1>0, <2>6, FS_EmptySet DEF Count
    <3>2. PICK i \in DOMAIN s : s[i].once /\ s[i].listener = f
      BY <3>1 DEF OnceEntries
    <3>3. i <= k /\ k \in DOMAIN s /\ i \in 1..Len(s)
      BY <2>1, <3>2
    <3>4. i = k \/ i < k
      BY <3>3
    <3>5. s[k].once
      BY <2>1, <2>6, <3>2, <3>3, <3>4 DEF OnceFollow
    <3>6. k \in OnceEntries(s, f)
      BY <2>1, <3>3, <3>5 DEF OnceEntries
    <3>7. Cardinality(OnceEntries(s, f) \ {k}) = Count(s, f) - 1
      BY <1>0, <3>6, FS_RemoveElement DEF Count
    <3> QED
      BY <2>4, <3>7
  <2> QED
    BY <2>2, <2>5, <2>6 DEF r
<1> QED
  BY <1>1, <1>2

\* An appended entry counts for its function if it is a once entry.
LEMMA CountAppended ==
    ASSUME NEW s \in Seq(Entry), NEW x \in Entry, NEW g
    PROVE  Count(Append(s, x), g) =
              IF x.once /\ x.listener = g THEN Count(s, g) + 1 ELSE Count(s, g)
<1> DEFINE r == Append(s, x)
           n == Len(s) + 1
<1>1. /\ DOMAIN s = 1..Len(s) /\ Len(s) \in Nat
      /\ DOMAIN r = 1..n /\ r[n] = x
      /\ \A i \in 1..Len(s) : r[i] = s[i]
  BY AppendProperties, LenProperties
<1>2. n \notin OnceEntries(s, g)
  BY <1>1 DEF OnceEntries
<1> HIDE DEF r
<1>3. CASE x.once /\ x.listener = g
  <2>1. OnceEntries(r, g) = OnceEntries(s, g) \cup {n}
    BY <1>1, <1>3 DEF OnceEntries
  <2>2. IsFiniteSet(OnceEntries(s, g))
    BY Counted
  <2>3. Cardinality(OnceEntries(s, g) \cup {n}) = Count(s, g) + 1
    BY <1>2, <2>2, FS_AddElement DEF Count
  <2> QED
    BY <1>3, <2>1, <2>3 DEF Count, r
<1>4. CASE ~(x.once /\ x.listener = g)
  <2>1. OnceEntries(r, g) = OnceEntries(s, g)
    BY <1>1, <1>4 DEF OnceEntries
  <2> QED
    BY <1>4, <2>1 DEF Count, r
<1> QED
  BY <1>3, <1>4

LEMMA CountAdded ==
    ASSUME NEW s \in Seq(Entry), NEW f \in Listeners, NEW g
    PROVE  Count(Added(s, f), g) = Count(s, g)
<1>1. [listener |-> f, once |-> FALSE] \in Entry
  BY DEF Entry
<1>2. Count(Append(s, [listener |-> f, once |-> FALSE]), g) = Count(s, g)
  BY <1>1, CountAppended
<1> QED
  BY <1>2 DEF Added

LEMMA CountAddedOnce ==
    ASSUME NEW s \in Seq(Entry), NEW f \in Listeners, NEW g
    PROVE  Count(AddedOnce(s, f), g) = IF g = f THEN Count(s, g) + 1 ELSE Count(s, g)
<1>1. [listener |-> f, once |-> TRUE] \in Entry
  BY DEF Entry
<1> QED
  BY <1>1, CountAppended DEF AddedOnce

\* Executing the last entry of a copy takes it out of the copy.
LEMMA CountFront ==
    ASSUME NEW s \in Seq(Entry), s # <<>>, NEW g
    PROVE  /\ Front(s) \in Seq(Entry) /\ Last(s) \in Entry
           /\ Count(Front(s), g) =
                 IF Last(s).once /\ Last(s).listener = g THEN Count(s, g) - 1 ELSE Count(s, g)
<1>1. Len(s) \in Nat /\ Len(s) # 0 /\ DOMAIN s = 1..Len(s)
  BY EmptySeq, LenProperties
<1>2. Last(s) \in Entry
  BY <1>1, ElementOfSeq DEF Last
<1>3. /\ Front(s) \in Seq(Entry)
      /\ Len(Front(s)) = Len(s) - 1
      /\ \A i \in 1..(Len(s) - 1) : Front(s)[i] = s[i]
  <2>1. Front(s) = [i \in 1..(Len(s) - 1) |-> s[i]]
    BY <1>1 DEF Front
  <2>2. \A i \in 1..(Len(s) - 1) : s[i] \in Entry
    BY <1>1, ElementOfSeq
  <2>3. Len(s) - 1 \in Nat
    BY <1>1
  <2> HIDE DEF Entry
  <2> QED
    BY <2>1, <2>2, <2>3
<1>4. Append(Front(s), Last(s)) = s
  <2> DEFINE a == Append(Front(s), Last(s))
  <2>0. /\ a \in Seq(Entry) /\ Len(a) = Len(Front(s)) + 1
        /\ a[Len(Front(s)) + 1] = Last(s)
        /\ \A i \in 1..Len(Front(s)) : a[i] = Front(s)[i]
    BY <1>2, <1>3, AppendProperties
  <2> HIDE DEF a
  <2>1. a \in Seq(Entry) /\ Len(a) = Len(s) /\ a[Len(s)] = Last(s)
        /\ \A i \in 1..(Len(s) - 1) : a[i] = s[i]
    BY <1>1, <1>3, <2>0
  <2>2. \A i \in 1..Len(s) : a[i] = s[i]
    BY <1>1, <2>1 DEF Last
  <2>3. a = s
    BY <1>1, <2>1, <2>2, SeqEqual
  <2> QED
    BY <2>3 DEF a
<1>5. Count(s, g) = IF Last(s).once /\ Last(s).listener = g
                    THEN Count(Front(s), g) + 1 ELSE Count(Front(s), g)
  <2>1. Count(Append(Front(s), Last(s)), g) =
           IF Last(s).once /\ Last(s).listener = g
           THEN Count(Front(s), g) + 1 ELSE Count(Front(s), g)
    BY <1>2, <1>3, CountAppended
  <2> QED
    BY <1>4, <2>1
<1>6. Count(Front(s), g) \in Nat
  BY <1>3, Counted
<1> QED
  BY <1>2, <1>3, <1>5, <1>6

---------------------------------------------------------------------------
(* Bulk operations *)

\* What one call of addListener or removeListener keeps, a bulk operation keeps.
LEMMA ManipulatedArray ==
    ASSUME NEW remove \in BOOLEAN, NEW array \in Seq(Entry), NEW fs \in Seq(Listeners)
    PROVE  /\ Manipulated(remove, array, fs) \in Seq(Entry)
           /\ OnceFollow(array) => OnceFollow(Manipulated(remove, array, fs))
           /\ \A f : Count(Manipulated(remove, array, fs), f) <= Count(array, f)
<1> DEFINE N == Len(fs)
           Kept(a) == /\ a \in Seq(Entry)
                      /\ OnceFollow(array) => OnceFollow(a)
                      /\ \A f : Count(a, f) <= Count(array, f)
<1>1. PICK after : /\ after[0] = array
                   /\ \A n \in 1..N : after[n] = single(remove, after[n - 1], fs[N + 1 - n])
                   /\ Manipulated(remove, array, fs) = after[N]
  BY Manipulation
<1> DEFINE S == {n \in 0..N : Kept(after[n])}
<1>2. N \in Nat /\ \A n \in 1..N : fs[N + 1 - n] \in Listeners
  BY ElementOfSeq
<1>3. 0 \in S
  <2>1. \A f : Count(array, f) \in Nat
    BY Counted
  <2> QED
    BY <1>1, <1>2, <2>1
<1>4. ASSUME NEW n \in 0..N, n \in S, n < N PROVE n + 1 \in S
  <2> DEFINE a == after[n]
             f == fs[N - n]
  <2>1. Kept(a) /\ n + 1 \in 1..N
    BY <1>2, <1>4
  <2>2. after[n + 1] = single(remove, a, f) /\ f \in Listeners
    <3>1. (n + 1) - 1 = n /\ N + 1 - (n + 1) = N - n
      BY <1>2, <1>4
    <3>2. after[n + 1] = single(remove, after[(n + 1) - 1], fs[N + 1 - (n + 1)])
      BY <1>1, <2>1
    <3> QED
      BY <1>2, <2>1, <3>1, <3>2
  <2>3. single(remove, a, f) \in Seq(Entry)
    BY <2>1, <2>2, RemovedArray, AddedArray DEF single
  <2>4. OnceFollow(a) => OnceFollow(single(remove, a, f))
    BY <2>1, <2>2, RemovedArray, AddedArray DEF single
  <2>5. ASSUME NEW g PROVE Count(single(remove, a, f), g) <= Count(array, g)
    <3>1. Count(single(remove, a, f), g) <= Count(a, g)
      <4>1. Count(Removed(a, f), g) <= Count(a, g)
        BY <2>1, CountRemoved
      <4>2. Count(Added(a, f), g) = Count(a, g) /\ Count(a, g) \in Nat
        BY <2>1, <2>2, CountAdded, Counted
      <4> QED
        BY <4>1, <4>2 DEF single
    <3>2. Count(a, g) <= Count(array, g)
      BY <2>1
    <3>3. /\ Count(single(remove, a, f), g) \in Nat /\ Count(a, g) \in Nat
          /\ Count(array, g) \in Nat
      BY <2>1, <2>3, Counted
    <3> QED
      BY <3>1, <3>2, <3>3
  <2> HIDE DEF a, f
  <2>6. Kept(after[n + 1])
    BY <2>1, <2>2, <2>3, <2>4, <2>5
  <2> QED
    BY <2>1, <2>6
<1>5. N \in S
  <2> HIDE DEF S, N
  <2>1. \A n \in 0..N : n \in S /\ n < N => n + 1 \in S
    BY <1>4
  <2>2. 0..N \subseteq S
    BY <1>2, <1>3, <2>1, UpToInduction
  <2> QED
    BY <1>2, <2>2
<1> QED
  BY <1>1, <1>5

\* The invariant of the emitter survives bulk operations.
LEMMA ManipulateStep ==
    ASSUME IInv, NEW remove \in BOOLEAN, NEW sel \in Selector, NEW fs \in Seq(Listeners),
           manipulateListeners(remove, sel, fs)
    PROVE  IInv'
<1>1. TypeOK /\ PersistentOnce /\ FramesInv(stack, listeners)
  BY IInvFrames DEF IInv
<1>2. /\ defined' = Touched(sel) /\ onceReturn' = onceReturn
      /\ listeners' = [e \in Events |->
                          IF e \notin getListenersAsObject(sel) THEN listeners[e]
                          ELSE Manipulated(remove, listeners[e], fs)]
      /\ stack' = [i \in DOMAIN stack |-> Settled(stack[i], listeners')]
  BY DEF manipulateListeners
<1>3. /\ defined' \subseteq Events /\ defined \subseteq defined'
      /\ getListenersAsObject(sel) \subseteq Events \cap defined'
  BY <1>1, <1>2, SelectorKeys
<1>4. \A e \in Events :
        /\ listeners'[e] \in Seq(Entry)
        /\ OnceFollow(listeners'[e])
        /\ e \notin defined' => listeners'[e] = <<>>
  <2> SUFFICES ASSUME NEW e \in Events
               PROVE  /\ listeners'[e] \in Seq(Entry)
                      /\ OnceFollow(listeners'[e])
                      /\ e \notin defined' => listeners'[e] = <<>>
    OBVIOUS
  <2>1. /\ listeners[e] \in Seq(Entry) /\ OnceFollow(listeners[e])
        /\ e \notin defined => listeners[e] = <<>>
    BY <1>1 DEF TypeOK, PersistentOnce
  <2>2. CASE e \in getListenersAsObject(sel)
    <3>1. listeners'[e] = Manipulated(remove, listeners[e], fs) /\ e \in defined'
      BY <1>2, <1>3, <2>2
    <3> QED
      BY <2>1, <3>1, ManipulatedArray
  <2>3. CASE e \notin getListenersAsObject(sel)
    BY <1>2, <1>3, <2>1, <2>3
  <2> QED
    BY <2>2, <2>3
<1>5. listeners' \in [Events -> Seq(Entry)]
  BY <1>2, <1>4
<1>6. FramesInv(stack', listeners')
  <2>1. \A i \in DOMAIN stack : FrameInv(Settled(stack[i], listeners'), listeners')
    BY <1>1, SettledFrame DEF FramesInv
  <2>2. stack' \in [DOMAIN stack -> Frame] /\ stack \in Seq(Frame)
    BY <1>1, <1>2, <2>1 DEF FrameInv, FramesInv
  <2>3. stack' \in Seq(Frame) /\ DOMAIN stack' = DOMAIN stack
    BY <2>2, MappedSeq
  <2> QED
    BY <1>2, <2>1, <2>3 DEF FramesInv
<1>7. onceReturn' \in Values
  BY <1>1, <1>2 DEF TypeOK
<1> QED
  BY <1>3, <1>4, <1>5, <1>6, <1>7, StepInv

LEMMA BulkNextInv == IInv /\ [BulkNext]_bulkVars => IInv'
<1> SUFFICES ASSUME IInv, [BulkNext]_bulkVars PROVE IInv'
  OBVIOUS
<1>1. CASE Uncounted
  BY <1>1, NextInv DEF Uncounted, Next, ScriptStep, LoopStep
<1>2. CASE \E sel \in Selector, f \in Listeners : AddOnceCounted(sel, f)
  BY <1>2, NextInv DEF AddOnceCounted, Next, ScriptStep
<1>3. CASE CallCounted
  BY <1>3, NextInv DEF CallCounted, Next, LoopStep
<1>4. CASE \E sel \in Selector, fs \in Bulks : addListeners(sel, fs) \/ removeListeners(sel, fs)
  BY <1>4, ManipulateStep, BulksAssumption DEF addListeners, removeListeners
<1>5. CASE UNCHANGED bulkVars
  BY <1>5, NextInv DEF bulkVars
<1> QED
  BY <1>1, <1>2, <1>3, <1>4, <1>5 DEF BulkNext

LEMMA BulkInvariantHolds == BulkSpec => []IInv
<1>1. BulkInit => IInv
  BY InitInv DEF BulkInit
<1> QED
  BY <1>1, BulkNextInv, PTL DEF BulkSpec

\* Registered at most once, whatever arrays of listeners, with repetitions, are
\* added and removed in bulk.
THEOREM BulkRegistersOnce == BulkSpec => []PersistentOnce
  BY BulkInvariantHolds, PTL DEF IInv

\* An emission delivers although listeners add and remove others in bulk.
THEOREM BulkEmissionsDeliver == BulkSpec => []EmissionDelivers
<1>1. IInv => EmissionDelivers
  BY DeliversWhatIsQueued
<1> QED
  BY <1>1, BulkInvariantHolds, PTL

---------------------------------------------------------------------------
(* The order of a bulk operation *)

\* The steps of an addition.
LEMMA Additions ==
    ASSUME NEW array, NEW fs \in Seq(Listeners)
    PROVE  \E after : /\ after[0] = array
                      /\ \A n \in 1..Len(fs) :
                            after[n] = single(FALSE, after[n - 1], fs[Len(fs) + 1 - n])
                      /\ Manipulated(FALSE, array, fs) = after[Len(fs)]
<1> DEFINE Steps(remove) ==
              \E after : /\ after[0] = array
                         /\ \A n \in 1..Len(fs) :
                               after[n] = single(remove, after[n - 1], fs[Len(fs) + 1 - n])
                         /\ Manipulated(remove, array, fs) = after[Len(fs)]
<1>1. \A remove \in BOOLEAN : Steps(remove)
  BY Manipulation
<1>2. Steps(FALSE)
  <2> HIDE DEF Steps
  <2> QED
    BY <1>1
<1> QED
  BY <1>2

\* The places of the first n elements, counted from the end.
LEMMA Opposite ==
    ASSUME NEW N \in Nat, NEW n \in 0..N, n < N, NEW k \in 1..n
    PROVE  N + 1 - k \in 1..N /\ N + 1 - k # N - n
OBVIOUS

\* Listeners that are new and different are appended, the last one first.
LEMMA AddedInReverse ==
    ASSUME NEW array \in Seq(Entry), NEW fs \in Seq(Listeners),
           IsInjective(fs), Fresh(array, fs)
    PROVE  LET run == Manipulated(FALSE, array, fs)
           IN  /\ run \in Seq(Entry) /\ Len(run) = Len(array) + Len(fs)
               /\ \A i \in 1..Len(fs) :
                     run[Len(array) + i].listener = fs[Len(fs) + 1 - i]
<1> DEFINE N == Len(fs)
           L == Len(array)
           Grown(a, n) ==
               /\ a \in Seq(Entry) /\ Len(a) = L + n
               /\ \A i \in 1..L : a[i] = array[i]
               /\ \A i \in 1..n : a[L + i].listener = fs[N + 1 - i]
<1>1. PICK after : /\ after[0] = array
                   /\ \A n \in 1..N : after[n] = single(FALSE, after[n - 1], fs[N + 1 - n])
                   /\ Manipulated(FALSE, array, fs) = after[N]
  BY Additions
<1> DEFINE S == {n \in 0..N : Grown(after[n], n)}
<1>2. N \in Nat /\ L \in Nat /\ \A n \in 1..N : fs[n] \in Listeners
  BY ElementOfSeq
<1>3. 0 \in S
  BY <1>1, <1>2
<1>4. ASSUME NEW n \in 0..N, n \in S, n < N PROVE n + 1 \in S
  <2> DEFINE a == after[n]
             f == fs[N - n]
             x == [listener |-> f, once |-> FALSE]
  <2>1. Grown(a, n) /\ n \in Nat /\ n + 1 \in 1..N /\ N - n \in 1..N
    BY <1>2, <1>4
  <2>2. after[n + 1] = Added(a, f) /\ f \in Listeners
    <3>1. (n + 1) - 1 = n /\ N + 1 - (n + 1) = N - n
      BY <1>2, <1>4
    <3>2. after[n + 1] = single(FALSE, after[(n + 1) - 1], fs[N + 1 - (n + 1)])
      BY <1>1, <2>1
    <3> QED
      BY <1>2, <2>1, <3>1, <3>2 DEF single
  <2> HIDE DEF a
  <2>3. ~Attached(a, f)
    <3> SUFFICES ASSUME NEW i \in DOMAIN a, a[i].listener = f PROVE FALSE
      BY DEF Attached
    <3>1. i \in 1..(L + n)
      BY <2>1
    <3>2. CASE i \in 1..L
      <4>1. array[i].listener = fs[N - n] /\ i \in DOMAIN array /\ N - n \in DOMAIN fs
        BY <1>2, <2>1, <3>2
      <4> QED
        BY <4>1 DEF Fresh, Attached
    <3>3. CASE i \notin 1..L
      <4>1. i - L \in 1..n /\ i = L + (i - L)
        BY <1>2, <2>1, <3>1, <3>3
      <4>2. a[i].listener = fs[N + 1 - (i - L)]
        BY <2>1, <4>1
      <4>3. N + 1 - (i - L) \in 1..N /\ N + 1 - (i - L) # N - n
        BY <1>2, <1>4, <4>1, Opposite
      <4>4. DOMAIN fs = 1..N
        BY LenProperties
      <4> HIDE DEF N
      <4> QED
        BY <2>1, <4>2, <4>3, <4>4 DEF IsInjective
    <3> QED
      BY <3>2, <3>3
  <2>4. Added(a, f) = Append(a, x) /\ x \in Entry
    <3>1. indexOfListener(a, f) = 0
      BY <2>1, <2>3, IndexOfListener DEF Attached
    <3> QED
      BY <2>2, <3>1 DEF Added, Entry
  <2>5. /\ Append(a, x) \in Seq(Entry) /\ Len(Append(a, x)) = Len(a) + 1
        /\ Append(a, x)[Len(a) + 1] = x
        /\ \A i \in 1..Len(a) : Append(a, x)[i] = a[i]
    BY <2>1, <2>4, AppendProperties
  <2> DEFINE r == Append(a, x)
  <2> HIDE DEF r
  <2>6. r \in Seq(Entry) /\ Len(r) = L + (n + 1) /\ \A i \in 1..L : r[i] = array[i]
    BY <1>2, <2>1, <2>5 DEF r
  <2>7. ASSUME NEW i \in 1..(n + 1) PROVE r[L + i].listener = fs[N + 1 - i]
    <3>1. CASE i = n + 1
      <4>1. L + i = Len(a) + 1 /\ N + 1 - i = N - n
        BY <1>2, <2>1, <3>1
      <4>2. r[L + i] = x
        BY <2>5, <4>1 DEF r
      <4> QED
        BY <4>1, <4>2
    <3>2. CASE i # n + 1
      <4>1. i \in 1..n /\ L + i \in 1..Len(a)
        BY <1>2, <2>1, <3>2
      <4>2. r[L + i] = a[L + i]
        BY <2>5, <4>1 DEF r
      <4> QED
        BY <2>1, <4>1, <4>2
    <3> QED
      BY <3>1, <3>2
  <2>8. after[n + 1] = r
    BY <2>2, <2>4 DEF r
  <2> HIDE DEF x, f, L, N
  <2>9. Grown(after[n + 1], n + 1) /\ n + 1 \in 0..N
    BY <1>2, <2>1, <2>6, <2>7, <2>8
  <2> QED
    BY <2>9
<1>5. N \in S
  <2> HIDE DEF S, N
  <2>1. \A n \in 0..N : n \in S /\ n < N => n + 1 \in S
    BY <1>4
  <2>2. 0..N \subseteq S
    BY <1>2, <1>3, <2>1, UpToInduction
  <2> QED
    BY <1>2, <2>2
<1> QED
  BY <1>1, <1>5

\* However long the argument of addListeners and the array are, listeners that
\* are new to the event will be executed in the order of the argument.
THEOREM BulkOrderKept == BulkSpec => []BulkRunsInOrder
<1>1. IInv => BulkRunsInOrder
  <2> SUFFICES ASSUME IInv, NEW e \in Events, NEW fs \in Bulks,
                      IsInjective(fs), Fresh(listeners[e], fs)
               PROVE  LET run == Reverse(Manipulated(FALSE, listeners[e], fs))
                      IN [i \in DOMAIN fs |-> run[i].listener] = fs
    BY DEF BulkRunsInOrder
  <2> DEFINE a == Manipulated(FALSE, listeners[e], fs)
             L == Len(listeners[e])
             N == Len(fs)
  <2>1. fs \in Seq(Listeners) /\ listeners[e] \in Seq(Entry)
    BY BulksAssumption DEF IInv, TypeOK
  <2>2. /\ a \in Seq(Entry) /\ Len(a) = L + N
        /\ \A i \in 1..N : a[L + i].listener = fs[N + 1 - i]
    BY <2>1, AddedInReverse
  <2>3. L \in Nat /\ N \in Nat /\ DOMAIN fs = 1..N /\ fs = [i \in DOMAIN fs |-> fs[i]]
    BY <2>1
  <2> HIDE DEF a, L, N
  <2>4. ASSUME NEW i \in 1..N PROVE Reverse(a)[i].listener = fs[i]
    <3>1. /\ i \in 1..Len(a) /\ N + 1 - i \in 1..N
          /\ (Len(a) - i) + 1 = L + (N + 1 - i) /\ N + 1 - (N + 1 - i) = i
      BY <2>2, <2>3
    <3>2. Reverse(a)[i] = a[(Len(a) - i) + 1]
      BY <3>1 DEF Reverse
    <3>3. a[L + (N + 1 - i)].listener = fs[N + 1 - (N + 1 - i)]
      BY <2>2, <3>1
    <3> QED
      BY <3>1, <3>2, <3>3
  <2>5. [i \in DOMAIN fs |-> Reverse(a)[i].listener] = [i \in DOMAIN fs |-> fs[i]]
    BY <2>3, <2>4
  <2> QED
    BY <2>3, <2>5 DEF a
<1> QED
  BY <1>1, BulkInvariantHolds, PTL

---------------------------------------------------------------------------
(* Once registrations while emissions do not nest *)

\* Executions left cover the once entries of an array of the emitter.
ArraysCovered(arrays, cr) ==
    \A e \in Events, f \in Listeners : Count(arrays[e], f) <= cr[e][f]

\* And those of the arrays a call of emitEvent has detached or copied; the keys
\* the call visits are among those it selected.
FrameCovered(fr, cr) ==
    /\ \A e \in Events, f \in Listeners :
          /\ Count(fr.old[e], f) <= cr[e][f]
          /\ e = fr.key => Count(fr.snap, f) <= cr[e][f]
    /\ Pending(fr) \subseteq fr.sel.keys
    /\ fr.snap # <<>> => fr.key \in fr.sel.keys
    /\ fr.key # None => fr.old[fr.key] = <<>>

Credits == [Events -> [Listeners -> Int]]

CreditInv ==
    /\ credit \in Credits
    /\ Len(stack) <= MaxDepth
    /\ ArraysCovered(listeners, credit)
    /\ \A i \in DOMAIN stack : FrameCovered(stack[i], credit)

BulkInv == IInv /\ CreditInv

\* The arrays of a frame are arrays of entries.
LEMMA FrameArrays ==
    ASSUME NEW fr, NEW A, FrameInv(fr, A)
    PROVE  /\ fr.old \in [Events -> Seq(Entry)] /\ fr.snap \in Seq(Entry)
           /\ Pending(fr) \subseteq Events /\ fr.sel \in Selector
           /\ fr.key \in Events \cup {None} /\ fr.live \subseteq Events
  BY DEF FrameInv, Frame, Pending

\* Settling a frame changes neither its arrays nor its keys.
LEMMA SettledCovered ==
    ASSUME NEW fr, NEW A, FrameInv(fr, A), NEW B, NEW cr, FrameCovered(fr, cr)
    PROVE  FrameCovered(Settled(fr, B), cr)
<1>1. /\ Settled(fr, B).old = fr.old /\ Settled(fr, B).snap = fr.snap
      /\ Settled(fr, B).key = fr.key /\ Settled(fr, B).sel = fr.sel
      /\ Pending(Settled(fr, B)) = Pending(fr)
  BY DEF FrameInv, Frame, Settled, Pending
<1> QED
  BY <1>1 DEF FrameCovered

\* A removal covers the arrays as before, and all of them if the frames are.
LEMMA UnregisterCovered ==
    ASSUME IInv, NEW sel \in Selector, NEW f, NEW st, FramesInv(st, listeners),
           Unregister(sel, f, st), NEW cr \in Credits,
           \A i \in DOMAIN st : FrameCovered(st[i], cr)
    PROVE  /\ \A e \in Events, g \in Listeners :
                 /\ Count(listeners'[e], g) <= Count(listeners[e], g)
                 /\ Count(listeners'[e], g) \in Nat /\ Count(listeners[e], g) \in Nat
           /\ \A i \in DOMAIN stack' : FrameCovered(stack'[i], cr)
           /\ Len(stack') = Len(st)
<1>1. listeners \in [Events -> Seq(Entry)]
  BY DEF IInv, TypeOK
<1>2. ASSUME NEW e \in Events, NEW g \in Listeners
      PROVE  /\ Count(listeners'[e], g) <= Count(listeners[e], g)
             /\ Count(listeners'[e], g) \in Nat /\ Count(listeners[e], g) \in Nat
  <2>1. listeners[e] \in Seq(Entry)
    BY <1>1
  <2>2. \/ listeners'[e] = listeners[e]
        \/ listeners'[e] = Removed(listeners[e], f)
    BY DEF Unregister
  <2>3. Removed(listeners[e], f) \in Seq(Entry)
    BY <2>1, RemovedArray
  <2>4. Count(listeners[e], g) \in Nat /\ Count(Removed(listeners[e], f), g) \in Nat
    BY <2>1, <2>3, Counted
  <2>5. Count(Removed(listeners[e], f), g) <= Count(listeners[e], g)
    BY <2>1, CountRemoved
  <2> QED
    BY <2>2, <2>4, <2>5
<1>3. stack' = [i \in DOMAIN st |-> Settled(st[i], listeners')]
  BY DEF Unregister
<1>4. \A i \in DOMAIN st : FrameCovered(Settled(st[i], listeners'), cr)
  BY SettledCovered DEF FramesInv
<1>5. Len(stack') = Len(st)
  BY <1>3 DEF FramesInv
<1> QED
  BY <1>2, <1>3, <1>4, <1>5

\* Arrays that lose entries stay covered.
LEMMA FewerCovered ==
    ASSUME NEW A, NEW B, NEW cr \in Credits, ArraysCovered(A, cr),
           \A e \in Events, g \in Listeners :
              /\ Count(B[e], g) <= Count(A[e], g)
              /\ Count(B[e], g) \in Nat /\ Count(A[e], g) \in Nat
    PROVE  ArraysCovered(B, cr)
<1> SUFFICES ASSUME NEW e \in Events, NEW g \in Listeners PROVE Count(B[e], g) <= cr[e][g]
  BY DEF ArraysCovered
<1>1. cr[e][g] \in Int /\ Count(A[e], g) <= cr[e][g]
  BY DEF Credits, ArraysCovered
<1> QED
  BY <1>1

\* removeEvent leaves empty arrays, and hands full ones to the emissions.
LEMMA DetachedCovered ==
    ASSUME NEW fr, FrameInv(fr, listeners), NEW gone \in SUBSET Events, NEW cr \in Credits,
           FrameCovered(fr, cr), ArraysCovered(listeners, cr)
    PROVE  FrameCovered(Detached(fr, gone), cr)
<1> DEFINE d == Detached(fr, gone)
<1>1. /\ d.snap = fr.snap /\ d.key = fr.key /\ d.sel = fr.sel /\ Pending(d) = Pending(fr)
      /\ d.old = [e \in Events |-> IF e \in fr.live \cap gone THEN listeners[e] ELSE fr.old[e]]
  BY DEF FrameInv, Frame, Detached, Pending
<1> HIDE DEF d
<1>2. \A e \in Events : d.old[e] = listeners[e] \/ d.old[e] = fr.old[e]
  BY <1>1
<1>3. d.key # None => d.old[d.key] = <<>>
  BY <1>1, FrameArrays DEF FrameInv, FrameCovered
<1> QED
  BY <1>1, <1>2, <1>3 DEF FrameCovered, ArraysCovered, d

\* A new emission has copied nothing yet.
LEMMA NewFrameCovered ==
    ASSUME NEW sel \in Selector, NEW cr \in Credits, ArraysCovered(listeners, cr), TypeOK
    PROVE  FrameCovered(NewFrame(sel), cr)
<1>1. \A e \in Events, f \in Listeners : 0 <= cr[e][f]
  <2> SUFFICES ASSUME NEW e \in Events, NEW f \in Listeners PROVE 0 <= cr[e][f]
    OBVIOUS
  <2>1. Count(listeners[e], f) \in Nat
    BY Counted DEF TypeOK
  <2>2. Count(listeners[e], f) <= cr[e][f] /\ cr[e][f] \in Int
    BY DEF ArraysCovered, Credits
  <2> QED
    BY <2>1, <2>2
<1>2. /\ NewFrame(sel).old = [e \in Events |-> <<>>] /\ NewFrame(sel).snap = <<>>
      /\ NewFrame(sel).key = None /\ NewFrame(sel).sel = sel
      /\ Pending(NewFrame(sel)) \subseteq sel.keys
  BY DEF NewFrame, Pending, getListenersAsObject
<1> QED
  BY <1>1, <1>2, CountEmpty DEF FrameCovered

\* The next key is copied with executions left for all its once entries.
LEMMA NextKeyCovered ==
    ASSUME NEW fr, NEW e \in Pending(fr), FrameInv(fr, listeners), NEW cr \in Credits,
           FrameCovered(fr, cr), ArraysCovered(listeners, cr), TypeOK
    PROVE  FrameCovered([fr EXCEPT !.key = e, !.snap = Snapshot(fr, e),
                                   !.live = @ \ {e}, !.detached = @ \ {e},
                                   !.old[e] = <<>>], cr)
<1> DEFINE r == [fr EXCEPT !.key = e, !.snap = Snapshot(fr, e),
                           !.live = @ \ {e}, !.detached = @ \ {e},
                           !.old[e] = <<>>]
<1>1. e \in Events /\ fr.old \in [Events -> Seq(Entry)]
  BY FrameArrays
<1>2. /\ r.key = e /\ r.snap = Snapshot(fr, e) /\ r.sel = fr.sel
      /\ r.old = [fr.old EXCEPT ![e] = <<>>] /\ Pending(r) \subseteq Pending(fr)
  BY DEF FrameInv, Frame, Pending
<1> HIDE DEF r
<1>3. \A f \in Listeners : Count(<<>>, f) <= cr[e][f]
  <2> SUFFICES ASSUME NEW f \in Listeners PROVE 0 <= cr[e][f]
    BY CountEmpty
  <2>1. Count(listeners[e], f) \in Nat
    BY <1>1, Counted DEF TypeOK
  <2>2. Count(listeners[e], f) <= cr[e][f] /\ cr[e][f] \in Int
    BY <1>1 DEF ArraysCovered, Credits
  <2> QED
    BY <2>1, <2>2
<1>4. \A f \in Listeners : Count(r.snap, f) <= cr[e][f]
  BY <1>1, <1>2 DEF Snapshot, FrameCovered, ArraysCovered
<1>5. \A d \in Events, f \in Listeners : Count(r.old[d], f) <= cr[d][f]
  BY <1>1, <1>2, <1>3 DEF FrameCovered
<1> QED
  BY <1>1, <1>2, <1>4, <1>5 DEF FrameCovered, r

\* Replacing the innermost frame by a covered one keeps all frames covered.
LEMMA TopCovered ==
    ASSUME TypeOK, stack # <<>>, NEW fr, NEW cr, FrameCovered(fr, cr),
           \A i \in DOMAIN stack \ {Len(stack)} : FrameCovered(stack[i], cr)
    PROVE  /\ \A i \in DOMAIN WithTop(fr) : FrameCovered(WithTop(fr)[i], cr)
           /\ Len(WithTop(fr)) = Len(stack)
<1>1. DOMAIN stack = 1..Len(stack) /\ Len(stack) \in Nat
  BY DEF TypeOK
<1>2. DOMAIN WithTop(fr) = DOMAIN stack
  BY DEF WithTop
<1>3. \A i \in DOMAIN stack : WithTop(fr)[i] = IF i = Len(stack) THEN fr ELSE stack[i]
  BY DEF WithTop
<1>4. Len(WithTop(fr)) = Len(stack)
  BY <1>1, <1>2
<1> QED
  BY <1>2, <1>3, <1>4

\* The innermost frame and the frames below it are covered.
LEMMA InnermostCovered ==
    ASSUME BulkInv, stack # <<>>
    PROVE  /\ Len(stack) \in DOMAIN stack
           /\ FrameInv(Last(stack), listeners)
           /\ FrameCovered(Last(stack), credit)
           /\ \A i \in DOMAIN Front(stack) : FrameCovered(Front(stack)[i], credit)
           /\ Len(Front(stack)) <= Len(stack)
<1>1. stack \in Seq(Frame) /\ Len(stack) \in DOMAIN stack /\ FrameInv(Last(stack), listeners)
  BY TopFrame DEF BulkInv, IInv, TypeOK
<1>2. \A i \in DOMAIN stack : FrameCovered(stack[i], credit)
  BY DEF BulkInv, CreditInv
<1>3. FrameCovered(Last(stack), credit)
  BY <1>1, <1>2 DEF Last
<1>4. /\ Len(Front(stack)) = Len(stack) - 1 /\ DOMAIN Front(stack) \subseteq DOMAIN stack
      /\ \A i \in DOMAIN Front(stack) : Front(stack)[i] = stack[i]
  <2>1. Len(stack) \in Nat /\ Len(stack) # 0 /\ DOMAIN stack = 1..Len(stack)
    BY <1>1
  <2>2. Front(stack) = [i \in 1..(Len(stack) - 1) |-> stack[i]]
    BY DEF Front
  <2> QED
    BY <2>1, <2>2
<1> QED
  BY <1>1, <1>2, <1>3, <1>4

\* Once again registered, a function has one more execution left, on each event.
LEMMA AddOnceCovered ==
    ASSUME BulkInv, NEW sel \in Selector, NEW f \in Listeners, AddOnceCounted(sel, f)
    PROVE  CreditInv'
<1>1. /\ listeners \in [Events -> Seq(Entry)] /\ credit \in Credits
      /\ ArraysCovered(listeners, credit) /\ Len(stack) <= MaxDepth
      /\ \A i \in DOMAIN stack : FrameCovered(stack[i], credit)
      /\ \A i \in DOMAIN stack : FrameInv(stack[i], listeners)
  BY IInvFrames DEF BulkInv, CreditInv, IInv, TypeOK, FramesInv
<1>2. /\ stack' = stack
      /\ listeners' = [e \in Events |-> IF e \in getListenersAsObject(sel)
                                        THEN AddedOnce(listeners[e], f) ELSE listeners[e]]
      /\ credit' = [e \in Events |-> IF e \in getListenersAsObject(sel)
                                     THEN [credit[e] EXCEPT ![f] = @ + 1] ELSE credit[e]]
  BY DEF AddOnceCounted, addOnceListener
<1>3. ASSUME NEW e \in Events, NEW g \in Listeners
      PROVE  /\ credit'[e] \in [Listeners -> Int]
             /\ credit[e][g] \in Int /\ credit'[e][g] \in Int
             /\ credit'[e][g] = IF e \in getListenersAsObject(sel) /\ g = f
                                THEN credit[e][g] + 1 ELSE credit[e][g]
  <2>1. credit[e] \in [Listeners -> Int]
    BY <1>1 DEF Credits
  <2> QED
    BY <1>2, <2>1
<1>4. credit' \in Credits
  BY <1>2, <1>3 DEF Credits
<1>5. ArraysCovered(listeners', credit')
  <2> SUFFICES ASSUME NEW e \in Events, NEW g \in Listeners
               PROVE  Count(listeners'[e], g) <= credit'[e][g]
    BY DEF ArraysCovered
  <2>1. listeners[e] \in Seq(Entry) /\ Count(listeners[e], g) <= credit[e][g]
    BY <1>1 DEF ArraysCovered
  <2>2. Count(listeners[e], g) \in Nat
    BY <2>1, Counted
  <2>3. Count(AddedOnce(listeners[e], f), g) =
           IF g = f THEN Count(listeners[e], g) + 1 ELSE Count(listeners[e], g)
    BY <2>1, CountAddedOnce
  <2> QED
    BY <1>2, <1>3, <2>1, <2>2, <2>3
<1>6. ASSUME NEW i \in DOMAIN stack PROVE FrameCovered(stack[i], credit')
  <2> DEFINE fr == stack[i]
  <2>1. fr.old \in [Events -> Seq(Entry)] /\ fr.snap \in Seq(Entry)
    BY <1>1, FrameArrays
  <2>2. FrameCovered(fr, credit)
    BY <1>1
  <2> HIDE DEF fr
  <2>3. ASSUME NEW e \in Events, NEW g \in Listeners
        PROVE  /\ Count(fr.old[e], g) <= credit'[e][g]
               /\ e = fr.key => Count(fr.snap, g) <= credit'[e][g]
    <3>1. Count(fr.old[e], g) \in Nat /\ Count(fr.snap, g) \in Nat
      BY <2>1, Counted
    <3>2. credit[e][g] <= credit'[e][g]
      BY <1>3
    <3> QED
      BY <1>3, <2>2, <3>1, <3>2 DEF FrameCovered
  <2>4. FrameCovered(fr, credit')
    BY <2>2, <2>3 DEF FrameCovered
  <2> QED
    BY <2>4 DEF fr
<1> QED
  BY <1>1, <1>2, <1>4, <1>5, <1>6 DEF CreditInv

\* With one emission under way, the execution of a once entry uses up an
\* execution of its function, and as many entries: the one executed leaves the
\* copy, the last one for the function leaves the array.
LEMMA OnceCallCovered ==
    ASSUME BulkInv, MaxDepth <= 1, CallCounted, Last(Last(stack).snap).once
    PROVE  CreditInv'
<1> DEFINE fr == Last(stack)
           f == Last(fr.snap).listener
           k == fr.key
<1>1. stack # <<>> /\ fr.snap # <<>>
  BY DEF CallCounted, CallListener, LoopRuns
<1>2. /\ FrameInv(fr, listeners) /\ FrameCovered(fr, credit)
      /\ Len(stack) \in DOMAIN stack
  BY <1>1, InnermostCovered
<1>3. /\ TypeOK /\ IInv /\ PersistentOnce /\ credit \in Credits
      /\ ArraysCovered(listeners, credit) /\ Len(stack) <= MaxDepth
      /\ listeners \in [Events -> Seq(Entry)]
      /\ \A e \in Events \ defined : listeners[e] = <<>>
  BY DEF BulkInv, CreditInv, IInv, TypeOK
<1>4. DOMAIN stack = {Len(stack)}
  <2>1. stack \in Seq(Frame) /\ MaxDepth \in Nat
    BY <1>3, ConstantsAssumption DEF TypeOK
  <2>2. DOMAIN stack = 1..Len(stack) /\ Len(stack) \in Nat
    BY <2>1
  <2> QED
    BY <1>2, <1>3, <2>1, <2>2
<1>5. /\ fr.snap \in Seq(Entry) /\ fr.old \in [Events -> Seq(Entry)]
      /\ fr.sel \in Selector /\ k \in Events /\ k \in fr.sel.keys
      /\ fr.old[k] = <<>> /\ Pending(fr) \subseteq fr.sel.keys
  BY <1>1, <1>2, FrameArrays DEF FrameInv, FrameCovered
<1>6. f \in Listeners
  <2>1. Last(fr.snap) \in Entry
    BY <1>1, <1>5, CountFront
  <2> QED
    BY <2>1 DEF Entry
<1>7. ASSUME NEW g
      PROVE  /\ Count(Front(fr.snap), g) \in Nat /\ Count(fr.snap, g) \in Nat
             /\ Count(Front(fr.snap), g) =
                   IF f = g THEN Count(fr.snap, g) - 1 ELSE Count(fr.snap, g)
  <2>1. /\ Front(fr.snap) \in Seq(Entry)
        /\ Count(Front(fr.snap), g) =
              IF f = g THEN Count(fr.snap, g) - 1 ELSE Count(fr.snap, g)
    BY <1>1, <1>5, CountFront
  <2> QED
    BY <1>5, <2>1, Counted
<1>8. /\ credit' = [credit EXCEPT ![k][f] = @ - 1] /\ credit' \in Credits
      /\ Unregister(fr.sel, f, WithTop(Calling(fr)))
  <2>1. /\ credit' = [credit EXCEPT ![k][f] = @ - 1]
        /\ Unregister(fr.sel, f, WithTop(Calling(fr)))
    BY DEF CallCounted, CallListener
  <2>2. credit' \in Credits
    BY <1>3, <1>5, <1>6, <2>1 DEF Credits
  <2> QED
    BY <2>1, <2>2
<1>9. ASSUME NEW e \in Events, NEW g \in Listeners
      PROVE  /\ credit[e][g] \in Int
             /\ credit'[e][g] = IF e = k /\ g = f THEN credit[e][g] - 1 ELSE credit[e][g]
  <2>1. credit \in [Events -> [Listeners -> Int]]
    BY <1>3 DEF Credits
  <2> QED
    BY <1>5, <1>6, <1>8, <2>1
<1>10. credit[k][f] >= 1
  <2>1. Count(fr.snap, f) <= credit[k][f] /\ credit[k][f] \in Int
    BY <1>2, <1>5, <1>6, <1>9 DEF FrameCovered
  <2> QED
    BY <1>7, <2>1
<1>11. FrameCovered(Calling(fr), credit')
  <2> DEFINE c == Calling(fr)
  <2>1. /\ c.snap = Front(fr.snap) /\ c.old = fr.old /\ c.key = k /\ c.sel = fr.sel
        /\ Pending(c) = Pending(fr)
    BY <1>2 DEF FrameInv, Frame, Calling, Pending
  <2> HIDE DEF c
  <2>2. ASSUME NEW e \in Events, NEW g \in Listeners
        PROVE  /\ Count(c.old[e], g) <= credit'[e][g]
               /\ e = c.key => Count(c.snap, g) <= credit'[e][g]
    <3>1. Count(fr.old[e], g) <= credit[e][g] /\ (e = k => Count(fr.snap, g) <= credit[e][g])
      BY <1>2 DEF FrameCovered
    <3>2. Count(fr.old[e], g) \in Nat /\ (e = k => Count(fr.old[e], g) = 0)
      BY <1>5, Counted, CountEmpty
    <3>3. Count(c.old[e], g) <= credit'[e][g]
      BY <1>9, <1>10, <2>1, <3>1, <3>2
    <3>4. e = k => Count(Front(fr.snap), g) <= credit'[e][g]
      BY <1>7, <1>9, <3>1
    <3> QED
      BY <2>1, <3>3, <3>4
  <2>3. c.key # None => c.old[c.key] = <<>>
    BY <1>5, <2>1
  <2>4. FrameCovered(c, credit')
    BY <1>5, <2>1, <2>2, <2>3 DEF FrameCovered
  <2> QED
    BY <2>4 DEF c
<1> HIDE DEF fr, k
<1>12. /\ \A i \in DOMAIN WithTop(Calling(fr)) : FrameCovered(WithTop(Calling(fr))[i], credit')
       /\ Len(WithTop(Calling(fr))) = Len(stack)
       /\ FramesInv(WithTop(Calling(fr)), listeners)
  BY <1>1, <1>2, <1>3, <1>4, <1>11, TopCovered, TopFrame, CallingFrame
<1>13. /\ \A i \in DOMAIN stack' : FrameCovered(stack'[i], credit')
       /\ Len(stack') = Len(stack)
       /\ \A e \in Events, g \in Listeners :
             /\ Count(listeners'[e], g) <= Count(listeners[e], g)
             /\ Count(listeners'[e], g) \in Nat /\ Count(listeners[e], g) \in Nat
  BY <1>3, <1>5, <1>8, <1>12, UnregisterCovered
<1>14. Count(listeners'[k], f) <= credit[k][f] - 1
  <2>1. listeners[k] \in Seq(Entry) /\ OnceFollow(listeners[k])
    BY <1>3, <1>5 DEF PersistentOnce
  <2>2. listeners'[k] = IF k \in getListenersAsObject(fr.sel)
                        THEN Removed(listeners[k], f) ELSE listeners[k]
    BY <1>5, <1>8 DEF Unregister
  <2>3. Count(listeners[k], f) \in Nat /\ Count(listeners[k], f) <= credit[k][f]
    BY <1>3, <1>5, <1>6, <2>1, Counted DEF ArraysCovered
  <2>4. credit[k][f] \in Int
    BY <1>5, <1>6, <1>9
  <2>5. CASE Count(listeners[k], f) = 0
    <3>1. Count(listeners'[k], f) \in Nat /\ Count(listeners'[k], f) <= Count(listeners[k], f)
      BY <1>5, <1>6, <1>13
    <3> QED
      BY <1>10, <2>4, <2>5, <3>1
  <2>6. CASE Count(listeners[k], f) > 0
    <3>1. k \in defined
      BY <1>3, <1>5, <2>6, CountEmpty
    <3>2. k \in getListenersAsObject(fr.sel)
      BY <1>5, <3>1 DEF getListenersAsObject, Touched
    <3>3. Count(Removed(listeners[k], f), f) <= Count(listeners[k], f) - 1
      BY <2>1, <2>6, CountRemoved
    <3>4. Count(Removed(listeners[k], f), f) \in Nat
      BY <2>1, RemovedArray, Counted
    <3> QED
      BY <2>2, <2>3, <2>4, <3>2, <3>3, <3>4
  <2> QED
    BY <2>3, <2>5, <2>6
<1>15. ArraysCovered(listeners', credit')
  <2> SUFFICES ASSUME NEW e \in Events, NEW g \in Listeners
               PROVE  Count(listeners'[e], g) <= credit'[e][g]
    BY DEF ArraysCovered
  <2>1. CASE e = k /\ g = f
    BY <1>5, <1>6, <1>9, <1>14, <2>1
  <2>2. CASE ~(e = k /\ g = f)
    <3>1. credit'[e][g] = credit[e][g] /\ credit[e][g] \in Int
      BY <1>9, <2>2
    <3>2. Count(listeners[e], g) <= credit[e][g]
      BY <1>3 DEF ArraysCovered
    <3> QED
      BY <1>13, <3>1, <3>2
  <2> QED
    BY <2>1, <2>2
<1> QED
  BY <1>3, <1>8, <1>13, <1>15 DEF CreditInv

\* Executing another entry takes it out of the copy and changes nothing else.
LEMMA PlainCallCovered ==
    ASSUME BulkInv, CallCounted, ~Last(Last(stack).snap).once
    PROVE  CreditInv'
<1> DEFINE fr == Last(stack)
           c == Calling(fr)
<1>1. stack # <<>> /\ fr.snap # <<>>
  BY DEF CallCounted, CallListener, LoopRuns
<1>2. FrameInv(fr, listeners) /\ FrameCovered(fr, credit)
  BY <1>1, InnermostCovered
<1>3. /\ TypeOK /\ credit \in Credits /\ ArraysCovered(listeners, credit)
      /\ Len(stack) <= MaxDepth /\ \A i \in DOMAIN stack : FrameCovered(stack[i], credit)
  BY DEF BulkInv, CreditInv, IInv
<1>4. stack' = WithTop(c) /\ listeners' = listeners /\ credit' = credit
  BY DEF CallCounted, CallListener
<1>5. /\ c.snap = Front(fr.snap) /\ c.old = fr.old /\ c.key = fr.key /\ c.sel = fr.sel
      /\ Pending(c) = Pending(fr) /\ fr.snap \in Seq(Entry)
  BY <1>2 DEF FrameInv, Frame, Calling, Pending
<1> HIDE DEF c, fr
<1>6. ASSUME NEW g \in Listeners PROVE Count(c.snap, g) = Count(fr.snap, g)
  BY <1>1, <1>4, <1>5, CountFront DEF fr
<1>7. FrameCovered(c, credit)
  <2>1. c.snap # <<>> => fr.snap # <<>>
    BY <1>1
  <2> QED
    BY <1>2, <1>5, <1>6, <2>1 DEF FrameCovered
<1>8. (\A i \in DOMAIN WithTop(c) : FrameCovered(WithTop(c)[i], credit))
         /\ Len(WithTop(c)) = Len(stack)
  BY <1>1, <1>3, <1>7, TopCovered
<1> QED
  BY <1>3, <1>4, <1>8 DEF CreditInv

\* A step that leaves credit and takes entries for each function out of the
\* arrays keeps them covered.
LEMMA FewerStep ==
    ASSUME BulkInv, credit' = credit,
           \A e \in Events, g \in Listeners :
              /\ Count(listeners'[e], g) <= Count(listeners[e], g)
              /\ Count(listeners'[e], g) \in Nat /\ Count(listeners[e], g) \in Nat,
           \A i \in DOMAIN stack' : FrameCovered(stack'[i], credit),
           Len(stack') <= MaxDepth
    PROVE  CreditInv'
<1>1. credit \in Credits /\ ArraysCovered(listeners, credit)
  BY DEF BulkInv, CreditInv
<1>2. ArraysCovered(listeners', credit)
  BY <1>1, FewerCovered
<1> QED
  BY <1>1, <1>2 DEF CreditInv

\* A step that leaves the arrays too has to cover the emissions only.
LEMMA FramesStep ==
    ASSUME BulkInv, credit' = credit, listeners' = listeners,
           \A i \in DOMAIN stack' : FrameCovered(stack'[i], credit),
           Len(stack') <= MaxDepth
    PROVE  CreditInv'
  BY DEF BulkInv, CreditInv

LEMMA RemovalCovered ==
    ASSUME BulkInv, NEW sel \in Selector, NEW f, NEW st, FramesInv(st, listeners),
           Unregister(sel, f, st), credit' = credit, Len(st) <= MaxDepth,
           \A i \in DOMAIN st : FrameCovered(st[i], credit)
    PROVE  CreditInv'
<1>1. IInv /\ credit \in Credits
  BY DEF BulkInv, CreditInv
<1>2. /\ \A e \in Events, g \in Listeners :
            /\ Count(listeners'[e], g) <= Count(listeners[e], g)
            /\ Count(listeners'[e], g) \in Nat /\ Count(listeners[e], g) \in Nat
      /\ \A i \in DOMAIN stack' : FrameCovered(stack'[i], credit)
      /\ Len(stack') = Len(st)
  BY <1>1, UnregisterCovered
<1> QED
  BY <1>2, FewerStep

\* addListener adds no once entry.
LEMMA AddCovered ==
    ASSUME BulkInv, NEW sel \in Selector, NEW f \in Listeners, addListener(sel, f),
           credit' = credit
    PROVE  CreditInv'
<1>1. listeners \in [Events -> Seq(Entry)]
  BY DEF BulkInv, IInv, TypeOK
<1>2. ASSUME NEW e \in Events, NEW g \in Listeners
      PROVE  /\ Count(listeners'[e], g) <= Count(listeners[e], g)
             /\ Count(listeners'[e], g) \in Nat /\ Count(listeners[e], g) \in Nat
  <2>1. listeners[e] \in Seq(Entry)
    BY <1>1
  <2>2. listeners'[e] = listeners[e] \/ listeners'[e] = Added(listeners[e], f)
    BY DEF addListener
  <2>3. Count(listeners[e], g) \in Nat /\ Count(Added(listeners[e], f), g) = Count(listeners[e], g)
    BY <2>1, Counted, CountAdded
  <2> QED
    BY <2>2, <2>3
<1>3. stack' = stack
  BY DEF addListener
<1>4. Len(stack) <= MaxDepth /\ \A i \in DOMAIN stack : FrameCovered(stack[i], credit)
  BY DEF BulkInv, CreditInv
<1> QED
  BY <1>2, <1>3, <1>4, FewerStep

\* Nor do the bulk operations.
LEMMA ManipulateCovered ==
    ASSUME BulkInv, NEW remove \in BOOLEAN, NEW sel \in Selector, NEW fs \in Seq(Listeners),
           manipulateListeners(remove, sel, fs)
    PROVE  CreditInv'
<1>1. /\ listeners \in [Events -> Seq(Entry)] /\ FramesInv(stack, listeners)
      /\ Len(stack) <= MaxDepth /\ \A i \in DOMAIN stack : FrameCovered(stack[i], credit)
  BY IInvFrames DEF BulkInv, CreditInv, IInv, TypeOK
<1>2. /\ credit' = credit
      /\ listeners' = [e \in Events |->
                          IF e \notin getListenersAsObject(sel) THEN listeners[e]
                          ELSE Manipulated(remove, listeners[e], fs)]
      /\ stack' = [i \in DOMAIN stack |-> Settled(stack[i], listeners')]
  BY DEF manipulateListeners
<1>3. ASSUME NEW e \in Events, NEW g \in Listeners
      PROVE  /\ Count(listeners'[e], g) <= Count(listeners[e], g)
             /\ Count(listeners'[e], g) \in Nat /\ Count(listeners[e], g) \in Nat
  <2> DEFINE r == Manipulated(remove, listeners[e], fs)
  <2>1. listeners[e] \in Seq(Entry)
    BY <1>1
  <2>2. listeners'[e] = listeners[e] \/ listeners'[e] = r
    BY <1>2
  <2>3. r \in Seq(Entry) /\ Count(r, g) <= Count(listeners[e], g)
    BY <2>1, ManipulatedArray
  <2> HIDE DEF r
  <2>4. Count(listeners[e], g) \in Nat /\ Count(r, g) \in Nat
    BY <2>1, <2>3, Counted
  <2> QED
    BY <2>2, <2>3, <2>4
<1>4. \A i \in DOMAIN stack : FrameCovered(Settled(stack[i], listeners'), credit)
  BY <1>1, SettledCovered DEF FramesInv
<1>5. Len(stack') = Len(stack)
  BY <1>1, <1>2 DEF FramesInv
<1> QED
  BY <1>1, <1>2, <1>3, <1>4, <1>5, FewerStep

\* Removing events empties arrays; emissions that still need them keep them.
LEMMA RemoveEventCovered ==
    ASSUME BulkInv, NEW keys \in SUBSET Events, removeEvent(keys), credit' = credit
    PROVE  CreditInv'
<1>1. /\ listeners \in [Events -> Seq(Entry)] /\ FramesInv(stack, listeners)
      /\ credit \in Credits /\ ArraysCovered(listeners, credit)
      /\ Len(stack) <= MaxDepth /\ \A i \in DOMAIN stack : FrameCovered(stack[i], credit)
  BY IInvFrames DEF BulkInv, CreditInv, IInv, TypeOK
<1>2. /\ listeners' = [e \in Events |-> IF e \in keys THEN <<>> ELSE listeners[e]]
      /\ stack' = [i \in DOMAIN stack |-> Detached(stack[i], keys)]
  BY DEF removeEvent
<1>3. ASSUME NEW e \in Events, NEW g \in Listeners
      PROVE  /\ Count(listeners'[e], g) <= Count(listeners[e], g)
             /\ Count(listeners'[e], g) \in Nat /\ Count(listeners[e], g) \in Nat
  <2>1. listeners[e] \in Seq(Entry)
    BY <1>1
  <2>2. listeners'[e] = listeners[e] \/ listeners'[e] = <<>>
    BY <1>2
  <2>3. Count(listeners[e], g) \in Nat /\ Count(<<>>, g) = 0
    BY <2>1, Counted, CountEmpty
  <2> QED
    BY <2>2, <2>3
<1>4. \A i \in DOMAIN stack : FrameCovered(Detached(stack[i], keys), credit)
  BY <1>1, DetachedCovered DEF FramesInv
<1>5. Len(stack') = Len(stack)
  BY <1>1, <1>2 DEF FramesInv
<1> QED
  BY <1>1, <1>2, <1>3, <1>4, <1>5, FewerStep

\* A new emission, and the next key of one.
LEMMA EmitCovered ==
    ASSUME BulkInv, NEW sel \in Selector, emitEvent(sel), credit' = credit
    PROVE  CreditInv'
<1> DEFINE fr == NewFrame(sel)
<1>1. /\ IInv /\ TypeOK /\ stack \in Seq(Frame) /\ FramesInv(stack, listeners)
      /\ credit \in Credits /\ ArraysCovered(listeners, credit)
      /\ \A i \in DOMAIN stack : FrameCovered(stack[i], credit)
  BY IInvFrames DEF BulkInv, CreditInv, IInv, TypeOK
<1>2. stack' = Append(stack, fr) /\ listeners' = listeners /\ Len(stack) < MaxDepth
  BY DEF emitEvent
<1>3. FrameCovered(fr, credit)
  BY <1>1, NewFrameCovered
<1> HIDE DEF fr
<1>4. /\ Len(stack) \in Nat /\ DOMAIN stack = 1..Len(stack)
      /\ Len(stack') = Len(stack) + 1 /\ DOMAIN stack' = 1..(Len(stack) + 1)
      /\ \A i \in 1..(Len(stack) + 1) :
            stack'[i] = IF i = Len(stack) + 1 THEN fr ELSE stack[i]
  BY <1>1, <1>2
<1>5. Len(stack') <= MaxDepth
  BY <1>2, <1>4, ConstantsAssumption
<1>6. ASSUME NEW i \in DOMAIN stack' PROVE FrameCovered(stack'[i], credit)
  <2>1. CASE i = Len(stack) + 1
    BY <1>3, <1>4, <2>1
  <2>2. CASE i # Len(stack) + 1
    <3>1. i \in DOMAIN stack /\ stack'[i] = stack[i]
      BY <1>4, <2>2
    <3> QED
      BY <1>1, <3>1
  <2> QED
    BY <2>1, <2>2
<1> QED
  BY <1>2, <1>5, <1>6, FramesStep

LEMMA NextKeyStepCovered ==
    ASSUME BulkInv, NEW e \in Events, NextKey(e), credit' = credit
    PROVE  CreditInv'
<1> DEFINE fr == Last(stack)
           r == [fr EXCEPT !.key = e, !.snap = Snapshot(fr, e),
                           !.live = @ \ {e}, !.detached = @ \ {e},
                           !.old[e] = <<>>]
<1>1. /\ stack # <<>> /\ e \in Pending(fr)
      /\ stack' = WithTop(r) /\ listeners' = listeners
  BY DEF NextKey, LoopRuns
<1>2. /\ TypeOK /\ credit \in Credits /\ ArraysCovered(listeners, credit)
      /\ Len(stack) <= MaxDepth /\ \A i \in DOMAIN stack : FrameCovered(stack[i], credit)
  BY DEF BulkInv, CreditInv, IInv
<1>3. FrameInv(fr, listeners) /\ FrameCovered(fr, credit)
  BY <1>1, InnermostCovered
<1>4. FrameCovered(r, credit)
  BY <1>1, <1>2, <1>3, NextKeyCovered
<1> HIDE DEF r
<1>5. (\A i \in DOMAIN WithTop(r) : FrameCovered(WithTop(r)[i], credit))
         /\ Len(WithTop(r)) = Len(stack)
  BY <1>1, <1>2, <1>4, TopCovered
<1> QED
  BY <1>1, <1>2, <1>5, FramesStep

\* A listener that returns changes no array of its emission.
LEMMA ReturnCovered ==
    ASSUME BulkInv, NEW v \in Values, ListenerReturns(v), credit' = credit
    PROVE  CreditInv'
<1> DEFINE fr == Last(stack)
           top == [fr EXCEPT !.cur = None]
<1>1. stack # <<>>
  BY DEF ListenerReturns
<1>2. /\ IInv /\ TypeOK /\ Len(stack) <= MaxDepth
      /\ \A i \in DOMAIN stack : FrameCovered(stack[i], credit)
  BY DEF BulkInv, CreditInv, IInv
<1>3. FrameInv(fr, listeners) /\ FrameCovered(fr, credit) /\ fr.sel \in Selector
  BY <1>1, InnermostCovered DEF FrameInv, Frame
<1>4. FrameInv(top, listeners)
  BY <1>3 DEF FrameInv, Queued, Frame
<1>5. FrameCovered(top, credit)
  <2>1. /\ top.snap = fr.snap /\ top.old = fr.old /\ top.key = fr.key /\ top.sel = fr.sel
        /\ Pending(top) = Pending(fr)
    BY <1>3 DEF FrameInv, Frame, Pending
  <2> HIDE DEF top
  <2> QED
    BY <1>3, <2>1 DEF FrameCovered
<1> HIDE DEF top
<1>6. /\ \A i \in DOMAIN WithTop(top) : FrameCovered(WithTop(top)[i], credit)
      /\ Len(WithTop(top)) = Len(stack)
      /\ FramesInv(WithTop(top), listeners)
  BY <1>1, <1>2, <1>4, <1>5, TopCovered, TopFrame
<1>7. CASE v = onceReturn
  <2>1. Unregister(fr.sel, fr.cur, WithTop(top))
    BY <1>7 DEF ListenerReturns, top
  <2> QED
    BY <1>2, <1>3, <1>6, <2>1, RemovalCovered
<1>8. CASE v # onceReturn
  <2>1. stack' = WithTop(top) /\ listeners' = listeners
    BY <1>8 DEF ListenerReturns, top
  <2> QED
    BY <1>2, <1>6, <2>1, FramesStep
<1> QED
  BY <1>7, <1>8

\* An emission that ends, by returning or by an exception, takes its copies along.
LEMMA EndCovered ==
    ASSUME BulkInv, ListenerThrows \/ EmitReturns, credit' = credit
    PROVE  CreditInv'
<1>1. stack # <<>> /\ stack' = Front(stack) /\ listeners' = listeners
  BY DEF ListenerThrows, EmitReturns
<1>2. /\ Len(stack) <= MaxDepth /\ stack \in Seq(Frame)
      /\ \A i \in DOMAIN stack : FrameCovered(stack[i], credit)
  BY DEF BulkInv, CreditInv, IInv, TypeOK
<1>3. /\ Len(Front(stack)) = Len(stack) - 1 /\ Len(stack) \in Nat /\ Len(stack) # 0
  <2>1. Len(stack) \in Nat /\ Len(stack) # 0
    BY <1>1, <1>2
  <2>2. Front(stack) = [i \in 1..(Len(stack) - 1) |-> stack[i]]
    BY DEF Front
  <2> QED
    BY <2>1, <2>2
<1>4. Len(stack') <= MaxDepth
  BY <1>1, <1>2, <1>3, ConstantsAssumption
<1>5. \A i \in DOMAIN stack' : FrameCovered(stack'[i], credit)
  BY <1>1, InnermostCovered
<1> QED
  BY <1>1, <1>4, <1>5, FramesStep

LEMMA CreditStep ==
    ASSUME MaxDepth <= 1, BulkInv, [BulkNext]_bulkVars
    PROVE  BulkInv'
<1>0. IInv' /\ FramesInv(stack, listeners) /\ IInv /\ TypeOK
  BY BulkNextInv, IInvFrames DEF BulkInv, IInv
<1> SUFFICES CreditInv'
  BY <1>0 DEF BulkInv
<1>1. /\ Len(stack) <= MaxDepth /\ \A i \in DOMAIN stack : FrameCovered(stack[i], credit)
  BY DEF BulkInv, CreditInv
<1>2. ASSUME NEW sel \in Selector, NEW f \in Listeners, credit' = credit,
             addListener(sel, f) \/ removeListener(sel, f)
      PROVE  CreditInv'
  BY <1>0, <1>1, <1>2, AddCovered, RemovalCovered DEF removeListener
<1>3. ASSUME NEW sel \in Selector, credit' = credit, removeEvent(sel.keys) \/ emitEvent(sel)
      PROVE  CreditInv'
  <2>1. sel.keys \in SUBSET Events
    BY <1>0, SelectorKeys
  <2> QED
    BY <1>3, <2>1, RemoveEventCovered, EmitCovered
<1>4. ASSUME NEW e \in Events, credit' = credit, defineEvent(e) \/ NextKey(e)
      PROVE  CreditInv'
  BY <1>1, <1>4, NextKeyStepCovered, FramesStep DEF defineEvent
<1>5. ASSUME NEW v \in Values, credit' = credit, setOnceReturnValue(v) PROVE CreditInv'
  BY <1>1, <1>5, FramesStep DEF setOnceReturnValue
<1>6. CASE Uncounted
  <2>1. credit' = credit
    BY <1>6 DEF Uncounted
  <2>2. CASE removeEvent(Events)
    BY <2>1, <2>2, RemoveEventCovered
  <2>3. CASE EmitReturns \/ ListenerEnds
    BY <2>1, <2>3, EndCovered, ReturnCovered DEF ListenerEnds
  <2> QED
    BY <1>2, <1>3, <1>4, <1>5, <1>6, <2>1, <2>2, <2>3 DEF Uncounted
<1>7. CASE \E sel \in Selector, f \in Listeners : AddOnceCounted(sel, f)
  BY <1>7, AddOnceCovered
<1>8. CASE CallCounted
  BY <1>8, OnceCallCovered, PlainCallCovered
<1>9. CASE \E sel \in Selector, fs \in Bulks : addListeners(sel, fs) \/ removeListeners(sel, fs)
  BY <1>9, ManipulateCovered, BulksAssumption DEF addListeners, removeListeners
<1>10. CASE UNCHANGED bulkVars
  BY <1>1, <1>10, FramesStep DEF bulkVars, vars
<1> QED
  BY <1>6, <1>7, <1>8, <1>9, <1>10 DEF BulkNext

LEMMA CreditInit == BulkInit => BulkInv
<1> SUFFICES ASSUME BulkInit PROVE BulkInv
  OBVIOUS
<1>1. /\ stack = <<>> /\ listeners = [e \in Events |-> <<>>]
      /\ credit = [e \in Events |-> [f \in Listeners |-> 0]] /\ IInv
  BY InitInv DEF BulkInit, Init
<1>2. credit \in Credits /\ Len(stack) <= MaxDepth
  BY <1>1, ConstantsAssumption DEF Credits
<1>3. ArraysCovered(listeners, credit)
  BY <1>1, CountEmpty DEF ArraysCovered
<1> QED
  BY <1>1, <1>2, <1>3 DEF BulkInv, CreditInv

LEMMA CreditHolds == ASSUME MaxDepth <= 1 PROVE BulkSpec => []BulkInv
  BY CreditInit, CreditStep, PTL DEF BulkSpec

\* While emissions do not nest, every array and every copy of one holds at most
\* as many once entries for a function as executions are left to it.
THEOREM OnceEntriesStayCovered ==
    ASSUME MaxDepth <= 1 PROVE BulkSpec => []OnceEntriesCovered
<1>1. BulkInv => OnceEntriesCovered
  BY DEF BulkInv, CreditInv, ArraysCovered, FrameCovered, OnceEntriesCovered, Count
<1> QED
  BY <1>1, CreditHolds, PTL

\* While emissions do not nest, what once says is so, whatever bulk operations,
\* removals and later registrations listeners make: a function is executed by
\* once entries at most as often as it was registered with once.
THEOREM OnceRunsOnceUnnested ==
    ASSUME MaxDepth <= 1 PROVE BulkSpec => []OnceRunsOnce
<1>1. BulkInv => OnceRunsOnce
  <2> SUFFICES ASSUME BulkInv, NEW e \in Events, NEW f \in Listeners PROVE credit[e][f] >= 0
    BY DEF OnceRunsOnce
  <2>1. listeners[e] \in Seq(Entry) /\ credit[e][f] \in Int
    BY DEF BulkInv, IInv, TypeOK, CreditInv, Credits
  <2>2. Count(listeners[e], f) \in Nat /\ Count(listeners[e], f) <= credit[e][f]
    BY <2>1, Counted DEF BulkInv, CreditInv, ArraysCovered
  <2> QED
    BY <2>1, <2>2
<1> QED
  BY <1>1, CreditHolds, PTL
===========================================================================
