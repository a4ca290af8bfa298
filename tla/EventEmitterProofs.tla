------------------------ MODULE EventEmitterProofs ------------------------
(***************************************************************************)
(* Proofs about EventEmitter: any number of events, listeners, nested       *)
(* emissions and registrations.                                            *)
(***************************************************************************)
EXTENDS EventEmitter, SequenceTheorems, WellFoundedInduction, TLAPS

---------------------------------------------------------------------------
(* Listener arrays *)

\* A nonempty set of indices has a greatest element.
LEMMA GreatestIndex ==
    ASSUME NEW n \in Nat, NEW I, I \subseteq 1..n, I # {}
    PROVE  \E m \in I : \A i \in I : i <= m
<1> DEFINE T == {n - i : i \in I}
<1>1. T \subseteq Nat
  <2>1. ASSUME NEW i \in I PROVE n - i \in Nat
    BY i \in 1..n
  <2> QED
    BY <2>1
<1>0. T # {}
  <2>1. PICK i \in I : TRUE
    OBVIOUS
  <2>2. n - i \in T
    OBVIOUS
  <2> QED
    BY <2>2
<1>2. PICK t \in T : \A u \in T : ~(<<u, t>> \in OpToRel(<, Nat))
  <2>1. IsWellFoundedOn(OpToRel(<, Nat), Nat)
    BY NatLessThanWellFounded
  <2> HIDE DEF T
  <2> QED
    BY <2>1, <1>0, <1>1, WFMin
<1>3. PICK m \in I : t = n - m
  OBVIOUS
<1>4. ASSUME NEW i \in I PROVE i <= m
  <2>1. n - i \in T
    OBVIOUS
  <2>2. ~(n - i < n - m)
    BY <2>1, <1>1, <1>2, <1>3 DEF OpToRel
  <2> QED
    BY <2>2
<1> QED
  BY <1>4

\* indexOfListener finds the last entry of the function, or none.
LEMMA IndexOfListener ==
    ASSUME NEW s \in Seq(Entry), NEW f, NEW k, k = indexOfListener(s, f)
    PROVE  \/ k = 0 /\ ~Attached(s, f)
           \/ /\ k \in 1..Len(s)
              /\ s[k].listener = f
              /\ \A j \in 1..Len(s) : s[j].listener = f => j <= k
<1> DEFINE I == {i \in 1..Len(s) : s[i].listener = f}
<1>1. k = IF I # {} THEN Max(I) ELSE 0
  BY DEF indexOfListener, SelectLastInSeq
<1>2. CASE I = {}
  BY <1>1, <1>2 DEF Attached
<1>3. CASE I # {}
  <2>1. \E m \in I : \A i \in I : i <= m
    <3>1. Len(s) \in Nat
      OBVIOUS
    <3>2. I \subseteq 1..Len(s)
      OBVIOUS
    <3> HIDE DEF I
    <3> QED
      BY <3>1, <3>2, <1>3, GreatestIndex
  <2>2. k = CHOOSE x \in I : \A y \in I : x >= y
    BY <1>1, <1>3 DEF Max
  <2>3. k \in I /\ \A y \in I : k >= y
    BY <2>1, <2>2
  <2> QED
    BY <2>3
<1> QED
  BY <1>2, <1>3

\* What RemoveAt leaves: one entry fewer, the others in their order.
LEMMA RemoveAtShape ==
    ASSUME NEW S, NEW s \in Seq(S), NEW k \in 1..Len(s)
    PROVE  /\ RemoveAt(s, k) \in Seq(S)
           /\ Len(RemoveAt(s, k)) = Len(s) - 1
           /\ \A j \in 1..(Len(s) - 1) :
                 RemoveAt(s, k)[j] = IF j < k THEN s[j] ELSE s[j + 1]
<1> DEFINE A == SubSeq(s, 1, k - 1)
           B == SubSeq(s, k + 1, Len(s))
<1>1. /\ A \in Seq(S)
      /\ Len(A) = k - 1
      /\ \A i \in 1..(k - 1) : A[i] = s[i]
  BY SubSeqProperties, \A i \in 1..(k - 1) : s[i] \in S
<1>2. /\ B \in Seq(S)
      /\ Len(B) = Len(s) - k
      /\ \A i \in 1..(Len(s) - k) : B[i] = s[k + i]
  BY SubSeqProperties, \A i \in (k + 1)..Len(s) : s[i] \in S
<1>3. RemoveAt(s, k) = A \o B
  BY DEF RemoveAt
<1> HIDE DEF A, B
<1>4. /\ A \o B \in Seq(S)
      /\ Len(A \o B) = Len(s) - 1
      /\ \A i \in 1..(Len(s) - 1) :
            (A \o B)[i] = IF i <= Len(A) THEN A[i] ELSE B[i - Len(A)]
  BY <1>1, <1>2, ConcatProperties
<1>5. ASSUME NEW j \in 1..(Len(s) - 1)
      PROVE  (A \o B)[j] = IF j < k THEN s[j] ELSE s[j + 1]
  <2>1. CASE j < k
    BY <2>1, <1>1, <1>4
  <2>2. CASE j >= k
    <3>1. j - (k - 1) \in 1..(Len(s) - k) /\ k + (j - (k - 1)) = j + 1
      BY <2>2
    <3> QED
      BY <2>2, <3>1, <1>1, <1>2, <1>4
  <2>3. j < k \/ j >= k
    BY j \in Int, k \in Int
  <2> QED
    BY <2>1, <2>2, <2>3
<1> QED
  BY <1>3, <1>4, <1>5

\* Removing a function keeps the other functions and the order of entries.
LEMMA RemovedArray ==
    ASSUME NEW s \in Seq(Entry), NEW f
    PROVE  /\ Removed(s, f) \in Seq(Entry)
           /\ OnceFollow(s) => OnceFollow(Removed(s, f))
           /\ \A g : Attached(Removed(s, f), g) => Attached(s, g)
           /\ \A g : Attached(s, g) /\ g # f => Attached(Removed(s, f), g)
<1> DEFINE k == indexOfListener(s, f)
<1>1. CASE k = 0
  BY <1>1 DEF Removed
<1>2. CASE k # 0
  <2>1. k \in 1..Len(s)
    BY <1>2, IndexOfListener
  <2>2. Removed(s, f) = RemoveAt(s, k)
    BY <1>2 DEF Removed
  <2> HIDE DEF k
  <2> DEFINE r == RemoveAt(s, k)
             from(j) == IF j < k THEN j ELSE j + 1
  <2>3. /\ r \in Seq(Entry)
        /\ DOMAIN r = 1..(Len(s) - 1)
        /\ \A j \in DOMAIN r : r[j] = s[from(j)]
    <3>1. /\ r \in Seq(Entry)
          /\ Len(r) = Len(s) - 1
          /\ \A j \in 1..(Len(s) - 1) : r[j] = IF j < k THEN s[j] ELSE s[j + 1]
      BY <2>1, RemoveAtShape
    <3> QED
      BY <3>1
  <2> HIDE DEF r
  <2>4. ASSUME OnceFollow(s), NEW i \in DOMAIN r, NEW j \in DOMAIN r,
               i < j, r[i].listener = r[j].listener
        PROVE  r[j].once
    <3>1. from(i) \in DOMAIN s /\ from(j) \in DOMAIN s /\ from(i) < from(j)
      BY <2>1, <2>3, <2>4
    <3> QED
      BY <3>1, <2>3, <2>4 DEF OnceFollow
  <2>5. ASSUME NEW g, Attached(r, g) PROVE Attached(s, g)
    <3>1. PICK j \in DOMAIN r : r[j].listener = g
      BY <2>5 DEF Attached
    <3>2. from(j) \in DOMAIN s
      BY <2>1, <2>3
    <3> QED
      BY <3>1, <3>2, <2>3 DEF Attached
  <2>6. ASSUME NEW g, Attached(s, g), g # f PROVE Attached(r, g)
    <3>1. PICK i \in DOMAIN s : s[i].listener = g
      BY <2>6 DEF Attached
    <3>2. s[k].listener = f
      BY <1>2, IndexOfListener DEF k
    <3>3. i # k /\ i \in 1..Len(s)
      BY <3>1, <3>2, <2>6
    <3>4. CASE i < k
      BY <3>1, <3>3, <3>4, <2>1, <2>3 DEF Attached
    <3>5. CASE i > k
      <4>1. i - 1 \in DOMAIN r /\ from(i - 1) = i
        BY <3>3, <3>5, <2>1, <2>3
      <4> QED
        BY <3>1, <4>1, <2>3 DEF Attached
    <3> QED
      BY <3>3, <3>4, <3>5, <2>1
  <2> QED
    BY <2>2, <2>3, <2>4, <2>5, <2>6 DEF OnceFollow, r
<1> QED
  BY <1>1, <1>2

\* Appending an entry attaches its function, and no other.
LEMMA AppendedArray ==
    ASSUME NEW s \in Seq(Entry), NEW x \in Entry, NEW g
    PROVE  Attached(Append(s, x), g) <=> Attached(s, g) \/ g = x.listener
<1> DEFINE r == Append(s, x)
<1>1. /\ DOMAIN s = 1..Len(s) /\ Len(s) \in Nat
      /\ DOMAIN r = 1..(Len(s) + 1)
      /\ r[Len(s) + 1] = x
      /\ \A i \in 1..Len(s) : r[i] = s[i]
  BY AppendProperties, LenProperties
<1> HIDE DEF r
<1>2. ASSUME Attached(r, g) PROVE Attached(s, g) \/ g = x.listener
  BY <1>1, <1>2 DEF Attached
<1>3. ASSUME Attached(s, g) PROVE Attached(r, g)
  BY <1>1, <1>3 DEF Attached
<1>4. ASSUME g = x.listener PROVE Attached(r, g)
  BY <1>1, <1>4 DEF Attached
<1> QED
  BY <1>2, <1>3, <1>4 DEF r

\* addListener keeps an array well formed, adds its function and drops none.
LEMMA AddedArray ==
    ASSUME NEW s \in Seq(Entry), NEW f \in Listeners
    PROVE  /\ Added(s, f) \in Seq(Entry)
           /\ OnceFollow(s) => OnceFollow(Added(s, f))
           /\ \A g : Attached(Added(s, f), g) <=> Attached(s, g) \/ g = f
<1> DEFINE k == indexOfListener(s, f)
<1>1. CASE k = 0
  <2>1. ~Attached(s, f)
    BY <1>1, IndexOfListener
  <2>2. Added(s, f) = Append(s, [listener |-> f, once |-> FALSE])
    BY <1>1 DEF Added
  <2>3. [listener |-> f, once |-> FALSE] \in Entry
    BY DEF Entry
  <2>4. \A g : Attached(Added(s, f), g) <=> Attached(s, g) \/ g = f
    BY <2>2, <2>3, AppendedArray
  <2>5. /\ Added(s, f) \in Seq(Entry)
        /\ OnceFollow(s) => OnceFollow(Added(s, f))
    BY <2>1, <2>2 DEF OnceFollow, Attached, Entry
  <2> QED
    BY <2>4, <2>5
<1>2. CASE k # 0
  <2>1. Attached(s, f)
    BY <1>2, IndexOfListener DEF Attached
  <2> QED
    BY <1>2, <2>1 DEF Added
<1> QED
  BY <1>1, <1>2

\* addOnceListener adds a once entry, which may follow any entry, and drops none.
LEMMA AddedOnceArray ==
    ASSUME NEW s \in Seq(Entry), NEW f \in Listeners
    PROVE  /\ AddedOnce(s, f) \in Seq(Entry)
           /\ OnceFollow(s) => OnceFollow(AddedOnce(s, f))
           /\ \A g : Attached(AddedOnce(s, f), g) <=> Attached(s, g) \/ g = f
<1>1. [listener |-> f, once |-> TRUE] \in Entry
  BY DEF Entry
<1>2. \A g : Attached(AddedOnce(s, f), g) <=> Attached(s, g) \/ g = f
  BY <1>1, AppendedArray DEF AddedOnce
<1>3. /\ AddedOnce(s, f) \in Seq(Entry)
      /\ OnceFollow(s) => OnceFollow(AddedOnce(s, f))
  BY <1>1 DEF AddedOnce, OnceFollow, Entry
<1> QED
  BY <1>2, <1>3

---------------------------------------------------------------------------
(* Frames *)

\* The parts of the invariant that speak of one call of emitEvent.
FrameInv(fr, arrays) ==
    /\ fr \in Frame
    /\ fr.live \cap fr.detached = {}
    /\ fr.key \notin fr.live
    /\ fr.snap # <<>> => fr.key # None
    /\ Queued(fr, arrays)

\* Settling a frame's debt against new arrays keeps the frame well formed.
LEMMA SettledFrame ==
    ASSUME NEW fr, NEW A, NEW B, FrameInv(fr, A)
    PROVE  FrameInv(Settled(fr, B), B)
  BY DEF FrameInv, Settled, Queued, Frame

\* A frame keeps its debts queued when arrays only gain listeners.
LEMMA GrownFrame ==
    ASSUME NEW fr, NEW A, NEW B, FrameInv(fr, A),
           \A e \in Events, f \in Listeners : Attached(A[e], f) => Attached(B[e], f)
    PROVE  FrameInv(fr, B)
<1> SUFFICES ASSUME NEW p \in fr.owed, p[1] \in fr.live, Attached(A[p[1]], p[2])
             PROVE  Attached(B[p[1]], p[2])
  BY DEF FrameInv, Queued
<1>1. p[1] \in Events /\ p[2] \in Listeners
  BY DEF FrameInv, Frame
<1> QED
  BY <1>1

\* removeEvent moves the arrays a frame still needs from the emitter to it.
LEMMA DetachedFrame ==
    ASSUME NEW fr, NEW gone, NEW B, FrameInv(fr, listeners),
           listeners \in [Events -> Seq(Entry)],
           \A e \in Events \ gone : B[e] = listeners[e]
    PROVE  FrameInv(Detached(fr, gone), B)
<1> DEFINE d == Detached(fr, gone)
<1>1. /\ d \in Frame
      /\ d.live = fr.live \ gone
      /\ d.detached = fr.detached \cup (fr.live \cap gone)
      /\ d.old = [e \in Events |-> IF e \in fr.live \cap gone
                                   THEN listeners[e] ELSE fr.old[e]]
      /\ d.key = fr.key /\ d.snap = fr.snap /\ d.owed = fr.owed
  BY DEF FrameInv, Frame, Detached
<1> HIDE DEF d
<1>2. d.live \cap d.detached = {}
  BY <1>1 DEF FrameInv
<1>3. ASSUME NEW p \in d.owed
      PROVE  \/ p[1] \in d.live /\ Attached(B[p[1]], p[2])
             \/ p[1] \in d.detached /\ Attached(d.old[p[1]], p[2])
             \/ p[1] = d.key /\ Attached(d.snap, p[2])
  <2>1. p[1] \in Events
    BY <1>1 DEF FrameInv, Frame
  <2> QED
    BY <1>1, <2>1 DEF FrameInv, Queued
<1> QED
  BY <1>1, <1>2, <1>3 DEF FrameInv, Queued, d

\* Executing the last entry of the copy pays the debt for its function.
LEMMA CallingFrame ==
    ASSUME NEW fr, NEW A, FrameInv(fr, A), fr.snap # <<>>
    PROVE  FrameInv(Calling(fr), A)
<1> DEFINE c == Calling(fr)
           n == Len(fr.snap)
           f == fr.snap[n].listener
<1>1. fr.snap \in Seq(Entry) /\ n \in Nat \ {0} /\ f \in Listeners
  <2>1. fr.snap \in Seq(Entry)
    BY DEF FrameInv, Frame
  <2>2. n \in Nat /\ n # 0
    BY <2>1, EmptySeq, LenProperties
  <2>3. fr.snap[n] \in Entry
    BY <2>1, <2>2, ElementOfSeq
  <2> QED
    BY <2>1, <2>2, <2>3 DEF Entry
<1>2. /\ Front(fr.snap) \in Seq(Entry)
      /\ DOMAIN Front(fr.snap) = 1..(n - 1)
      /\ \A i \in 1..(n - 1) : Front(fr.snap)[i] = fr.snap[i]
  BY <1>1 DEF Front
<1>3. /\ c \in Frame
      /\ c.live = fr.live /\ c.detached = fr.detached /\ c.old = fr.old
      /\ c.key = fr.key /\ c.snap = Front(fr.snap)
      /\ c.owed = fr.owed \ {<<fr.key, f>>}
  BY <1>1, <1>2 DEF FrameInv, Frame, Calling, Last
<1>4. ASSUME NEW p \in c.owed, p[1] = fr.key, Attached(fr.snap, p[2])
      PROVE  Attached(c.snap, p[2])
  <2>1. PICK i \in 1..n : fr.snap[i].listener = p[2]
    BY <1>1, <1>4 DEF Attached
  <2>2. p \in Events \X Listeners /\ p # <<fr.key, f>>
    BY <1>3 DEF FrameInv, Frame
  <2>3. i # n
    BY <2>1, <2>2, <1>4
  <2> QED
    BY <2>1, <2>3, <1>1, <1>2, <1>3 DEF Attached
<1> HIDE DEF c, f, n
<1> QED
  BY <1>3, <1>4 DEF FrameInv, Queued, c

\* Going to the next key copies the array its debts are queued in.
LEMMA NextKeyFrame ==
    ASSUME NEW fr, NEW e \in Pending(fr), FrameInv(fr, listeners),
           listeners \in [Events -> Seq(Entry)], fr.snap = <<>>
    PROVE  FrameInv([fr EXCEPT !.key = e, !.snap = Snapshot(fr, e),
                               !.live = @ \ {e}, !.detached = @ \ {e},
                               !.old[e] = <<>>], listeners)
<1> DEFINE r == [fr EXCEPT !.key = e, !.snap = Snapshot(fr, e),
                           !.live = @ \ {e}, !.detached = @ \ {e},
                           !.old[e] = <<>>]
<1>1. e \in Events /\ Snapshot(fr, e) \in Seq(Entry)
  BY DEF FrameInv, Frame, Pending, Snapshot
<1>2. /\ r \in Frame
      /\ r.live = fr.live \ {e} /\ r.detached = fr.detached \ {e}
      /\ r.old = [fr.old EXCEPT ![e] = <<>>]
      /\ r.key = e /\ r.snap = Snapshot(fr, e) /\ r.owed = fr.owed
  <2>1. [fr.old EXCEPT ![e] = <<>>] \in [Events -> Seq(Entry)]
    BY <1>1 DEF FrameInv, Frame
  <2> QED
    BY <1>1, <2>1 DEF FrameInv, Frame
<1> HIDE DEF r
<1>3. ASSUME NEW p \in r.owed
      PROVE  \/ p[1] \in r.live /\ Attached(listeners[p[1]], p[2])
             \/ p[1] \in r.detached /\ Attached(r.old[p[1]], p[2])
             \/ p[1] = r.key /\ Attached(r.snap, p[2])
  <2>1. p[1] \in Events /\ ~Attached(fr.snap, p[2])
    BY <1>2 DEF FrameInv, Frame, Attached
  <2>2. \/ p[1] \in fr.live /\ Attached(listeners[p[1]], p[2])
        \/ p[1] \in fr.detached /\ Attached(fr.old[p[1]], p[2])
    BY <1>2, <2>1 DEF FrameInv, Queued
  <2>3. fr.old \in [Events -> Seq(Entry)] /\ fr.live \cap fr.detached = {}
    BY DEF FrameInv, Frame
  <2> QED
    BY <1>1, <1>2, <2>1, <2>2, <2>3 DEF Snapshot
<1>4. r.live \cap r.detached = {} /\ r.key \notin r.live /\ r.key # None
  BY <1>1, <1>2, ConstantsAssumption DEF FrameInv
<1> QED
  BY <1>2, <1>3, <1>4 DEF FrameInv, Queued, r

\* What a new emission owes is attached in the emitter's arrays.
LEMMA FreshFrame ==
    ASSUME NEW sel \in Selector, listeners \in [Events -> Seq(Entry)]
    PROVE  FrameInv(NewFrame(sel), listeners)
<1>1. sel.keys \subseteq Events
  <2>1. CASE sel \in [regex : {FALSE}, keys : {{e} : e \in Events}]
    <3>1. PICK e \in Events : sel.keys = {e}
      BY <2>1
    <3> QED
      BY <3>1
  <2>2. CASE sel \in [regex : {TRUE}, keys : Regexes]
    BY <2>2, ConstantsAssumption
  <2> QED
    BY <2>1, <2>2 DEF Selector
<1>2. [e \in Events |-> <<>>] \in [Events -> Seq(Entry)] /\ <<>> \in Seq(Entry)
  OBVIOUS
<1>3. getListenersAsObject(sel) \subseteq Events
  BY <1>1 DEF getListenersAsObject
<1> QED
  BY <1>2, <1>3, ConstantsAssumption DEF FrameInv, NewFrame, Queued, Frame

---------------------------------------------------------------------------
(* The inductive invariant *)

IInv == TypeOK /\ PersistentOnce /\ QueuesDisjoint /\ KeyTaken /\ OwedIsQueued

FramesInv(st, arrays) ==
    st \in Seq(Frame) /\ \A i \in DOMAIN st : FrameInv(st[i], arrays)

\* The invariant, read as a property of each frame.
LEMMA IInvFrames == IInv => FramesInv(stack, listeners)
  BY DEF IInv, TypeOK, QueuesDisjoint, KeyTaken, OwedIsQueued, FramesInv, FrameInv

\* A function over the indices of a sequence is a sequence.
LEMMA MappedSeq ==
    ASSUME NEW S, NEW T, NEW st \in Seq(S), NEW g, g \in [DOMAIN st -> T]
    PROVE  g \in Seq(T) /\ DOMAIN g = DOMAIN st
  BY LenProperties, SeqDef

\* How a step establishes the invariant: new arrays that keep their form and
\* frames that fit them.
LEMMA StepInv ==
    ASSUME defined' \subseteq Events, onceReturn' \in Values,
           listeners' \in [Events -> Seq(Entry)],
           \A e \in Events \ defined' : listeners'[e] = <<>>,
           \A e \in Events : OnceFollow(listeners'[e]),
           FramesInv(stack', listeners')
    PROVE  IInv'
  BY DEF IInv, TypeOK, PersistentOnce, QueuesDisjoint, KeyTaken, OwedIsQueued, FramesInv,
         FrameInv

\* The names a selector selects are events, and defined after the lookup.
LEMMA SelectorKeys ==
    ASSUME NEW sel \in Selector, TypeOK
    PROVE  /\ sel.keys \subseteq Events
           /\ defined \subseteq Touched(sel) /\ Touched(sel) \subseteq Events
           /\ getListenersAsObject(sel) \subseteq Events \cap Touched(sel)
<1>1. sel.keys \subseteq Events
  <2>1. CASE sel \in [regex : {FALSE}, keys : {{e} : e \in Events}]
    <3>1. PICK e \in Events : sel.keys = {e}
      BY <2>1
    <3> QED
      BY <3>1
  <2>2. CASE sel \in [regex : {TRUE}, keys : Regexes]
    BY <2>2, ConstantsAssumption
  <2> QED
    BY <2>1, <2>2 DEF Selector
<1> QED
  BY <1>1 DEF TypeOK, Touched, getListenersAsObject

\* A removal, by the script or by the loop, keeps the invariant.
LEMMA UnregisterStep ==
    ASSUME IInv, NEW sel \in Selector, NEW f, NEW st, FramesInv(st, listeners),
           Unregister(sel, f, st), onceReturn' = onceReturn
    PROVE  IInv'
<1>1. TypeOK /\ PersistentOnce
  BY DEF IInv
<1>2. /\ listeners \in [Events -> Seq(Entry)]
      /\ \A e \in Events \ defined : listeners[e] = <<>>
  BY <1>1 DEF TypeOK
<1>3. defined' \subseteq Events /\ defined \subseteq defined'
  BY <1>1, SelectorKeys DEF Unregister
<1>4. \A e \in Events :
        /\ listeners'[e] \in Seq(Entry)
        /\ OnceFollow(listeners'[e])
        /\ e \notin defined' => listeners'[e] = <<>>
  <2> SUFFICES ASSUME NEW e \in Events
               PROVE  /\ listeners'[e] \in Seq(Entry)
                      /\ OnceFollow(listeners'[e])
                      /\ e \notin defined' => listeners'[e] = <<>>
    OBVIOUS
  <2>1. listeners[e] \in Seq(Entry) /\ OnceFollow(listeners[e])
    BY <1>1, <1>2 DEF PersistentOnce
  <2>2. CASE e \in getListenersAsObject(sel)
    <3>1. listeners'[e] = Removed(listeners[e], f) /\ e \in defined'
      BY <2>2, <1>1, SelectorKeys DEF Unregister
    <3> QED
      BY <3>1, <2>1, RemovedArray
  <2>3. CASE e \notin getListenersAsObject(sel)
    <3>1. listeners'[e] = listeners[e]
      BY <2>3 DEF Unregister
    <3> QED
      BY <3>1, <2>1, <1>2, <1>3
  <2> QED
    BY <2>2, <2>3
<1>5. listeners' \in [Events -> Seq(Entry)]
  <2>1. listeners' = [e \in Events |-> listeners'[e]]
    BY DEF Unregister
  <2> QED
    BY <2>1, <1>4
<1>6. FramesInv(stack', listeners')
  <2>1. stack' = [i \in DOMAIN st |-> Settled(st[i], listeners')]
    BY DEF Unregister
  <2>2. \A i \in DOMAIN st : FrameInv(Settled(st[i], listeners'), listeners')
    BY SettledFrame DEF FramesInv
  <2>3. stack' \in [DOMAIN st -> Frame]
    BY <2>1, <2>2 DEF FrameInv
  <2>4. st \in Seq(Frame)
    BY DEF FramesInv
  <2>5. stack' \in Seq(Frame) /\ DOMAIN stack' = DOMAIN st
    BY <2>3, <2>4, MappedSeq
  <2> QED
    BY <2>1, <2>2, <2>5 DEF FramesInv
<1>7. onceReturn' \in Values
  BY <1>1 DEF TypeOK
<1> QED
  BY <1>3, <1>4, <1>5, <1>6, <1>7, StepInv

\* A step that only adds registrations.
LEMMA RegisterStep ==
    ASSUME IInv, NEW sel \in Selector, defined' = Touched(sel),
           listeners' = [e \in Events |-> listeners'[e]],
           \A e \in Events \ getListenersAsObject(sel) : listeners'[e] = listeners[e],
           \A e \in getListenersAsObject(sel) :
              /\ listeners'[e] \in Seq(Entry)
              /\ OnceFollow(listeners[e]) => OnceFollow(listeners'[e])
              /\ \A g : Attached(listeners[e], g) => Attached(listeners'[e], g),
           UNCHANGED <<onceReturn, stack>>
    PROVE  IInv'
<1>1. TypeOK /\ PersistentOnce /\ FramesInv(stack, listeners)
  BY IInvFrames DEF IInv
<1>2. /\ defined' \subseteq Events /\ defined \subseteq defined'
      /\ getListenersAsObject(sel) \subseteq Events \cap defined'
  BY <1>1, SelectorKeys
<1>3. \A e \in Events :
        /\ listeners'[e] \in Seq(Entry)
        /\ OnceFollow(listeners'[e])
        /\ e \notin defined' => listeners'[e] = <<>>
        /\ \A g : Attached(listeners[e], g) => Attached(listeners'[e], g)
  BY <1>1, <1>2 DEF TypeOK, PersistentOnce
<1>4. listeners' \in [Events -> Seq(Entry)]
  BY <1>3
<1>5. FramesInv(stack', listeners')
  BY <1>1, <1>3, GrownFrame DEF FramesInv
<1>6. onceReturn' \in Values
  BY <1>1 DEF TypeOK
<1> QED
  BY <1>2, <1>3, <1>4, <1>5, <1>6, StepInv

\* A step that only replaces the innermost frame, or the stack.
LEMMA FrameStep ==
    ASSUME IInv, UNCHANGED <<defined, listeners, onceReturn>>,
           FramesInv(stack', listeners)
    PROVE  IInv'
  BY StepInv DEF IInv, TypeOK, PersistentOnce

\* Replacing the innermost frame by a good one keeps all frames good.
LEMMA TopFrame ==
    ASSUME IInv, stack # <<>>
    PROVE  /\ Len(stack) \in DOMAIN stack
           /\ FrameInv(Last(stack), listeners)
           /\ FramesInv(Front(stack), listeners)
           /\ \A fr : FrameInv(fr, listeners) => FramesInv(WithTop(fr), listeners)
<1>1. FramesInv(stack, listeners) /\ stack \in Seq(Frame)
  BY IInvFrames DEF FramesInv
<1>2. Len(stack) \in Nat \ {0} /\ DOMAIN stack = 1..Len(stack)
  BY <1>1, EmptySeq, LenProperties
<1>3. FrameInv(Last(stack), listeners)
  BY <1>1, <1>2 DEF FramesInv, Last
<1>4. FramesInv(Front(stack), listeners)
  BY <1>1, <1>2 DEF FramesInv, Front
<1>5. ASSUME NEW fr, FrameInv(fr, listeners)
      PROVE  FramesInv(WithTop(fr), listeners)
  BY <1>1, <1>2, <1>5 DEF FramesInv, FrameInv, WithTop
<1> QED
  BY <1>2, <1>3, <1>4, <1>5

\* Entering an emission with a good frame keeps all frames good.
LEMMA PushedFrame ==
    ASSUME NEW st, NEW fr, NEW A, FramesInv(st, A), FrameInv(fr, A)
    PROVE  FramesInv(Append(st, fr), A)
<1> DEFINE r == Append(st, fr)
<1>1. st \in Seq(Frame) /\ fr \in Frame
  BY DEF FramesInv, FrameInv
<1>2. /\ r \in Seq(Frame)
      /\ DOMAIN r = 1..(Len(st) + 1)
      /\ r[Len(st) + 1] = fr
      /\ \A i \in 1..Len(st) : r[i] = st[i]
  BY <1>1, AppendProperties, LenProperties
<1>3. ASSUME NEW i \in DOMAIN r PROVE FrameInv(r[i], A)
  <2>1. CASE i = Len(st) + 1
    BY <2>1, <1>2
  <2>2. CASE i \in 1..Len(st)
    BY <2>2, <1>1, <1>2 DEF FramesInv
  <2>3. Len(st) \in Nat
    BY <1>1
  <2> QED
    BY <2>1, <2>2, <2>3, <1>2
<1> QED
  BY <1>2, <1>3 DEF FramesInv

---------------------------------------------------------------------------
(* The theorems *)

\* The invariant holds when the emitter is created.
LEMMA InitInv == Init => IInv
<1> SUFFICES ASSUME Init PROVE IInv
  OBVIOUS
<1>1. \A e \in Events : listeners[e] = <<>>
  BY DEF Init
<1>2. listeners \in [Events -> Seq(Entry)]
  BY DEF Init
<1>3. stack = <<>> /\ onceReturn \in Values /\ defined = {}
  BY ConstantsAssumption DEF Init
<1> QED
  BY <1>1, <1>2, <1>3 DEF IInv, TypeOK, PersistentOnce, OnceFollow,
     QueuesDisjoint, KeyTaken, OwedIsQueued

\* Every step keeps the invariant; one step of the proof per action.
LEMMA NextInv == IInv /\ [Next]_vars => IInv'
<1> SUFFICES ASSUME IInv, [Next]_vars PROVE IInv'
  OBVIOUS
<1> USE DEF IInv
<1>0. TypeOK /\ PersistentOnce /\ FramesInv(stack, listeners)
  BY IInvFrames
<1>1. ASSUME NEW sel \in Selector, NEW f \in Listeners, addListener(sel, f)
      PROVE  IInv'
  <2>1. \A e \in getListenersAsObject(sel) :
           e \in Events /\ listeners'[e] = Added(listeners[e], f)
    BY <1>0, <1>1, SelectorKeys DEF addListener
  <2>2. \A e \in getListenersAsObject(sel) :
           /\ listeners'[e] \in Seq(Entry)
           /\ OnceFollow(listeners[e]) => OnceFollow(listeners'[e])
           /\ \A g : Attached(listeners[e], g) => Attached(listeners'[e], g)
    BY <2>1, <1>0, AddedArray DEF TypeOK
  <2>3. /\ listeners' = [e \in Events |-> listeners'[e]]
        /\ \A e \in Events \ getListenersAsObject(sel) : listeners'[e] = listeners[e]
        /\ defined' = Touched(sel)
        /\ UNCHANGED <<onceReturn, stack>>
    BY <1>1 DEF addListener
  <2> QED
    BY <2>2, <2>3, RegisterStep
<1>2. ASSUME NEW sel \in Selector, NEW f \in Listeners, addOnceListener(sel, f)
      PROVE  IInv'
  <2>1. \A e \in getListenersAsObject(sel) :
           e \in Events /\ listeners'[e] = AddedOnce(listeners[e], f)
    BY <1>0, <1>2, SelectorKeys DEF addOnceListener
  <2>2. \A e \in getListenersAsObject(sel) :
           /\ listeners'[e] \in Seq(Entry)
           /\ OnceFollow(listeners[e]) => OnceFollow(listeners'[e])
           /\ \A g : Attached(listeners[e], g) => Attached(listeners'[e], g)
    BY <2>1, <1>0, AddedOnceArray DEF TypeOK
  <2>3. /\ listeners' = [e \in Events |-> listeners'[e]]
        /\ \A e \in Events \ getListenersAsObject(sel) : listeners'[e] = listeners[e]
        /\ defined' = Touched(sel)
        /\ UNCHANGED <<onceReturn, stack>>
    BY <1>2 DEF addOnceListener
  <2> QED
    BY <2>2, <2>3, RegisterStep
<1>3. ASSUME NEW sel \in Selector, NEW f \in Listeners, removeListener(sel, f)
      PROVE  IInv'
  BY <1>0, <1>3, UnregisterStep DEF removeListener
<1>4. ASSUME NEW e \in Events, defineEvent(e)
      PROVE  IInv'
  BY <1>0, <1>4, StepInv DEF defineEvent, TypeOK, PersistentOnce
<1>5. ASSUME NEW keys \in SUBSET Events, removeEvent(keys)
      PROVE  IInv'
  <2>1. /\ defined' \subseteq Events /\ onceReturn' \in Values
        /\ listeners' \in [Events -> Seq(Entry)]
        /\ \A e \in Events \ defined' : listeners'[e] = <<>>
        /\ \A e \in Events \ keys : listeners'[e] = listeners[e]
    BY <1>0, <1>5 DEF removeEvent, TypeOK
  <2>2. \A e \in Events : OnceFollow(listeners'[e])
    BY <1>0, <1>5 DEF removeEvent, PersistentOnce, OnceFollow
  <2>3. \A i \in DOMAIN stack : FrameInv(Detached(stack[i], keys), listeners')
    BY <1>0, <2>1, DetachedFrame DEF FramesInv, TypeOK
  <2>4. stack' = [i \in DOMAIN stack |-> Detached(stack[i], keys)]
    BY <1>5 DEF removeEvent
  <2>5. stack' \in [DOMAIN stack -> Frame] /\ stack \in Seq(Frame)
    BY <1>0, <2>3, <2>4 DEF FrameInv, FramesInv
  <2>6. stack' \in Seq(Frame) /\ DOMAIN stack' = DOMAIN stack
    BY <2>5, MappedSeq
  <2>7. FramesInv(stack', listeners')
    BY <2>3, <2>4, <2>6 DEF FramesInv
  <2> QED
    BY <2>1, <2>2, <2>7, StepInv
<1>6. ASSUME NEW sel \in Selector, emitEvent(sel)
      PROVE  IInv'
  <2>1. /\ defined' \subseteq Events /\ defined \subseteq defined'
        /\ UNCHANGED <<listeners, onceReturn>>
    BY <1>0, <1>6, SelectorKeys DEF emitEvent
  <2>2. FrameInv(NewFrame(sel), listeners)
    BY <1>0, FreshFrame DEF TypeOK
  <2>3. FramesInv(stack', listeners')
    <3>1. stack' = Append(stack, NewFrame(sel))
      BY <1>6 DEF emitEvent
    <3> QED
      BY <1>0, <2>1, <2>2, <3>1, PushedFrame
  <2> QED
    BY <1>0, <2>1, <2>3, StepInv DEF TypeOK, PersistentOnce
<1>7. ASSUME NEW v \in Values, setOnceReturnValue(v)
      PROVE  IInv'
  BY <1>0, <1>7, StepInv DEF setOnceReturnValue, TypeOK, PersistentOnce
<1>8. ASSUME NEW e \in Events, NextKey(e)
      PROVE  IInv'
  <2> DEFINE fr == Last(stack)
  <2>1. stack # <<>> /\ fr.snap = <<>> /\ e \in Pending(fr)
    BY <1>8 DEF NextKey, LoopRuns
  <2>2. FrameInv(fr, listeners)
    BY <2>1, TopFrame
  <2>3. FrameInv([fr EXCEPT !.key = e, !.snap = Snapshot(fr, e),
                            !.live = @ \ {e}, !.detached = @ \ {e},
                            !.old[e] = <<>>], listeners)
    BY <1>0, <2>1, <2>2, NextKeyFrame DEF TypeOK
  <2>4. FramesInv(stack', listeners)
    BY <1>8, <2>1, <2>3, TopFrame DEF NextKey
  <2> QED
    BY <1>8, <2>4, FrameStep DEF NextKey
<1>9. CASE CallListener
  <2> DEFINE fr == Last(stack)
  <2>1. stack # <<>> /\ fr.snap # <<>>
    BY <1>9 DEF CallListener, LoopRuns
  <2>2. FrameInv(fr, listeners) /\ fr.sel \in Selector
    BY <2>1, TopFrame DEF FrameInv, Frame
  <2>3. FramesInv(WithTop(Calling(fr)), listeners)
    BY <2>1, <2>2, TopFrame, CallingFrame
  <2>4. CASE Last(fr.snap).once
    BY <1>9, <2>2, <2>3, <2>4, UnregisterStep DEF CallListener
  <2>5. CASE ~Last(fr.snap).once
    BY <1>9, <2>3, <2>5, FrameStep DEF CallListener
  <2> QED
    BY <2>4, <2>5
<1>10. ASSUME NEW v \in Values, ListenerReturns(v)
       PROVE  IInv'
  <2> DEFINE fr == Last(stack)
             top == [fr EXCEPT !.cur = None]
  <2>1. stack # <<>>
    BY <1>10 DEF ListenerReturns
  <2>2. FrameInv(fr, listeners) /\ fr.sel \in Selector
    BY <2>1, TopFrame DEF FrameInv, Frame
  <2>3. FrameInv(top, listeners)
    BY <2>2 DEF FrameInv, Queued, Frame
  <2>4. FramesInv(WithTop(top), listeners)
    BY <2>1, <2>3, TopFrame
  <2>5. CASE v = onceReturn
    BY <1>10, <2>2, <2>4, <2>5, UnregisterStep DEF ListenerReturns
  <2>6. CASE v # onceReturn
    BY <1>10, <2>4, <2>6, FrameStep DEF ListenerReturns
  <2> QED
    BY <2>5, <2>6
<1>11. CASE ListenerThrows \/ EmitReturns
  BY <1>11, TopFrame, FrameStep DEF ListenerThrows, EmitReturns
<1>12. CASE UNCHANGED vars
  BY <1>0, <1>12, FrameStep DEF vars
<1>13. ASSUME NEW sel \in Selector PROVE sel.keys \in SUBSET Events
  BY <1>0, SelectorKeys
<1>14. CASE ScriptStep
  BY <1>14, <1>1, <1>2, <1>3, <1>4, <1>5, <1>6, <1>7, <1>13 DEF ScriptStep
<1>15. CASE LoopStep \/ ListenerEnds
  BY <1>15, <1>8, <1>9, <1>10, <1>11 DEF LoopStep, ListenerEnds
<1> QED
  BY <1>12, <1>14, <1>15 DEF Next

\* The strengthened invariant holds in every behaviour.
THEOREM InvariantHolds == Spec => []IInv
  BY InitInv, NextInv, PTL DEF Spec

\* Every state is well typed, and an undefined event has no listener.
THEOREM TypeCorrect == Spec => []TypeOK
  BY InvariantHolds, PTL DEF IInv

\* addListener never registers a function twice on an event, and the one
\* registration it makes comes before every once registration of the function.
THEOREM RegisteredAtMostOnce == Spec => []PersistentOnce
  BY InvariantHolds, PTL DEF IInv

\* What is neither in the copy nor in an array to come is owed to nobody.
LEMMA DeliversWhatIsQueued == IInv => EmissionDelivers
<1> SUFFICES ASSUME IInv, NEW i \in DOMAIN stack, LoopEnds(stack[i]),
                    NEW p \in stack[i].owed
             PROVE  FALSE
  BY DEF EmissionDelivers
<1>1. ~Attached(<<>>, p[2])
  BY DEF Attached
<1> QED
  BY <1>1 DEF IInv, OwedIsQueued, Queued, LoopEnds, Pending

\* What an emission owes is still queued, also in an array that removeEvent took
\* from the emitter while the emission was walking.
THEOREM OwedStaysQueued == Spec => []OwedIsQueued
  BY InvariantHolds, PTL DEF IInv

\* When an emission returns it has executed every listener it found, save
\* those taken back before their turn: whatever listeners do, emissions nested
\* to any depth included.
THEOREM EmissionsDeliver == Spec => []EmissionDelivers
  BY DeliversWhatIsQueued, InvariantHolds, PTL

---------------------------------------------------------------------------
(* The contract *)

\* Promises and running functions are sequences as long as the stack.
LEMMA Views ==
    ASSUME NEW st \in Seq(Frame)
    PROVE  /\ PromisedIn(st) \in Seq(SUBSET (Events \X Listeners))
           /\ RunningIn(st) \in Seq(Listeners \cup {None})
           /\ Len(PromisedIn(st)) = Len(st) /\ Len(RunningIn(st)) = Len(st)
           /\ DOMAIN PromisedIn(st) = DOMAIN st /\ DOMAIN RunningIn(st) = DOMAIN st
<1>1. DOMAIN st = 1..Len(st) /\ Len(st) \in Nat
  OBVIOUS
<1>2. \A i \in DOMAIN st : st[i] \in Frame
  OBVIOUS
<1>3. PromisedIn(st) \in [DOMAIN st -> SUBSET (Events \X Listeners)]
  BY <1>2 DEF PromisedIn, Frame
<1>4. RunningIn(st) \in [DOMAIN st -> Listeners \cup {None}]
  BY <1>2 DEF RunningIn, Frame
<1>5. /\ PromisedIn(st) \in Seq(SUBSET (Events \X Listeners))
      /\ DOMAIN PromisedIn(st) = DOMAIN st
  BY <1>3, MappedSeq
<1>6. /\ RunningIn(st) \in Seq(Listeners \cup {None})
      /\ DOMAIN RunningIn(st) = DOMAIN st
  BY <1>4, MappedSeq
<1>7. ASSUME NEW S, NEW s \in Seq(S), DOMAIN s = 1..Len(st) PROVE Len(s) = Len(st)
  BY <1>1, <1>7, LenProperties
<1> QED
  BY <1>1, <1>5, <1>6, <1>7

\* The innermost emission, seen through the promises and running functions.
LEMMA InnermostView ==
    ASSUME TypeOK
    PROVE  /\ RunningIn(stack) = <<>> <=> stack = <<>>
           /\ stack # <<>> => /\ Last(RunningIn(stack)) = Last(stack).cur
                              /\ Last(PromisedIn(stack)) = Last(stack).owed
<1>1. stack \in Seq(Frame)
  BY DEF TypeOK
<1>2. /\ Len(PromisedIn(stack)) = Len(stack) /\ Len(RunningIn(stack)) = Len(stack)
      /\ RunningIn(stack) \in Seq(Listeners \cup {None})
  BY <1>1, Views
<1>3. RunningIn(stack) = <<>> <=> stack = <<>>
  BY <1>1, <1>2, EmptySeq
<1>4. stack # <<>> => Len(stack) \in DOMAIN stack
  BY <1>1, EmptySeq, LenProperties
<1> QED
  BY <1>2, <1>3, <1>4 DEF Last, PromisedIn, RunningIn

\* Leaving the innermost emission leaves its promise and its function.
LEMMA FrontView ==
    ASSUME TypeOK, stack # <<>>
    PROVE  /\ PromisedIn(Front(stack)) = Front(PromisedIn(stack))
           /\ RunningIn(Front(stack)) = Front(RunningIn(stack))
<1>1. stack \in Seq(Frame) /\ Len(stack) \in Nat \ {0}
  BY EmptySeq, LenProperties DEF TypeOK
<1>2. /\ Len(PromisedIn(stack)) = Len(stack) /\ Len(RunningIn(stack)) = Len(stack)
      /\ DOMAIN stack = 1..Len(stack)
  BY <1>1, Views
<1>3. /\ Front(stack) = [i \in 1..(Len(stack) - 1) |-> stack[i]]
      /\ Front(PromisedIn(stack)) = [i \in 1..(Len(stack) - 1) |-> PromisedIn(stack)[i]]
      /\ Front(RunningIn(stack)) = [i \in 1..(Len(stack) - 1) |-> RunningIn(stack)[i]]
  BY <1>1, <1>2 DEF Front
<1>4. DOMAIN Front(stack) = 1..(Len(stack) - 1) /\ 1..(Len(stack) - 1) \subseteq DOMAIN stack
  BY <1>1, <1>2, <1>3
<1>5. PromisedIn(Front(stack)) = [i \in 1..(Len(stack) - 1) |-> stack[i].owed]
  BY <1>3, <1>4 DEF PromisedIn
<1>6. RunningIn(Front(stack)) = [i \in 1..(Len(stack) - 1) |-> stack[i].cur]
  BY <1>3, <1>4 DEF RunningIn
<1>7. \A i \in 1..(Len(stack) - 1) :
         PromisedIn(stack)[i] = stack[i].owed /\ RunningIn(stack)[i] = stack[i].cur
  BY <1>4 DEF PromisedIn, RunningIn
<1> QED
  BY <1>3, <1>5, <1>6, <1>7

\* A removal detaches its function only, and releases emissions from no more
\* than what it detached.
LEMMA UnregisterView ==
    ASSUME TypeOK, NEW sel \in Selector, NEW f, NEW st, FramesInv(st, listeners),
           Unregister(sel, f, st)
    PROVE  /\ Contract!DetachedOnly(f)
           /\ Contract!Released(PromisedIn(st), PromisedIn(stack'))
           /\ RunningIn(stack') = RunningIn(st)
<1>1. listeners \in [Events -> Seq(Entry)] /\ st \in Seq(Frame)
  BY DEF TypeOK, FramesInv
<1>2. ASSUME NEW e \in Events
      PROVE  /\ \A g : Attached(listeners'[e], g) => Attached(listeners[e], g)
             /\ \A g : Attached(listeners[e], g) /\ g # f => Attached(listeners'[e], g)
  <2>1. listeners'[e] = Removed(listeners[e], f) \/ listeners'[e] = listeners[e]
    BY DEF Unregister
  <2>2. listeners[e] \in Seq(Entry)
    BY <1>1
  <2> QED
    BY <2>1, <2>2, RemovedArray
<1>3. Contract!DetachedOnly(f)
  <2>1. ASSUME NEW p \in AttachedPairs' PROVE p \in AttachedPairs
    BY <1>2 DEF AttachedPairs
  <2>2. ASSUME NEW p \in AttachedPairs \ AttachedPairs' PROVE p \in Events \X {f}
    BY <1>2 DEF AttachedPairs
  <2> QED
    BY <2>1, <2>2 DEF Contract!DetachedOnly
<1>4. /\ stack' = [i \in DOMAIN st |-> Settled(st[i], listeners')]
      /\ \A i \in DOMAIN st : FrameInv(st[i], listeners)
  BY DEF Unregister, FramesInv
<1>5. ASSUME NEW i \in DOMAIN st
      PROVE  /\ stack'[i].owed \subseteq st[i].owed
             /\ st[i].owed \ stack'[i].owed \subseteq AttachedPairs \ AttachedPairs'
             /\ stack'[i].cur = st[i].cur
  <2> DEFINE fr == st[i]
  <2>1. FrameInv(fr, listeners) /\ fr \in Frame
    BY <1>4 DEF FrameInv
  <2>2. /\ stack'[i] = Settled(fr, listeners')
        /\ stack'[i].owed =
             {p \in fr.owed : p[1] \in fr.live => Attached(listeners'[p[1]], p[2])}
        /\ stack'[i].cur = fr.cur
    BY <1>4, <2>1 DEF Settled, Frame
  <2>3. ASSUME NEW p \in fr.owed, p[1] \in fr.live, ~Attached(listeners'[p[1]], p[2])
        PROVE  p \in AttachedPairs \ AttachedPairs'
    <3>1. p \in Events \X Listeners
      BY <2>1 DEF Frame
    <3>2. Attached(listeners[p[1]], p[2])
      BY <2>1, <2>3 DEF FrameInv, Queued
    <3> QED
      BY <2>3, <3>1, <3>2 DEF AttachedPairs
  <2> QED
    BY <2>2, <2>3
<1>6. DOMAIN stack' = DOMAIN st
  BY <1>4
<1>7. Contract!Released(PromisedIn(st), PromisedIn(stack'))
  BY <1>5, <1>6 DEF Contract!Released, PromisedIn
<1>8. RunningIn(stack') = RunningIn(st)
  BY <1>5, <1>6 DEF RunningIn
<1> QED
  BY <1>3, <1>7, <1>8

\* The views of a stack whose innermost frame is replaced.
LEMMA WithTopView ==
    ASSUME TypeOK, stack # <<>>, NEW fr \in Frame
    PROVE  /\ PromisedIn(WithTop(fr)) = [PromisedIn(stack) EXCEPT ![Len(stack)] = fr.owed]
           /\ RunningIn(WithTop(fr)) = [RunningIn(stack) EXCEPT ![Len(stack)] = fr.cur]
<1>1. DOMAIN WithTop(fr) = DOMAIN stack
  BY DEF WithTop
<1>2. \A i \in DOMAIN stack : WithTop(fr)[i] = IF i = Len(stack) THEN fr ELSE stack[i]
  BY DEF WithTop
<1> QED
  BY <1>1, <1>2 DEF PromisedIn, RunningIn

\* The views of a stack with one more frame.
LEMMA AppendView ==
    ASSUME TypeOK, NEW fr \in Frame
    PROVE  /\ PromisedIn(Append(stack, fr)) = Append(PromisedIn(stack), fr.owed)
           /\ RunningIn(Append(stack, fr)) = Append(RunningIn(stack), fr.cur)
<1> DEFINE n == Len(stack)
           st == Append(stack, fr)
<1>1. stack \in Seq(Frame) /\ n \in Nat /\ DOMAIN stack = 1..n
  BY LenProperties DEF TypeOK
<1>2. /\ DOMAIN st = 1..(n + 1)
      /\ st[n + 1] = fr
      /\ \A i \in 1..n : st[i] = stack[i]
  BY <1>1, AppendProperties
<1>3. /\ Len(PromisedIn(stack)) = n /\ Len(RunningIn(stack)) = n
      /\ PromisedIn(stack) \in Seq(SUBSET (Events \X Listeners))
      /\ RunningIn(stack) \in Seq(Listeners \cup {None})
  BY <1>1, Views
<1>4. fr.owed \in SUBSET (Events \X Listeners) /\ fr.cur \in Listeners \cup {None}
  BY DEF Frame
<1>5. /\ DOMAIN Append(PromisedIn(stack), fr.owed) = 1..(n + 1)
      /\ \A i \in 1..n : Append(PromisedIn(stack), fr.owed)[i] = PromisedIn(stack)[i]
      /\ Append(PromisedIn(stack), fr.owed)[n + 1] = fr.owed
      /\ Append(PromisedIn(stack), fr.owed) \in Seq(SUBSET (Events \X Listeners))
  BY <1>3, <1>4, AppendProperties
<1>6. /\ DOMAIN Append(RunningIn(stack), fr.cur) = 1..(n + 1)
      /\ \A i \in 1..n : Append(RunningIn(stack), fr.cur)[i] = RunningIn(stack)[i]
      /\ Append(RunningIn(stack), fr.cur)[n + 1] = fr.cur
      /\ Append(RunningIn(stack), fr.cur) \in Seq(Listeners \cup {None})
  BY <1>3, <1>4, AppendProperties
<1> QED
  BY <1>1, <1>2, <1>5, <1>6 DEF PromisedIn, RunningIn

\* Registering attaches the function to the selected events, and to no other.
LEMMA AttachView ==
    ASSUME TypeOK, ScriptRuns, NEW sel \in Selector, NEW f \in Listeners,
           \A e \in Events : listeners'[e] = listeners[e] \/ e \in getListenersAsObject(sel),
           \A e \in getListenersAsObject(sel), g \in Listeners :
              Attached(listeners'[e], g) <=> Attached(listeners[e], g) \/ g = f,
           UNCHANGED stack
    PROVE  Contract!Attach(getListenersAsObject(sel), f)
<1> DEFINE keys == getListenersAsObject(sel)
<1>1. keys \subseteq Events
  BY SelectorKeys
<1>2. \A e \in Events, g \in Listeners :
         Attached(listeners'[e], g) <=> Attached(listeners[e], g) \/ (e \in keys /\ g = f)
  <2> SUFFICES ASSUME NEW e \in Events, NEW g \in Listeners
               PROVE  Attached(listeners'[e], g)
                         <=> Attached(listeners[e], g) \/ (e \in keys /\ g = f)
    OBVIOUS
  <2>1. CASE e \in keys
    BY <2>1
  <2>2. CASE e \notin keys
    BY <2>2
  <2> QED
    BY <2>1, <2>2
<1> HIDE DEF keys
<1>3. AttachedPairs' = AttachedPairs \cup (keys \X {f})
  BY <1>1, <1>2 DEF AttachedPairs
<1>4. Contract!Script
  BY InnermostView DEF Contract!Script, ScriptRuns, Contract!Last, Last
<1> QED
  BY <1>3, <1>4 DEF Contract!Attach, keys

\* Every step of the emitter is a step of the contract, or leaves it alone.
LEMMA ContractStep == IInv /\ [Next]_vars => [Contract!Next]_(Contract!vars)
<1> SUFFICES ASSUME IInv, [Next]_vars PROVE [Contract!Next]_(Contract!vars)
  OBVIOUS
<1>0. /\ TypeOK /\ FramesInv(stack, listeners)
      /\ ScriptRuns <=> Contract!Script
      /\ LoopRuns <=> Contract!Loop
  <2>1. TypeOK /\ FramesInv(stack, listeners)
    BY IInvFrames DEF IInv
  <2> QED
    BY <2>1, InnermostView DEF ScriptRuns, LoopRuns, Contract!Script, Contract!Loop,
       Contract!Last, Last
<1>1. ASSUME NEW sel \in Selector, NEW f \in Listeners,
             addListener(sel, f) \/ addOnceListener(sel, f)
      PROVE  Contract!Next
  <2>1. getListenersAsObject(sel) \subseteq Events
    BY <1>0, SelectorKeys
  <2>2. \A e \in getListenersAsObject(sel), g \in Listeners :
           Attached(listeners'[e], g) <=> Attached(listeners[e], g) \/ g = f
    <3> SUFFICES ASSUME NEW e \in getListenersAsObject(sel), NEW g \in Listeners
                 PROVE  Attached(listeners'[e], g) <=> Attached(listeners[e], g) \/ g = f
      OBVIOUS
    <3>1. listeners[e] \in Seq(Entry)
      BY <1>0, <2>1 DEF TypeOK
    <3>2. \/ listeners'[e] = Added(listeners[e], f)
          \/ listeners'[e] = AddedOnce(listeners[e], f)
      BY <1>1, <2>1 DEF addListener, addOnceListener
    <3>3. CASE listeners'[e] = Added(listeners[e], f)
      <4>1. Attached(Added(listeners[e], f), g) <=> Attached(listeners[e], g) \/ g = f
        BY <3>1, AddedArray
      <4> QED
        BY <3>3, <4>1
    <3>4. CASE listeners'[e] = AddedOnce(listeners[e], f)
      <4>1. Attached(AddedOnce(listeners[e], f), g) <=> Attached(listeners[e], g) \/ g = f
        BY <3>1, AddedOnceArray
      <4> QED
        BY <3>4, <4>1
    <3> QED
      BY <3>2, <3>3, <3>4
  <2>3. /\ ScriptRuns /\ UNCHANGED stack
        /\ \A e \in Events : listeners'[e] = listeners[e] \/ e \in getListenersAsObject(sel)
    BY <1>1 DEF addListener, addOnceListener
  <2>4. Contract!Attach(getListenersAsObject(sel), f)
    BY <1>0, <2>2, <2>3, AttachView
  <2> QED
    BY <2>1, <2>4 DEF Contract!Next
<1>2. ASSUME NEW sel \in Selector, NEW f \in Listeners, removeListener(sel, f)
      PROVE  Contract!Next
  <2>1. ScriptRuns /\ Unregister(sel, f, stack)
    BY <1>2 DEF removeListener
  <2>2. Contract!Detach(f)
    BY <1>0, <2>1, UnregisterView DEF Contract!Detach
  <2> QED
    BY <2>2 DEF Contract!Next
<1>3. ASSUME NEW e \in Events, defineEvent(e) PROVE UNCHANGED Contract!vars
  BY <1>3 DEF defineEvent, Contract!vars, AttachedPairs, PromisedIn, RunningIn
<1>4. ASSUME NEW v \in Values, setOnceReturnValue(v) PROVE UNCHANGED Contract!vars
  BY <1>4 DEF setOnceReturnValue, Contract!vars, AttachedPairs, PromisedIn, RunningIn
<1>5. ASSUME NEW keys \in SUBSET Events, removeEvent(keys) PROVE Contract!Next
  <2>1. /\ ScriptRuns
        /\ stack' = [i \in DOMAIN stack |-> Detached(stack[i], keys)]
        /\ \A e \in Events :
              listeners'[e] = IF e \in keys THEN <<>> ELSE listeners[e]
    BY <1>5 DEF removeEvent
  <2>2. \A g : ~Attached(<<>>, g)
    BY DEF Attached
  <2>3. AttachedPairs' = AttachedPairs \ (keys \X Listeners)
    BY <2>1, <2>2 DEF AttachedPairs
  <2>4. \A i \in DOMAIN stack :
           stack'[i].owed = stack[i].owed /\ stack'[i].cur = stack[i].cur
    BY <1>0, <2>1 DEF FramesInv, FrameInv, Frame, Detached
  <2>5. UNCHANGED <<PromisedIn(stack), RunningIn(stack)>>
    BY <2>1, <2>4 DEF PromisedIn, RunningIn
  <2>6. Contract!DropEvents(keys)
    BY <1>0, <2>1, <2>3, <2>5 DEF Contract!DropEvents
  <2> QED
    BY <2>6 DEF Contract!Next
<1>6. ASSUME NEW sel \in Selector, emitEvent(sel) PROVE Contract!Next
  <2> DEFINE fr == NewFrame(sel)
             keys == getListenersAsObject(sel)
  <2>1. keys \subseteq Events
    BY <1>0, SelectorKeys
  <2>2. fr \in Frame /\ fr.cur = None
    BY <1>0, FreshFrame DEF FrameInv, NewFrame, TypeOK
  <2>3. fr.owed = AttachedPairs \cap (keys \X Listeners)
    BY <2>1 DEF NewFrame, AttachedPairs
  <2>4. ScriptRuns /\ stack' = Append(stack, fr) /\ UNCHANGED listeners
    BY <1>6 DEF emitEvent
  <2>5. /\ PromisedIn(stack') = Append(PromisedIn(stack), fr.owed)
        /\ RunningIn(stack') = Append(RunningIn(stack), None)
    BY <1>0, <2>2, <2>4, AppendView
  <2>6. AttachedPairs' = AttachedPairs
    BY <2>4 DEF AttachedPairs
  <2> HIDE DEF fr, keys
  <2>7. Contract!Begin(keys)
    BY <1>0, <2>3, <2>4, <2>5, <2>6 DEF Contract!Begin
  <2> QED
    BY <2>1, <2>7 DEF Contract!Next
<1>7. ASSUME NEW e \in Events, NextKey(e) PROVE UNCHANGED Contract!vars
  <2> DEFINE fr == Last(stack)
             r == [fr EXCEPT !.key = e, !.snap = Snapshot(fr, e),
                             !.live = @ \ {e}, !.detached = @ \ {e},
                             !.old[e] = <<>>]
  <2>1. stack # <<>> /\ fr.snap = <<>> /\ e \in Pending(fr) /\ stack' = WithTop(r)
    BY <1>7 DEF NextKey, LoopRuns
  <2>2. FrameInv(fr, listeners)
    BY <2>1, TopFrame
  <2>3. FrameInv(r, listeners)
    BY <1>0, <2>1, <2>2, NextKeyFrame DEF TypeOK
  <2>4. r \in Frame /\ r.owed = fr.owed /\ r.cur = fr.cur
    BY <2>2, <2>3 DEF FrameInv, Frame
  <2> HIDE DEF r
  <2>5. \A i \in DOMAIN stack : stack'[i].owed = stack[i].owed /\ stack'[i].cur = stack[i].cur
    BY <2>1, <2>4 DEF WithTop, Last
  <2>6. DOMAIN stack' = DOMAIN stack /\ UNCHANGED listeners
    BY <1>7, <2>1 DEF WithTop, NextKey
  <2> QED
    BY <2>5, <2>6 DEF Contract!vars, AttachedPairs, PromisedIn, RunningIn
<1>8. CASE CallListener
  <2> DEFINE fr == Last(stack)
             f == Last(fr.snap).listener
             c == Calling(fr)
  <2>1. stack # <<>> /\ fr.snap # <<>> /\ LoopRuns
    BY <1>8 DEF CallListener, LoopRuns
  <2>2. FrameInv(fr, listeners) /\ fr \in Frame /\ fr.sel \in Selector
    BY <2>1, TopFrame DEF FrameInv, Frame
  <2>3. fr.key \in Events
    BY <2>1, <2>2 DEF FrameInv, Frame
  <2>4. FrameInv(c, listeners) /\ c \in Frame
    BY <2>1, <2>2, CallingFrame DEF FrameInv
  <2>5. c.cur = f /\ c.owed = fr.owed \ {<<fr.key, f>>} /\ f \in Listeners
    <3>1. f \in Listeners
      <4>1. fr.snap \in Seq(Entry)
        BY <2>2 DEF Frame
      <4>2. Len(fr.snap) \in Nat /\ Len(fr.snap) # 0
        BY <2>1, <4>1, EmptySeq, LenProperties
      <4>3. fr.snap[Len(fr.snap)] \in Entry
        BY <4>1, <4>2, ElementOfSeq
      <4> QED
        BY <4>3 DEF Entry, Last
    <3> QED
      BY <2>2, <3>1 DEF Calling, Frame
  <2> HIDE DEF c, f
  <2>6. FramesInv(WithTop(c), listeners)
    BY <2>1, <2>4, TopFrame
  <2>7. Len(stack) \in DOMAIN stack /\ PromisedIn(stack)[Len(stack)] = fr.owed
    BY <2>1, TopFrame DEF PromisedIn, Last
  <2>8. Len(RunningIn(stack)) = Len(stack) /\ Len(PromisedIn(stack)) = Len(stack)
    BY <1>0, Views DEF TypeOK
  <2>9. /\ PromisedIn(WithTop(c)) = [PromisedIn(stack) EXCEPT
              ![Len(PromisedIn(stack))] = @ \ {<<fr.key, f>>}]
        /\ RunningIn(WithTop(c)) = [RunningIn(stack) EXCEPT ![Len(RunningIn(stack))] = f]
    BY <1>0, <2>1, <2>4, <2>5, <2>7, <2>8, WithTopView
  <2>10. CASE Last(fr.snap).once
    <3>1. Unregister(fr.sel, f, WithTop(c))
      BY <1>8, <2>10 DEF CallListener, f, c
    <3>2. /\ Contract!DetachedOnly(f)
          /\ Contract!Released(PromisedIn(WithTop(c)), PromisedIn(stack'))
          /\ RunningIn(stack') = RunningIn(WithTop(c))
      BY <1>0, <2>2, <2>6, <3>1, UnregisterView
    <3>3. Contract!Execute(fr.key, f)
      BY <1>0, <2>1, <2>9, <3>2 DEF Contract!Execute, Contract!Now
    <3> QED
      BY <2>3, <2>5, <3>3 DEF Contract!Next
  <2>11. CASE ~Last(fr.snap).once
    <3>1. stack' = WithTop(c) /\ UNCHANGED listeners
      BY <1>8, <2>11 DEF CallListener, c
    <3>2. AttachedPairs' = AttachedPairs
      BY <3>1 DEF AttachedPairs
    <3>3. /\ Contract!DetachedOnly(f)
          /\ Contract!Released(PromisedIn(WithTop(c)), PromisedIn(WithTop(c)))
      BY <3>2 DEF Contract!DetachedOnly, Contract!Released
    <3>4. Contract!Execute(fr.key, f)
      BY <1>0, <2>1, <2>9, <3>1, <3>3 DEF Contract!Execute, Contract!Now
    <3> QED
      BY <2>3, <2>5, <3>4 DEF Contract!Next
  <2> QED
    BY <2>10, <2>11
<1>9. ASSUME NEW v \in Values, ListenerReturns(v) PROVE Contract!Next
  <2> DEFINE fr == Last(stack)
             f == fr.cur
             top == [fr EXCEPT !.cur = None]
  <2>1. stack # <<>> /\ fr.cur # None
    BY <1>9 DEF ListenerReturns
  <2>2. FrameInv(fr, listeners) /\ fr \in Frame /\ fr.sel \in Selector
    BY <2>1, TopFrame DEF FrameInv, Frame
  <2>3. FrameInv(top, listeners) /\ top \in Frame /\ top.owed = fr.owed /\ top.cur = None
    BY <2>2 DEF FrameInv, Queued, Frame
  <2> HIDE DEF top
  <2>4. FramesInv(WithTop(top), listeners)
    BY <2>1, <2>3, TopFrame
  <2>5. Contract!Script /\ RunningIn(stack) # <<>> /\ Contract!Last(RunningIn(stack)) = f
    BY <1>0, <2>1, InnermostView DEF ScriptRuns, Contract!Last, Last
  <2>6. Len(RunningIn(stack)) = Len(stack)
    BY <1>0, Views DEF TypeOK
  <2>7. Len(stack) \in DOMAIN stack /\ PromisedIn(stack)[Len(stack)] = fr.owed
    BY <2>1, TopFrame DEF PromisedIn, Last
  <2>8. /\ PromisedIn(WithTop(top)) = PromisedIn(stack)
        /\ RunningIn(WithTop(top)) = [RunningIn(stack) EXCEPT ![Len(RunningIn(stack))] = None]
    <3>1. PromisedIn(WithTop(top)) = [PromisedIn(stack) EXCEPT ![Len(stack)] = fr.owed]
      BY <1>0, <2>1, <2>3, WithTopView
    <3> QED
      BY <1>0, <2>1, <2>3, <2>6, <2>7, <3>1, WithTopView DEF PromisedIn
  <2>9. CASE v = onceReturn
    <3>1. Unregister(fr.sel, f, WithTop(top))
      BY <1>9, <2>9 DEF ListenerReturns, top
    <3>2. /\ Contract!DetachedOnly(f)
          /\ Contract!Released(PromisedIn(stack), PromisedIn(stack'))
          /\ RunningIn(stack') = RunningIn(WithTop(top))
      BY <1>0, <2>2, <2>4, <2>8, <3>1, UnregisterView
    <3>3. Contract!Return
      BY <2>5, <2>8, <3>2 DEF Contract!Return, Contract!Now
    <3> QED
      BY <3>3 DEF Contract!Next
  <2>10. CASE v # onceReturn
    <3>1. stack' = WithTop(top) /\ UNCHANGED listeners
      BY <1>9, <2>10 DEF ListenerReturns, top
    <3>2. AttachedPairs' = AttachedPairs
      BY <3>1 DEF AttachedPairs
    <3>3. /\ Contract!DetachedOnly(f)
          /\ Contract!Released(PromisedIn(stack), PromisedIn(stack))
      BY <3>2 DEF Contract!DetachedOnly, Contract!Released
    <3>4. Contract!Return
      BY <2>5, <2>8, <3>1, <3>3 DEF Contract!Return, Contract!Now
    <3> QED
      BY <3>4 DEF Contract!Next
  <2> QED
    BY <2>9, <2>10
<1>10. CASE ListenerThrows \/ EmitReturns
  <2>1. stack # <<>> /\ stack' = Front(stack) /\ UNCHANGED listeners
    BY <1>10 DEF ListenerThrows, EmitReturns
  <2>2. /\ PromisedIn(stack') = Contract!Front(PromisedIn(stack))
        /\ RunningIn(stack') = Contract!Front(RunningIn(stack))
    BY <1>0, <2>1, FrontView DEF Contract!Front, Front
  <2>3. AttachedPairs' = AttachedPairs
    BY <2>1 DEF AttachedPairs
  <2>4. RunningIn(stack) # <<>>
    BY <1>0, <2>1, InnermostView
  <2>5. CASE ListenerThrows
    <3>1. Contract!Script
      BY <1>0, <2>5 DEF ListenerThrows, ScriptRuns
    <3>2. Contract!Abandon
      BY <2>2, <2>3, <2>4, <3>1 DEF Contract!Abandon
    <3> QED
      BY <3>2 DEF Contract!Next
  <2>6. CASE EmitReturns
    <3>1. LoopEnds(Last(stack)) /\ LoopRuns
      BY <2>1, <2>6 DEF EmitReturns, LoopEnds, LoopRuns
    <3>2. Last(stack).owed = {}
      <4>1. FrameInv(Last(stack), listeners)
        BY <2>1, TopFrame
      <4>2. \A g : ~Attached(<<>>, g)
        BY DEF Attached
      <4> QED
        BY <3>1, <4>1, <4>2 DEF FrameInv, Queued, LoopEnds, Pending
    <3>3. Contract!Last(PromisedIn(stack)) = {}
      BY <1>0, <2>1, <3>2, InnermostView DEF Contract!Last, Last
    <3>4. Contract!End
      BY <1>0, <2>2, <2>3, <3>1, <3>3 DEF Contract!End
    <3> QED
      BY <3>4 DEF Contract!Next
  <2> QED
    BY <1>10, <2>5, <2>6
<1>11. CASE UNCHANGED vars
  BY <1>11 DEF vars, Contract!vars, AttachedPairs, PromisedIn, RunningIn
<1>12. ASSUME NEW sel \in Selector PROVE sel.keys \in SUBSET Events
  BY <1>0, SelectorKeys
<1>13. CASE ScriptStep
  BY <1>13, <1>1, <1>2, <1>3, <1>4, <1>5, <1>6, <1>12 DEF ScriptStep
<1>14. CASE LoopStep \/ ListenerEnds
  BY <1>14, <1>7, <1>8, <1>9, <1>10 DEF LoopStep, ListenerEnds
<1> QED
  BY <1>11, <1>13, <1>14 DEF Next

\* The emitter implements its contract: for any events, listeners, regular
\* expressions and depth of nesting, what it does to registrations is what the
\* call says, and an emission is released from a listener only by executing it,
\* by that listener's removal, or by an exception that ends it.
THEOREM ContractKept == Spec => KeepsContract
<1>1. Init => Contract!Init
  <2> SUFFICES ASSUME Init PROVE Contract!Init
    OBVIOUS
  <2>1. \A e \in Events : listeners[e] = <<>>
    BY DEF Init
  <2>2. \A g : ~Attached(<<>>, g)
    BY DEF Attached
  <2>3. AttachedPairs = {}
    BY <2>1, <2>2 DEF AttachedPairs
  <2>4. PromisedIn(stack) = <<>> /\ RunningIn(stack) = <<>>
    BY DEF Init, PromisedIn, RunningIn
  <2> QED
    BY <2>3, <2>4 DEF Contract!Init
<1> QED
  BY <1>1, ContractStep, InvariantHolds, PTL DEF Spec, KeepsContract, Contract!Spec
===========================================================================
