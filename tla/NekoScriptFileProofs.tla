----------------------- MODULE NekoScriptFileProofs -----------------------
(***************************************************************************)
(* Proofs about the files of NekoScript: any names, texts and changes by    *)
(* other processes, at any moment of an operation.                          *)
(***************************************************************************)
EXTENDS NekoScriptCallProofs, WellFoundedInduction

---------------------------------------------------------------------------
(* Bytes *)

File == Seq(Bytes)

Content == File \cup {Absent, Directory}

LEMMA Apart ==
    /\ Absent \notin File /\ Directory \notin File /\ None \notin File
    /\ Texts \subseteq File /\ None \notin Texts
    /\ \A t \in Texts : t # Absent /\ t # Directory
BY ConstantsAssumption DEF File

\* Read into a buffer of its own length, a file is delivered as it is.
LEMMA DeliveredWhole ==
    ASSUME NEW bytes \in File
    PROVE  FS!Delivered("read", bytes, Len(bytes)) = bytes
<1> DEFINE n == Len(bytes)
<1>1. bytes = [i \in 1..n |-> bytes[i]] /\ n \in Nat
  BY DEF File
<1>2. FS!Delivered("read", bytes, n) = [i \in 1..n |-> IF i <= n THEN bytes[i] ELSE "nul"]
  BY DEF FS!Delivered, FS!Padded
<1>3. \A i \in 1..n : i <= n
  BY <1>1
<1> QED
  BY <1>1, <1>2, <1>3

\* A part of a text is written.
LEMMA Part ==
    ASSUME NEW s \in File, NEW a \in Int, NEW k \in Int, 1 <= a, k <= Len(s)
    PROVE  SubSeq(s, a, k) \in File
<1>1. \A i \in a..k : s[i] \in Bytes
  BY DEF File
<1> QED
  BY <1>1, SubSeqProperties DEF File

LEMMA WholePart ==
    ASSUME NEW s \in File
    PROVE  SubSeq(s, 1, Len(s)) = s
BY SubSeqFull DEF File

LEMMA OverlaidFile ==
    ASSUME NEW old \in File, NEW new \in File
    PROVE  /\ FS!Overlaid(old, new) \in File
           /\ old = <<>> => FS!Overlaid(old, new) = new
<1>1. Len(new) \in Nat /\ Len(old) \in Nat /\ old \in Seq(Bytes) /\ new \in Seq(Bytes)
  BY DEF File
<1> DEFINE rest == SubSeq(old, Len(new) + 1, Len(old))
<1>2. rest \in File
  BY <1>1, Part
<1>3. old = <<>> => rest = <<>>
  <2> SUFFICES ASSUME old = <<>> PROVE rest = <<>>
    OBVIOUS
  <2>1. Len(old) < Len(new) + 1
    BY <1>1
  <2> QED
    BY <1>1, <2>1, SubSeqEmpty
<1>4. FS!Overlaid(old, new) = new \o rest
  BY DEF FS!Overlaid
<1> HIDE DEF rest
<1>5. new \o rest \in Seq(Bytes)
  BY <1>1, <1>2, ConcatProperties DEF File
<1>6. new \o <<>> = new
  BY <1>1, ConcatEmptySeq
<1> QED
  BY <1>3, <1>4, <1>5, <1>6 DEF File

---------------------------------------------------------------------------
(* What a stream in text mode delivers *)

\* A set with 0 and the successor of each of its members below n has 0..n.
LEMMA UpToInduction ==
    ASSUME NEW n \in Nat, NEW S, 0 \in S,
           \A k \in 0..n : k \in S /\ k < n => k + 1 \in S
    PROVE  0..n \subseteq S
<1> DEFINE T == (0..n) \ S
<1> SUFFICES ASSUME T # {} PROVE FALSE
  OBVIOUS
<1>1. PICK t \in T : \A u \in T : ~(<<u, t>> \in OpToRel(<, Nat))
  <2>1. T \subseteq Nat
    OBVIOUS
  <2> HIDE DEF T
  <2> QED
    BY <2>1, NatLessThanWellFounded, WFMin
<1>2. t \in Nat /\ t # 0 /\ t <= n
  OBVIOUS
<1>3. t - 1 \in 0..n /\ t - 1 < n /\ (t - 1) + 1 = t
  BY <1>2
<1>4. t - 1 \notin T
  <2>1. t - 1 < t /\ t - 1 \in Nat
    BY <1>2
  <2> QED
    BY <1>1, <1>2, <2>1 DEF OpToRel
<1> QED
  BY <1>3, <1>4

KeptStep(f, bytes, places, n) ==
    f[n] = IF n \in places THEN Append(f[n - 1], bytes[n]) ELSE f[n - 1]

\* Kept runs through a sequence from its beginning.
LEMMA KeptSteps ==
    ASSUME NEW bytes \in File, NEW places
    PROVE  \E f : /\ f[0] = <<>>
                  /\ \A n \in 1..Len(bytes) : KeptStep(f, bytes, places, n)
                  /\ FS!Kept(bytes, places) = f[Len(bytes)]
<1> DEFINE N == Len(bytes)
           Rec(g, k) == [n \in 0..k |->
               IF n = 0 THEN <<>>
               ELSE IF n \in places THEN Append(g[n - 1], bytes[n]) ELSE g[n - 1]]
           S == {k \in 0..N : \E g : g = Rec(g, k)}
           f == CHOOSE g : g = Rec(g, N)
<1>1. N \in Nat
  BY DEF File
<1>2. 0 \in S
  <2> DEFINE g == [n \in 0..0 |-> <<>>]
  <2>1. g = Rec(g, 0)
    OBVIOUS
  <2>2. 0 \in 0..N
    BY <1>1
  <2> HIDE DEF g
  <2>3. \E h : h = Rec(h, 0)
    BY <2>1
  <2> QED
    BY <2>2, <2>3
<1>3. ASSUME NEW k \in 0..N, k \in S, k < N PROVE k + 1 \in S
  <2>1. PICK g : g = Rec(g, k)
    BY <1>3
  <2> DEFINE last == IF k + 1 \in places THEN Append(g[k], bytes[k + 1]) ELSE g[k]
             h == [n \in 0..(k + 1) |-> IF n = k + 1 THEN last ELSE g[n]]
  <2> HIDE DEF N
  <2>2. ASSUME NEW n \in 0..(k + 1)
        PROVE  h[n] = IF n = 0 THEN <<>>
                      ELSE IF n \in places THEN Append(h[n - 1], bytes[n]) ELSE h[n - 1]
    <3>1. CASE n = k + 1
      <4>1. h[n] = last /\ h[k] = g[k] /\ n - 1 = k /\ n # 0
        BY <3>1
      <4> QED
        BY <3>1, <4>1
    <3>2. CASE n # k + 1
      <4>1. n \in 0..k /\ h[n] = g[n]
        BY <3>2
      <4>2. g[n] = IF n = 0 THEN <<>>
                   ELSE IF n \in places THEN Append(g[n - 1], bytes[n]) ELSE g[n - 1]
        BY <2>1, <4>1
      <4>3. n # 0 => h[n - 1] = g[n - 1]
        BY <4>1
      <4> QED
        BY <4>1, <4>2, <4>3
    <3> QED
      BY <3>1, <3>2
  <2>3. h = Rec(h, k + 1)
    BY <2>2
  <2> HIDE DEF h
  <2>4. k + 1 \in 0..N
    BY <1>1, <1>3
  <2> QED
    BY <2>3, <2>4
<1>4. N \in S
  <2> HIDE DEF S, N
  <2>1. \A k \in 0..N : k \in S /\ k < N => k + 1 \in S
    BY <1>3
  <2>2. 0..N \subseteq S
    BY <1>1, <1>2, <2>1, UpToInduction
  <2> QED
    BY <1>1, <2>2
<1>5. f = Rec(f, N)
  BY <1>4
<1>6. FS!Kept(bytes, places) = f[N]
  BY DEF FS!Kept
<1> HIDE DEF f, N
<1>7. \A n \in 0..N : f[n] = IF n = 0 THEN <<>>
                             ELSE IF n \in places THEN Append(f[n - 1], bytes[n]) ELSE f[n - 1]
  BY <1>5
<1>8. f[0] = <<>> /\ \A n \in 1..N : KeptStep(f, bytes, places, n)
  <2>1. 0 \in 0..N /\ \A n \in 1..N : n \in 0..N /\ n # 0
    BY <1>1
  <2> HIDE DEF Rec
  <2> QED
    BY <1>7, <2>1 DEF KeptStep
<1> QED
  BY <1>6, <1>8 DEF N

\* Whatever runs through the sequence in the same way ends at the same place.
LEMMA KeptUnique ==
    ASSUME NEW bytes \in File, NEW places, NEW g, g[0] = <<>>,
           \A n \in 1..Len(bytes) : KeptStep(g, bytes, places, n)
    PROVE  FS!Kept(bytes, places) = g[Len(bytes)]
<1>1. PICK f : /\ f[0] = <<>>
               /\ \A n \in 1..Len(bytes) : KeptStep(f, bytes, places, n)
               /\ FS!Kept(bytes, places) = f[Len(bytes)]
  BY KeptSteps
<1> DEFINE N == Len(bytes)
           S == {n \in 0..N : f[n] = g[n]}
<1>2. N \in Nat
  BY DEF File
<1>3. 0 \in S
  BY <1>1, <1>2
<1>4. ASSUME NEW k \in 0..N, k \in S, k < N PROVE k + 1 \in S
  <2>1. k + 1 \in 1..N /\ (k + 1) - 1 = k
    BY <1>2, <1>4
  <2>2. KeptStep(f, bytes, places, k + 1) /\ KeptStep(g, bytes, places, k + 1)
    BY <1>1, <2>1
  <2>3. f[k] = g[k]
    BY <1>4
  <2> HIDE DEF S
  <2>4. f[k + 1] = g[k + 1]
    BY <2>1, <2>2, <2>3 DEF KeptStep
  <2>5. k + 1 \in 0..N
    BY <1>2, <2>1
  <2> QED
    BY <2>4, <2>5 DEF S
<1> HIDE DEF S
<1>5. 0..N \subseteq S
  BY <1>2, <1>3, <1>4, UpToInduction
<1>6. f[N] = g[N]
  BY <1>2, <1>5 DEF S
<1> QED
  BY <1>1, <1>6

\* What is kept of a file is a file.
LEMMA KeptFile ==
    ASSUME NEW bytes \in File, NEW places
    PROVE  FS!Kept(bytes, places) \in File /\ Len(FS!Kept(bytes, places)) <= Len(bytes)
<1>1. PICK f : /\ f[0] = <<>>
               /\ \A n \in 1..Len(bytes) : KeptStep(f, bytes, places, n)
               /\ FS!Kept(bytes, places) = f[Len(bytes)]
  BY KeptSteps
<1> DEFINE N == Len(bytes)
           S == {n \in 0..N : f[n] \in Seq(Bytes) /\ Len(f[n]) <= n}
<1>2. N \in Nat /\ \A n \in 1..N : bytes[n] \in Bytes
  BY DEF File
<1>3. 0 \in S
  <2>1. f[0] = <<>> /\ 0 \in 0..N
    BY <1>1, <1>2
  <2>2. f[0] \in Seq(Bytes) /\ Len(f[0]) = 0
    BY <2>1
  <2>3. Len(f[0]) <= 0
    BY <2>2
  <2> QED
    BY <2>1, <2>2, <2>3
<1>4. ASSUME NEW k \in 0..N, k \in S, k < N PROVE k + 1 \in S
  <2>1. k + 1 \in 1..N /\ (k + 1) - 1 = k /\ k + 1 \in 0..N
    BY <1>2, <1>4
  <2>2. KeptStep(f, bytes, places, k + 1)
    BY <1>1, <2>1
  <2>3. bytes[k + 1] \in Bytes /\ f[k] \in Seq(Bytes) /\ Len(f[k]) <= k
    BY <1>2, <1>4, <2>1
  <2>4. f[k + 1] = f[k] \/ f[k + 1] = Append(f[k], bytes[k + 1])
    BY <2>1, <2>2 DEF KeptStep
  <2>5. /\ Append(f[k], bytes[k + 1]) \in Seq(Bytes)
        /\ Len(Append(f[k], bytes[k + 1])) = Len(f[k]) + 1
    BY <2>3, AppendProperties
  <2>6. Len(f[k]) \in Nat /\ k \in Nat
    BY <1>2, <2>3
  <2> HIDE DEF S, N
  <2>7. f[k + 1] \in Seq(Bytes)
    BY <2>3, <2>4, <2>5
  <2>8. Len(f[k + 1]) = Len(f[k]) \/ Len(f[k + 1]) = Len(f[k]) + 1
    BY <2>4, <2>5
  <2>9. Len(f[k + 1]) <= k + 1
    BY <2>3, <2>6, <2>8
  <2> QED
    BY <2>1, <2>7, <2>9 DEF S
<1> HIDE DEF S
<1>5. 0..N \subseteq S
  BY <1>2, <1>3, <1>4, UpToInduction
<1>6. f[N] \in Seq(Bytes) /\ Len(f[N]) <= N
  BY <1>2, <1>5 DEF S
<1> QED
  BY <1>1, <1>6 DEF File

\* The first n bytes are those before the first stop.
Before(bytes, stop, n) ==
    /\ \A i \in 1..n : bytes[i] # stop
    /\ n < Len(bytes) => bytes[n + 1] = stop

LEMMA BeforeExists ==
    ASSUME NEW bytes \in File, NEW stop
    PROVE  \E n \in 0..Len(bytes) : Before(bytes, stop, n)
<1> DEFINE N == Len(bytes)
           S == {n \in 0..N : \A i \in 1..n : bytes[i] # stop}
<1>1. N \in Nat
  BY DEF File
<1>2. 0 \in S
  BY <1>1
<1>3. CASE \A k \in 0..N : k \in S /\ k < N => k + 1 \in S
  <2>1. N \in S
    <3> HIDE DEF S
    <3>1. 0..N \subseteq S
      BY <1>1, <1>2, <1>3, UpToInduction
    <3> QED
      BY <1>1, <3>1
  <2> QED
    BY <1>1, <2>1 DEF Before
<1>4. CASE ~(\A k \in 0..N : k \in S /\ k < N => k + 1 \in S)
  <2>1. PICK k \in 0..N : k \in S /\ k < N /\ k + 1 \notin S
    BY <1>4
  <2>2. k + 1 \in 0..N /\ \A i \in 1..(k + 1) : i = k + 1 \/ i \in 1..k
    BY <1>1, <2>1
  <2>3. bytes[k + 1] = stop
    BY <2>1, <2>2
  <2> QED
    BY <2>1, <2>3 DEF Before
<1> QED
  BY <1>3, <1>4

LEMMA UpToBefore ==
    ASSUME NEW bytes \in File, NEW stop, NEW n \in 0..Len(bytes), Before(bytes, stop, n)
    PROVE  FS!UpTo(bytes, stop) = SubSeq(bytes, 1, n)
<1> DEFINE I == {i \in 1..Len(bytes) : bytes[i] = stop}
           first == IF I # {} THEN FS!Min(I) ELSE 0
<1>1. FS!UpTo(bytes, stop) = IF first = 0 THEN bytes ELSE SubSeq(bytes, 1, first - 1)
  BY DEF FS!UpTo, FS!SelectInSeq
<1>2. Len(bytes) \in Nat /\ n \in Nat /\ n <= Len(bytes)
  BY DEF File
<1>3. CASE n = Len(bytes)
  <2>1. I = {}
    BY <1>3 DEF Before
  <2> QED
    BY <1>1, <1>3, <2>1, WholePart
<1>4. CASE n # Len(bytes)
  <2>1. n + 1 \in I /\ \A i \in I : n + 1 <= i
    BY <1>2, <1>4 DEF Before
  <2>2. I \subseteq Int
    OBVIOUS
  <2>3. FS!Min(I) = CHOOSE x \in I : \A y \in I : x <= y
    BY DEF FS!Min
  <2> HIDE DEF I
  <2>4. \A x \in I : (\A y \in I : x <= y) => x = n + 1
    BY <1>2, <2>1, <2>2
  <2>5. FS!Min(I) = n + 1
    BY <2>1, <2>3, <2>4
  <2>6. first = n + 1 /\ first # 0 /\ first - 1 = n
    BY <1>2, <2>1, <2>5
  <2> QED
    BY <1>1, <2>6
<1> QED
  BY <1>3, <1>4

\* What comes before a stop is a part of the file without it.
LEMMA UpToFile ==
    ASSUME NEW bytes \in File, NEW stop
    PROVE  FS!UpTo(bytes, stop) \in File /\ Len(FS!UpTo(bytes, stop)) <= Len(bytes)
<1>1. PICK n \in 0..Len(bytes) : Before(bytes, stop, n)
  BY BeforeExists
<1>2. FS!UpTo(bytes, stop) = SubSeq(bytes, 1, n)
  BY <1>1, UpToBefore
<1>3. Len(bytes) \in Nat /\ bytes \in Seq(Bytes)
  BY DEF File
<1>4. SubSeq(bytes, 1, n) \in File
  BY <1>3, Part
<1>5. Len(SubSeq(bytes, 1, n)) <= Len(bytes)
  BY <1>3
<1> QED
  BY <1>2, <1>4, <1>5

LEMMA PaddedFile ==
    ASSUME NEW bytes \in File, NEW size \in Nat, NEW pad \in Bytes
    PROVE  FS!Padded(bytes, size, pad) \in File /\ Len(FS!Padded(bytes, size, pad)) = size
<1>1. \A i \in 1..Len(bytes) : bytes[i] \in Bytes
  BY DEF File
<1>2. Len(bytes) \in Nat
  BY DEF File
<1>3. \A i \in 1..size : (IF i <= Len(bytes) THEN bytes[i] ELSE pad) \in Bytes
  BY <1>1, <1>2
<1>4. FS!Padded(bytes, size, pad) \in [1..size -> Bytes]
  BY <1>3 DEF FS!Padded
<1> QED
  BY <1>4, IsASeq, LenProperties DEF File

LEMMA TextModeFile ==
    ASSUME NEW bytes \in File
    PROVE  FS!TextMode(bytes) \in File /\ Len(FS!TextMode(bytes)) <= Len(bytes)
<1>1. /\ FS!UpTo(bytes, "sub") \in File
      /\ Len(FS!UpTo(bytes, "sub")) <= Len(bytes)
  BY UpToFile
<1> DEFINE text == FS!UpTo(bytes, "sub")
           places == {i \in DOMAIN text :
                         ~(text[i] = "cr" /\ i < Len(text) /\ text[i + 1] = "lf")}
<1>2. FS!TextMode(bytes) = FS!Kept(text, places)
  BY DEF FS!TextMode
<1> HIDE DEF text, places
<1>3. text \in File /\ Len(text) <= Len(bytes)
  BY <1>1 DEF text
<1>4. FS!Kept(text, places) \in File /\ Len(FS!Kept(text, places)) <= Len(text)
  BY <1>3, KeptFile
<1>5. Len(text) \in Nat /\ Len(bytes) \in Nat /\ Len(FS!Kept(text, places)) \in Nat
  BY <1>3, <1>4 DEF File
<1> QED
  BY <1>2, <1>3, <1>4, <1>5

\* Scripts are given bytes, whatever file is there when the bytes are read.
LEMMA DeliveredFile ==
    ASSUME NEW kind, NEW bytes \in File, NEW size \in Nat
    PROVE  FS!Delivered(kind, bytes, size) \in File
<1>1. "nul" \in Bytes /\ "sp" \in Bytes
  BY DEF Bytes
<1>2. FS!Padded(bytes, size, "nul") \in File
  BY <1>1, PaddedFile
<1>3. FS!Padded(FS!TextMode(bytes), size, "sp") \in File
  BY <1>1, PaddedFile, TextModeFile
<1>4. FS!UpTo(FS!Padded(FS!TextMode(bytes), size, "sp"), "nul") \in File
  BY <1>3, UpToFile
<1> QED
  BY <1>2, <1>4 DEF FS!Delivered

---------------------------------------------------------------------------
(* A source without its line ends *)

LEMMA NoReturns == WithoutReturns(<<>>) = <<>>
<1> DEFINE s == <<>>
           places == {i \in DOMAIN s : s[i] # "cr"}
           g == [n \in {0} |-> <<>>]
<1>1. s \in File /\ Len(s) = 0
  BY DEF File
<1>2. WithoutReturns(s) = FS!Kept(s, places)
  BY DEF WithoutReturns
<1>3. g[0] = <<>>
  OBVIOUS
<1> HIDE DEF g, places
<1>4. FS!Kept(s, places) = g[Len(s)]
  <2>1. \A n \in 1..Len(s) : KeptStep(g, s, places, n)
    BY <1>1
  <2> HIDE DEF s
  <2> QED
    BY <1>1, <1>3, <2>1, KeptUnique
<1> QED
  BY <1>1, <1>2, <1>3, <1>4

LEMMA AppendedByte ==
    ASSUME NEW bytes \in File, NEW x \in Bytes
    PROVE  /\ Append(bytes, x) \in File
           /\ WithoutReturns(Append(bytes, x)) =
                 IF x = "cr" THEN WithoutReturns(bytes) ELSE Append(WithoutReturns(bytes), x)
<1> DEFINE longer == Append(bytes, x)
           N == Len(bytes)
           places == {i \in DOMAIN bytes : bytes[i] # "cr"}
           more == {i \in DOMAIN longer : longer[i] # "cr"}
<1>1. N \in Nat /\ bytes \in Seq(Bytes) /\ DOMAIN bytes = 1..N
  BY DEF File
<1>2. /\ longer \in File /\ Len(longer) = N + 1 /\ DOMAIN longer = 1..(N + 1)
      /\ \A i \in 1..N : longer[i] = bytes[i]
      /\ longer[N + 1] = x
  BY <1>1, AppendProperties DEF File
<1>3. /\ WithoutReturns(bytes) = FS!Kept(bytes, places)
      /\ WithoutReturns(longer) = FS!Kept(longer, more)
  BY DEF WithoutReturns
<1>4. \A i \in 1..N : i \in places <=> i \in more
  BY <1>1, <1>2
<1>5. N + 1 \in more <=> x # "cr"
  BY <1>1, <1>2
<1> HIDE DEF longer, N, places, more
<1>6. PICK f : /\ f[0] = <<>>
               /\ \A n \in 1..Len(longer) : KeptStep(f, longer, more, n)
               /\ FS!Kept(longer, more) = f[Len(longer)]
  BY <1>2, KeptSteps
<1>7. ASSUME NEW n \in 1..N PROVE KeptStep(f, bytes, places, n)
  <2>1. n \in 1..Len(longer)
    BY <1>1, <1>2
  <2>2. KeptStep(f, longer, more, n)
    BY <1>6, <2>1
  <2> QED
    BY <1>2, <1>4, <2>2 DEF KeptStep
<1>8. FS!Kept(bytes, places) = f[N]
  BY <1>6, <1>7, KeptUnique DEF N
<1>9. N + 1 \in 1..Len(longer) /\ (N + 1) - 1 = N
  BY <1>1, <1>2
<1>10. KeptStep(f, longer, more, N + 1)
  BY <1>6, <1>9
<1>11. f[N + 1] = IF x = "cr" THEN f[N] ELSE Append(f[N], x)
  BY <1>2, <1>5, <1>9, <1>10 DEF KeptStep
<1> QED
  BY <1>2, <1>3, <1>6, <1>8, <1>11 DEF longer

LEMMA StrippedFile ==
    ASSUME NEW bytes \in File PROVE WithoutReturns(bytes) \in File
BY KeptFile DEF WithoutReturns

Blanks(n) == [i \in 1..n |-> "sp"]

LEMMA BlanksFile ==
    ASSUME NEW n \in Nat
    PROVE  /\ Blanks(n) \in File /\ Len(Blanks(n)) = n
           /\ Blanks(n + 1) = Append(Blanks(n), "sp")
<1>1. "sp" \in Bytes
  BY DEF Bytes
<1>2. \A k \in Nat : Blanks(k) \in Seq(Bytes) /\ Len(Blanks(k)) = k
  <2> SUFFICES ASSUME NEW k \in Nat PROVE Blanks(k) \in Seq(Bytes) /\ Len(Blanks(k)) = k
    OBVIOUS
  <2>1. Blanks(k) \in [1..k -> Bytes]
    BY <1>1 DEF Blanks
  <2> QED
    BY <2>1, IsASeq, LenProperties DEF Blanks
<1> DEFINE longer == Append(Blanks(n), "sp")
<1>3. /\ longer \in Seq(Bytes) /\ Len(longer) = n + 1
      /\ \A i \in 1..n : longer[i] = Blanks(n)[i]
      /\ longer[n + 1] = "sp"
  BY <1>1, <1>2, AppendProperties
<1>4. \A i \in 1..(n + 1) : longer[i] = "sp"
  BY <1>3 DEF Blanks
<1> HIDE DEF longer
<1>5. longer = [i \in 1..(n + 1) |-> "sp"]
  <2>1. longer = [i \in 1..Len(longer) |-> longer[i]]
    BY <1>3
  <2> QED
    BY <1>3, <1>4, <2>1
<1> QED
  BY <1>2, <1>5 DEF longer, Blanks, File

\* The padding of the string stays where it is.
LEMMA BlanksStay ==
    ASSUME NEW bytes \in File, NEW n \in Nat
    PROVE  WithoutReturns(bytes \o Blanks(n)) = WithoutReturns(bytes) \o Blanks(n)
<1> DEFINE bare == WithoutReturns(bytes)
           S == {k \in 0..n : WithoutReturns(bytes \o Blanks(k)) = bare \o Blanks(k)}
<1>1. bytes \in Seq(Bytes) /\ bare \in Seq(Bytes)
  BY StrippedFile DEF File
<1> HIDE DEF bare
<1>2. 0 \in S
  <2>1. Blanks(0) = <<>>
    BY DEF Blanks
  <2>2. bytes \o <<>> = bytes /\ bare \o <<>> = bare
    BY <1>1, ConcatEmptySeq
  <2>3. WithoutReturns(bytes) = bare
    BY DEF bare
  <2>4. WithoutReturns(bytes \o Blanks(0)) = bare \o Blanks(0)
    BY <2>1, <2>2, <2>3
  <2>5. 0 \in 0..n
    OBVIOUS
  <2> QED
    BY <2>4, <2>5
<1>3. ASSUME NEW k \in 0..n, k \in S, k < n PROVE k + 1 \in S
  <2>1. k \in Nat /\ k + 1 \in 0..n
    BY <1>3
  <2> DEFINE b == Blanks(k)
  <2>2. b \in Seq(Bytes) /\ Blanks(k + 1) = Append(b, "sp") /\ "sp" \in Bytes
    BY <2>1, BlanksFile DEF File, Bytes
  <2> HIDE DEF b
  <2>3. /\ bytes \o Append(b, "sp") = Append(bytes \o b, "sp")
        /\ bare \o Append(b, "sp") = Append(bare \o b, "sp")
        /\ bytes \o b \in Seq(Bytes)
    BY <1>1, <2>2
  <2>4. WithoutReturns(Append(bytes \o b, "sp")) = Append(WithoutReturns(bytes \o b), "sp")
    BY <2>2, <2>3, AppendedByte DEF File
  <2>5. WithoutReturns(bytes \o b) = bare \o b
    BY <1>3 DEF b
  <2> QED
    BY <2>1, <2>2, <2>3, <2>4, <2>5
<1> HIDE DEF S
<1>4. 0..n \subseteq S
  BY <1>2, <1>3, UpToInduction
<1> QED
  BY <1>4 DEF S, bare

\* Dropping some CR of a file: what has been kept when the first NUL is reached
\* stays the beginning of what is kept in the end, and is followed by the NUL.
LEMMA KeptBeforeNul ==
    ASSUME NEW text \in File, NEW places,
           \A i \in 1..Len(text) : i \notin places => text[i] = "cr",
           NEW n \in 0..Len(text), Before(text, "nul", n)
    PROVE  \E c \in 0..Len(FS!Kept(text, places)) :
              /\ Before(FS!Kept(text, places), "nul", c)
              /\ c = Len(FS!Kept(text, places)) <=> n = Len(text)
              /\ WithoutReturns(SubSeq(FS!Kept(text, places), 1, c)) =
                    WithoutReturns(SubSeq(text, 1, n))
<1>1. PICK f : /\ f[0] = <<>>
               /\ \A i \in 1..Len(text) : KeptStep(f, text, places, i)
               /\ FS!Kept(text, places) = f[Len(text)]
  BY KeptSteps
<1> DEFINE N == Len(text)
<1>2. /\ N \in Nat /\ text \in Seq(Bytes)
      /\ \A i \in 1..N : text[i] \in Bytes
  BY DEF File
<1>3. /\ n \in Nat /\ n <= N
      /\ \A i \in 1..n : text[i] # "nul"
      /\ n < N => text[n + 1] = "nul"
  BY <1>2 DEF Before
<1> HIDE DEF N
\* Up to the NUL.
<1> DEFINE Same(i) == /\ f[i] \in File
                      /\ WithoutReturns(f[i]) = WithoutReturns(SubSeq(text, 1, i))
                      /\ \A k \in 1..Len(f[i]) : f[i][k] # "nul"
           S == {i \in 0..n : Same(i)}
<1>4. 0 \in S
  <2>1. f[0] = <<>> /\ SubSeq(text, 1, 0) = <<>> /\ 0 \in 0..n
    <3>1. SubSeq(text, 1, 0) = <<>>
      BY <1>2, SubSeqEmpty
    <3> QED
      BY <1>1, <1>3, <3>1
  <2>2. f[0] \in File /\ \A k \in 1..Len(f[0]) : f[0][k] # "nul"
    BY <2>1 DEF File
  <2> QED
    BY <2>1, <2>2
<1>5. ASSUME NEW i \in 0..n, i \in S, i < n PROVE i + 1 \in S
  <2>1. i + 1 \in 1..N /\ (i + 1) - 1 = i /\ i + 1 \in 0..n /\ i + 1 \in 1..n /\ i \in Nat
    BY <1>2, <1>3, <1>5
  <2>2. KeptStep(f, text, places, i + 1)
    BY <1>1, <2>1 DEF N
  <2>3. text[i + 1] \in Bytes /\ text[i + 1] # "nul"
    BY <1>2, <1>3, <2>1
  <2>4. Same(i)
    BY <1>5
  <2> HIDE DEF S
  <2>5. /\ SubSeq(text, 1, i) \in File
        /\ SubSeq(text, 1, i + 1) = Append(SubSeq(text, 1, i), text[i + 1])
    <3>1. SubSeq(text, 1, i) \in File
      BY <1>2, <2>1, Part DEF N
    <3> QED
      BY <1>2, <2>1, <3>1 DEF N
  <2>6. WithoutReturns(SubSeq(text, 1, i + 1)) =
           IF text[i + 1] = "cr" THEN WithoutReturns(SubSeq(text, 1, i))
           ELSE Append(WithoutReturns(SubSeq(text, 1, i)), text[i + 1])
    BY <2>3, <2>5, AppendedByte
  <2>7. CASE i + 1 \in places
    <3>1. f[i + 1] = Append(f[i], text[i + 1])
      BY <2>1, <2>2, <2>7 DEF KeptStep
    <3>2. /\ f[i + 1] \in File
          /\ WithoutReturns(f[i + 1]) = WithoutReturns(SubSeq(text, 1, i + 1))
      <4>1. f[i] \in File /\ WithoutReturns(f[i]) = WithoutReturns(SubSeq(text, 1, i))
        BY <2>4
      <4>2. /\ Append(f[i], text[i + 1]) \in File
            /\ WithoutReturns(Append(f[i], text[i + 1])) =
                  IF text[i + 1] = "cr" THEN WithoutReturns(f[i])
                  ELSE Append(WithoutReturns(f[i]), text[i + 1])
        BY <2>3, <4>1, AppendedByte
      <4> QED
        BY <2>6, <3>1, <4>1, <4>2
    <3>3. ASSUME NEW k \in 1..Len(f[i + 1]) PROVE f[i + 1][k] # "nul"
      <4>1. /\ Len(f[i + 1]) = Len(f[i]) + 1 /\ Len(f[i]) \in Nat
            /\ \A j \in 1..Len(f[i]) : f[i + 1][j] = f[i][j]
            /\ f[i + 1][Len(f[i]) + 1] = text[i + 1]
        BY <2>3, <2>4, <3>1, AppendProperties DEF File
      <4>2. k \in 1..Len(f[i]) \/ k = Len(f[i]) + 1
        BY <4>1
      <4> QED
        BY <2>3, <2>4, <4>1, <4>2
    <3> QED
      BY <2>1, <3>2, <3>3 DEF S
  <2>8. CASE i + 1 \notin places
    <3>1. f[i + 1] = f[i] /\ text[i + 1] = "cr"
      BY <2>1, <2>2, <2>8 DEF KeptStep, N
    <3> QED
      BY <2>1, <2>4, <2>6, <3>1 DEF S
  <2> QED
    BY <2>7, <2>8
<1>6. Same(n)
  <2> HIDE DEF S
  <2>1. 0..n \subseteq S
    BY <1>3, <1>4, <1>5, UpToInduction
  <2> QED
    BY <1>3, <2>1 DEF S
<1> DEFINE c == Len(f[n])
<1>7. c \in Nat /\ f[n] \in Seq(Bytes)
  BY <1>6 DEF File
<1> HIDE DEF Same, S
<1>8. CASE n = N
  <2>1. FS!Kept(text, places) = f[n] /\ c \in 0..Len(f[n])
    BY <1>1, <1>7, <1>8 DEF N
  <2>2. SubSeq(f[n], 1, c) = f[n]
    BY <1>7, WholePart DEF File
  <2>3. Before(f[n], "nul", c)
    BY <1>6, <1>7 DEF Same, Before
  <2>4. WithoutReturns(SubSeq(f[n], 1, c)) = WithoutReturns(SubSeq(text, 1, n))
    BY <1>6, <2>2 DEF Same
  <2> QED
    BY <1>8, <2>1, <2>3, <2>4 DEF N
\* Behind the NUL.
<1>9. CASE n < N
  <2> DEFINE Keeps(i) == /\ f[i] \in Seq(Bytes) /\ Len(f[i]) > c
                         /\ \A k \in 1..c : f[i][k] = f[n][k]
                         /\ f[i][c + 1] = "nul"
             R == {d \in 0..(N - (n + 1)) : Keeps(n + 1 + d)}
             M == N - (n + 1)
  <2>1. M \in Nat
    BY <1>2, <1>3, <1>9
  <2>2. 0 \in R
    <3>1. n + 1 \in 1..N /\ (n + 1) - 1 = n
      BY <1>2, <1>3, <1>9
    <3>2. text[n + 1] = "nul" /\ "nul" \in Bytes
      BY <1>3, <1>9 DEF Bytes
    <3>3. n + 1 \in places
      BY <3>1, <3>2 DEF N
    <3>4. KeptStep(f, text, places, n + 1)
      BY <1>1, <3>1 DEF N
    <3>5. f[n + 1] = Append(f[n], "nul")
      BY <3>1, <3>2, <3>3, <3>4 DEF KeptStep
    <3>6. /\ f[n + 1] \in Seq(Bytes) /\ Len(f[n + 1]) = c + 1
          /\ \A k \in 1..c : f[n + 1][k] = f[n][k]
          /\ f[n + 1][c + 1] = "nul"
      BY <1>7, <3>2, <3>5, AppendProperties
    <3> HIDE DEF c
    <3>7. Len(f[n + 1]) > c
      BY <1>7, <3>6
    <3>8. n + 1 + 0 = n + 1 /\ 0 \in 0..(N - (n + 1))
      BY <1>3, <2>1
    <3> QED
      BY <3>6, <3>7, <3>8
  <2>3. ASSUME NEW d \in 0..M, d \in R, d < M PROVE d + 1 \in R
    <3> DEFINE i == n + 1 + d
    <3>1. /\ i + 1 \in 1..N /\ (i + 1) - 1 = i /\ d + 1 \in 0..M
          /\ n + 1 + (d + 1) = i + 1
      BY <1>2, <1>3, <2>1, <2>3
    <3>2. Keeps(i)
      BY <2>3
    <3> HIDE DEF i, R
    <3>3. KeptStep(f, text, places, i + 1) /\ text[i + 1] \in Bytes
      BY <1>1, <1>2, <3>1 DEF N
    <3>4. f[i + 1] = f[i] \/ f[i + 1] = Append(f[i], text[i + 1])
      BY <3>1, <3>3 DEF KeptStep
    <3>5. ASSUME f[i + 1] = f[i] PROVE Keeps(i + 1)
      BY <3>2, <3>5
    <3>6. ASSUME f[i + 1] = Append(f[i], text[i + 1]) PROVE Keeps(i + 1)
      <4>1. /\ f[i + 1] \in Seq(Bytes) /\ Len(f[i + 1]) = Len(f[i]) + 1 /\ Len(f[i]) \in Nat
            /\ \A k \in 1..Len(f[i]) : f[i + 1][k] = f[i][k]
        BY <3>2, <3>3, <3>6, AppendProperties
      <4> HIDE DEF c
      <4>2. c + 1 \in 1..Len(f[i]) /\ \A k \in 1..c : k \in 1..Len(f[i])
        BY <1>7, <3>2, <4>1
      <4>3. Len(f[i + 1]) > c
        BY <1>7, <3>2, <4>1
      <4> QED
        BY <3>2, <4>1, <4>2, <4>3
    <3>7. Keeps(i + 1)
      BY <3>4, <3>5, <3>6
    <3> HIDE DEF Keeps
    <3> QED
      BY <3>1, <3>7 DEF R
  <2>4. Keeps(N)
    <3> HIDE DEF R, M
    <3>1. 0..M \subseteq R
      BY <2>1, <2>2, <2>3, UpToInduction
    <3>2. M \in R
      BY <2>1, <3>1
    <3>3. n + 1 + M = N
      BY <1>2, <1>3 DEF M
    <3> HIDE DEF Keeps
    <3> QED
      BY <3>2, <3>3 DEF R
  <2> DEFINE kept == f[N]
  <2>5. FS!Kept(text, places) = kept
    BY <1>1 DEF N
  <2> HIDE DEF c
  <2>6. /\ kept \in Seq(Bytes) /\ Len(kept) \in Nat /\ c < Len(kept) /\ c \in 0..Len(kept)
        /\ \A k \in 1..c : kept[k] = f[n][k]
        /\ kept[c + 1] = "nul"
    BY <1>7, <2>4
  <2>7. Before(kept, "nul", c)
    BY <1>6, <2>6 DEF Before, Same, c
  <2>8. SubSeq(kept, 1, c) = f[n]
    <3>1. SubSeq(kept, 1, c) = [k \in 1..c |-> kept[k]]
      BY <1>7, <2>6
    <3>2. f[n] = [k \in 1..c |-> f[n][k]]
      BY <1>7 DEF c
    <3> QED
      BY <2>6, <3>1, <3>2
  <2>9. WithoutReturns(SubSeq(kept, 1, c)) = WithoutReturns(SubSeq(text, 1, n))
    BY <1>6, <2>8 DEF Same
  <2>10. c # Len(kept) /\ n # Len(text)
    BY <1>2, <1>3, <1>7, <1>9, <2>6 DEF N
  <2> HIDE DEF kept
  <2> QED
    BY <2>5, <2>6, <2>7, <2>9, <2>10
<1> QED
  BY <1>2, <1>3, <1>8, <1>9

\* A source as it is given to the compiler, against the file it was read from.
SourceOf(value, bytes) ==
    LET source == FS!UpTo(FS!UpTo(bytes, "sub"), "nul")
    IN \E blanks \in 0..Len(bytes) :
          WithoutReturns(value) = WithoutReturns(source) \o [i \in 1..blanks |-> "sp"]

\* Read into a string of its own length, a source is what the file has.
LEMMA DeliveredSource ==
    ASSUME NEW bytes \in File
    PROVE  SourceOf(FS!Delivered("source", bytes, Len(bytes)), bytes)
<1> DEFINE text == FS!UpTo(bytes, "sub")
           places == {i \in DOMAIN text :
                         ~(text[i] = "cr" /\ i < Len(text) /\ text[i + 1] = "lf")}
           kept == FS!TextMode(bytes)
           size == Len(bytes)
           padded == FS!Padded(kept, size, "sp")
           value == FS!Delivered("source", bytes, size)
           source == FS!UpTo(text, "nul")
<1> SUFFICES SourceOf(value, bytes)
  OBVIOUS
<1>1. /\ text \in File /\ Len(text) <= size
      /\ kept \in File /\ Len(kept) <= size
  BY UpToFile, TextModeFile
<1>2. kept = FS!Kept(text, places) /\ value = FS!UpTo(padded, "nul")
  BY DEF FS!TextMode, FS!Delivered
<1>3. \A i \in 1..Len(text) : i \notin places => text[i] = "cr"
  <2>1. DOMAIN text = 1..Len(text)
    BY <1>1 DEF File
  <2> HIDE DEF text
  <2> QED
    BY <2>1
<1>4. /\ padded = [i \in 1..size |-> IF i <= Len(kept) THEN kept[i] ELSE "sp"]
      /\ padded \in File
  <2>1. size \in Nat /\ "sp" \in Bytes
    BY DEF File, Bytes
  <2> HIDE DEF kept, size
  <2>2. padded \in File
    BY <1>1, <2>1, PaddedFile
  <2> QED
    BY <2>2 DEF FS!Padded
<1>5. SourceOf(value, bytes) <=> \E blanks \in 0..size :
         WithoutReturns(value) = WithoutReturns(source) \o Blanks(blanks)
  BY DEF SourceOf, Blanks
<1> HIDE DEF text, places, kept, padded, value
<1>6. PICK n \in 0..Len(text) : Before(text, "nul", n)
  BY <1>1, BeforeExists
<1>7. source = SubSeq(text, 1, n)
  BY <1>1, <1>6, UpToBefore
<1>8. PICK c \in 0..Len(kept) :
         /\ Before(kept, "nul", c)
         /\ c = Len(kept) <=> n = Len(text)
         /\ WithoutReturns(SubSeq(kept, 1, c)) = WithoutReturns(SubSeq(text, 1, n))
  BY <1>1, <1>2, <1>3, <1>6, KeptBeforeNul
<1> HIDE DEF source
<1>9. /\ size \in Nat /\ Len(kept) \in Nat /\ Len(text) \in Nat /\ c \in Nat
      /\ kept \in Seq(Bytes) /\ text \in Seq(Bytes) /\ padded \in Seq(Bytes)
      /\ Len(padded) = size /\ c <= size
  <2>1. size \in Nat /\ Len(kept) \in Nat /\ Len(text) \in Nat
    BY <1>1 DEF File
  <2> HIDE DEF size
  <2>2. Len(padded) = size /\ c <= size
    BY <1>1, <1>4, <1>8, <2>1
  <2> QED
    BY <1>1, <1>4, <1>8, <2>1, <2>2 DEF File
<1> HIDE DEF size
\* The compiler stops at a NUL of the file.
<1>10. CASE c < Len(kept)
  <2>1. Before(padded, "nul", c) /\ c \in 0..Len(padded)
    BY <1>1, <1>4, <1>8, <1>9, <1>10 DEF Before
  <2>2. value = SubSeq(padded, 1, c)
    BY <1>2, <1>4, <2>1, UpToBefore
  <2>3. SubSeq(padded, 1, c) = SubSeq(kept, 1, c)
    <3>1. \A i \in 1..c : padded[i] = kept[i]
      BY <1>1, <1>4, <1>9, <1>10
    <3> QED
      BY <1>1, <1>9, <1>10, <3>1
  <2>4. WithoutReturns(value) = WithoutReturns(source)
    BY <1>7, <1>8, <2>2, <2>3
  <2>5. Blanks(0) = <<>> /\ 0 \in 0..size
    BY <1>9 DEF Blanks
  <2>6. WithoutReturns(source) \o <<>> = WithoutReturns(source)
    <3>1. source \in File
      BY <1>1, UpToFile DEF source
    <3>2. WithoutReturns(source) \in Seq(Bytes)
      BY <3>1, StrippedFile DEF File
    <3> QED
      BY <3>2, ConcatEmptySeq
  <2> QED
    BY <1>5, <2>4, <2>5, <2>6
\* Without one it reads the whole file, and the blanks of the string behind it.
<1>11. CASE c = Len(kept)
  <2> DEFINE rest == size - Len(kept)
  <2>1. rest \in Nat /\ rest \in 0..size
    BY <1>1, <1>9
  <2>2. padded = kept \o Blanks(rest)
    <3> DEFINE blanks == Blanks(rest)
               joined == kept \o blanks
    <3>1. blanks \in Seq(Bytes) /\ Len(blanks) = rest /\ rest = size - Len(kept)
      BY <2>1, BlanksFile DEF File
    <3>2. \A i \in 1..rest : blanks[i] = "sp"
      BY DEF Blanks
    <3> HIDE DEF rest, blanks
    <3>3. /\ joined \in Seq(Bytes) /\ Len(joined) = Len(kept) + Len(blanks)
          /\ \A i \in 1..(Len(kept) + Len(blanks)) :
                joined[i] = IF i <= Len(kept) THEN kept[i] ELSE blanks[i - Len(kept)]
      BY <1>9, <3>1, ConcatProperties
    <3> HIDE DEF joined
    <3>4. Len(kept) + Len(blanks) = size /\ Len(joined) = size
      BY <1>9, <3>1, <3>3
    <3>5. ASSUME NEW i \in 1..size PROVE joined[i] = padded[i]
      <4>1. joined[i] = IF i <= Len(kept) THEN kept[i] ELSE blanks[i - Len(kept)]
        BY <3>3, <3>4
      <4>2. padded[i] = IF i <= Len(kept) THEN kept[i] ELSE "sp"
        BY <1>4
      <4>3. ~(i <= Len(kept)) => i - Len(kept) \in 1..rest
        BY <1>9, <3>1
      <4> QED
        BY <3>2, <4>1, <4>2, <4>3
    <3>6. joined = [i \in 1..size |-> joined[i]]
      BY <3>3, <3>4
    <3>7. padded = [i \in 1..size |-> padded[i]]
      BY <1>9
    <3> QED
      BY <3>5, <3>6, <3>7 DEF joined, blanks
  <2>3. Before(padded, "nul", size) /\ size \in 0..Len(padded)
    <3>1. \A i \in 1..size : padded[i] # "nul"
      BY <1>4, <1>8, <1>9, <1>11 DEF Before
    <3> QED
      BY <1>9, <3>1 DEF Before
  <2>4. value = padded
    <3>1. value = SubSeq(padded, 1, size)
      BY <1>2, <1>4, <2>3, UpToBefore
    <3> QED
      BY <1>4, <1>9, <3>1, WholePart
  <2>5. WithoutReturns(kept) = WithoutReturns(source)
    <3>1. SubSeq(kept, 1, c) = kept
      BY <1>1, <1>11, WholePart
    <3> QED
      BY <1>7, <1>8, <3>1
  <2> HIDE DEF rest
  <2>6. WithoutReturns(value) = WithoutReturns(source) \o Blanks(rest)
    BY <1>1, <2>1, <2>2, <2>4, <2>5, BlanksStay
  <2> QED
    BY <1>5, <2>1, <2>6
<1> QED
  BY <1>8, <1>9, <1>10, <1>11

---------------------------------------------------------------------------
(* Operations *)

OpenOp == [kind : {"read", "source"}, name : Names, pc : {"open"}]

ReadOp ==
    [kind : {"read", "source"}, name : Names, pc : {"read"}, size : Nat, alone : BOOLEAN]

WriteOp == [kind : {"write"}, name : Names, pc : {"write"}, text : Texts, alone : BOOLEAN]

ListOp ==
    [kind : {"list"}, name : {None}, pc : {"list", "returned"}, value : Seq(Names),
     seen : SUBSET Names, stay : SUBSET Names, ever : SUBSET Names]

MissingOp == [kind : {"read"}, name : Names, pc : {"missing"}]

ThrownOp ==
    [kind : {"read", "source", "write", "unlink", "rename", "list"},
     name : Names \cup {None}, pc : {"thrown"}]

IsRead(o) ==
    \E kind \in {"read", "source"}, n \in Names, alone \in BOOLEAN :
       \E v : o = [kind |-> kind, name |-> n, pc |-> "returned", value |-> v,
                   alone |-> alone]

IsReturned(o) ==
    \E kind \in {"write", "unlink", "rename"}, n \in Names :
       \E v : o = FS!Returned(kind, n, v)

OpTyped(o) ==
    \/ o = FS!Idle
    \/ o \in OpenOp \cup ReadOp \cup WriteOp \cup ListOp \cup MissingOp \cup ThrownOp
    \/ IsRead(o) \/ IsReturned(o)

\* Finalizers are called inside a read and a listing only.
Waits(o) == o = FS!Idle \/ o \in ReadOp \cup ListOp

\* A program counter tells the operation.
LEMMA OpKinds ==
    ASSUME NEW o, OpTyped(o)
    PROVE  /\ o.pc = "open" => o \in OpenOp
           /\ o.pc = "read" => o \in ReadOp
           /\ o.pc = "write" => o \in WriteOp
           /\ o.pc = "list" => o \in ListOp
           /\ o.kind = "list" /\ o.pc # "thrown" => o \in ListOp
           /\ o.pc = "returned" /\ o.kind # "list" => IsRead(o) \/ IsReturned(o)
BY DEF OpTyped, OpenOp, ReadOp, WriteOp, ListOp, MissingOp, ThrownOp, IsRead, IsReturned,
   FS!Idle, FS!Returned

---------------------------------------------------------------------------
(* The invariant *)

\* The history of what was stored is what the disk holds.
DiskInv ==
    /\ disk \in [Names -> Content]
    /\ saved \in [FS!Plain -> Texts \cup {None}]
    /\ \A n \in FS!Plain : saved[n] # None => disk[n] = saved[n]

\* An operation o, the files d and what was stored s.  A write finds the file that it
\* truncated, unless another process has written, and until it is done nothing is
\* stored.
WriteFacts(o, d, s) ==
    o.pc = "write" => /\ d[o.name] \in File
                      /\ o.alone => d[o.name] = <<>>
                      /\ o.name \in FS!Plain => s[o.name] = None

\* A read finds as many bytes as it asked for, if it was alone with the file.
ReadFacts(o, d, s) ==
    o.pc = "read" => /\ d[o.name] \in File
                     /\ o.alone /\ o.name \in FS!Plain /\ s[o.name] # None
                           => o.size = Len(d[o.name])

\* What a listing has seen, and what was there while it ran.
ListFacts(o) ==
    o.kind = "list" /\ o.pc # "thrown" =>
        /\ o.stay \subseteq o.ever /\ o.seen \subseteq o.ever
        /\ ToSet(o.value) = o.seen \ Hidden
        /\ IsInjective(o.value)
        /\ o.pc = "returned" => o.stay \subseteq o.seen

OpFacts(o, d, s) == WriteFacts(o, d, s) /\ ReadFacts(o, d, s) /\ ListFacts(o)

\* The operation under way, and the one that waits for finalizers.
OpInv == OpTyped(op) /\ OpFacts(op, disk, saved) /\ FS!ReadsWhatWasWritten

OuterInv == Waits(outer) /\ OpFacts(outer, disk, saved)

FilesInv == DiskInv /\ OpInv /\ OuterInv

LEMMA WaitsTyped == ASSUME NEW o, Waits(o) PROVE OpTyped(o)
BY DEF Waits, OpTyped

\* An operation that begins, or is over and was no read that returned.
LEMMA SmallOp ==
    ASSUME DiskInv', OuterInv',
           \/ op' = FS!Idle \/ op' \in OpenOp \/ op' \in ThrownOp
           \/ IsReturned(op')
    PROVE  FilesInv'
<1>1. OpTyped(op')
  BY DEF OpTyped
<1>2. /\ op'.pc \notin {"read", "write", "missing"}
      /\ op'.kind = "read" => op'.pc # "returned"
      /\ op'.kind = "list" => op'.pc = "thrown"
  BY DEF OpenOp, ThrownOp, IsReturned, FS!Idle, FS!Returned
<1> QED
  BY <1>1, <1>2 DEF FilesInv, OpInv, OpFacts, WriteFacts, ReadFacts, ListFacts,
     FS!ReadsWhatWasWritten

LEMMA DiskSame ==
    ASSUME FilesInv, UNCHANGED <<disk, saved, outer>>
    PROVE  DiskInv' /\ OuterInv'
BY DEF FilesInv, DiskInv, OuterInv, OpFacts, WriteFacts, ReadFacts, ListFacts

\* A name under which something was stored is a file.
LEMMA SavedIsFile ==
    ASSUME DiskInv, NEW n \in Names
    PROVE  /\ FS!FileExists(n) => disk[n] \in File
           /\ n \in FS!Plain /\ saved[n] # None => FS!FileExists(n)
<1>1. disk[n] \in Content
  BY DEF DiskInv
<1>2. n \in FS!Plain /\ saved[n] # None => disk[n] \in Texts
  BY DEF DiskInv
<1> QED
  BY <1>1, <1>2, Apart DEF FS!FileExists, Content

LEMMA ReadSteps ==
    ASSUME FilesInv, NEW n \in Names,
           \/ FS!StartRead(n) \/ FS!StartSource(n) \/ FS!OpenFile \/ FS!ReadBytes
    PROVE  FilesInv'
<1>1. /\ DiskInv /\ DiskInv' /\ OuterInv' /\ UNCHANGED <<disk, saved>>
      /\ OpTyped(op) /\ OpFacts(op, disk, saved)
  BY DiskSame DEF FilesInv, OpInv, FS!StartRead, FS!StartSource, FS!OpenFile, FS!ReadBytes
<1>2. CASE FS!StartSource(n)
  <2>1. op' \in OpenOp
    BY <1>2 DEF FS!StartSource, FS!Opening, OpenOp
  <2> QED
    BY <1>1, <2>1, SmallOp
<1>3. CASE FS!StartRead(n)
  <2>1. CASE FS!FileExists(n)
    <3>1. op' \in OpenOp
      BY <1>3, <2>1 DEF FS!StartRead, FS!Opening, OpenOp
    <3> QED
      BY <1>1, <3>1, SmallOp
  <2>2. CASE ~FS!FileExists(n)
    <3>1. op' \in MissingOp /\ op'.pc = "missing" /\ op'.kind = "read" /\ op'.name = n
      BY <1>3, <2>2 DEF FS!StartRead, FS!Missing, MissingOp
    <3>2. ~(n \in FS!Plain /\ saved[n] # None)
      BY <1>1, <2>2, SavedIsFile
    <3> QED
      BY <1>1, <3>1, <3>2 DEF FilesInv, OpInv, OpTyped, OpFacts, WriteFacts, ReadFacts,
         ListFacts, FS!ReadsWhatWasWritten
  <2> QED
    BY <2>1, <2>2
<1>4. CASE FS!OpenFile
  <2>1. op \in OpenOp
    BY <1>1, <1>4, OpKinds DEF FS!OpenFile
  <2>2. op.kind \in {"read", "source"} /\ op.name \in Names
    BY <2>1 DEF OpenOp
  <2>3. CASE op' = FS!Thrown(op.kind, op.name)
    <3>1. op' \in ThrownOp
      BY <2>2, <2>3 DEF FS!Thrown, ThrownOp
    <3> QED
      BY <1>1, <3>1, SmallOp
  <2>4. CASE /\ FS!FileExists(op.name)
             /\ op' = [kind |-> op.kind, name |-> op.name, pc |-> "read",
                       size |-> Len(disk[op.name]), alone |-> TRUE]
    <3>1. disk[op.name] \in File /\ Len(disk[op.name]) \in Nat
      BY <1>1, <2>2, <2>4, SavedIsFile DEF File
    <3>2. /\ op' \in ReadOp /\ op'.pc = "read" /\ op'.name = op.name
          /\ op'.size = Len(disk[op.name]) /\ op'.kind # "list"
      BY <2>2, <2>4, <3>1 DEF ReadOp
    <3> QED
      BY <1>1, <3>1, <3>2 DEF FilesInv, OpInv, OpTyped, OpFacts, WriteFacts, ReadFacts,
         ListFacts, FS!ReadsWhatWasWritten
  <2> QED
    BY <1>4, <2>3, <2>4 DEF FS!OpenFile
<1>5. CASE FS!ReadBytes
  <2>1. op \in ReadOp /\ op.pc = "read"
    BY <1>1, <1>5, OpKinds DEF FS!ReadBytes
  <2>2. /\ op.kind \in {"read", "source"} /\ op.name \in Names /\ op.size \in Nat
        /\ op.alone \in BOOLEAN
    BY <2>1 DEF ReadOp
  <2> DEFINE value == FS!Delivered(op.kind, disk[op.name], op.size)
  <2>3. op' = [kind |-> op.kind, name |-> op.name, pc |-> "returned", value |-> value,
               alone |-> op.alone]
    BY <1>5 DEF FS!ReadBytes
  <2>4. ASSUME op.kind = "read", op.name \in FS!Plain, saved[op.name] # None
        PROVE  \/ value = saved[op.name]
               \/ ~op.alone /\ value = FS!Padded(saved[op.name], Len(value), "nul")
    <3>1. disk[op.name] \in File /\ disk[op.name] = saved[op.name]
      BY <1>1, <2>1, <2>4 DEF OpFacts, ReadFacts, DiskInv
    <3>2. CASE op.alone
      <4>1. op.size = Len(disk[op.name])
        BY <1>1, <2>1, <2>4, <3>2 DEF OpFacts, ReadFacts
      <4>2. value = disk[op.name]
        BY <2>4, <3>1, <4>1, DeliveredWhole
      <4> QED
        BY <3>1, <4>2
    <3>3. CASE ~op.alone
      <4>1. value = FS!Padded(disk[op.name], op.size, "nul")
        BY <2>4 DEF FS!Delivered
      <4>2. "nul" \in Bytes
        BY DEF Bytes
      <4>3. Len(FS!Padded(disk[op.name], op.size, "nul")) = op.size
        BY <2>2, <3>1, <4>2, PaddedFile
      <4> HIDE DEF value
      <4>4. value = FS!Padded(saved[op.name], Len(value), "nul")
        BY <3>1, <4>1, <4>3
      <4> QED
        BY <3>3, <4>4
    <3> QED
      BY <2>2, <3>2, <3>3
  <2> HIDE DEF value
  <2>5. /\ IsRead(op') /\ op'.pc = "returned" /\ op'.kind = op.kind
        /\ op'.name = op.name /\ op'.value = value /\ op'.alone = op.alone
    BY <2>2, <2>3 DEF IsRead
  <2>6. FS!ReadsWhatWasWritten'
    BY <1>1, <2>4, <2>5 DEF FS!ReadsWhatWasWritten
  <2> QED
    BY <1>1, <2>2, <2>5, <2>6 DEF FilesInv, OpInv, OpTyped, OpFacts, WriteFacts, ReadFacts,
       ListFacts
<1> QED
  BY <1>2, <1>3, <1>4, <1>5

---------------------------------------------------------------------------
(* A change while an operation is under way *)

LEMMA MeanwhileSame ==
    ASSUME NEW o, OpTyped(o), NEW n, NEW gone \in BOOLEAN
    PROVE  LET m == FS!Meanwhile(o, n, gone)
           IN /\ m.kind = o.kind /\ m.name = o.name /\ m.pc = o.pc
              /\ o.pc \notin {"read", "write", "list"} => m = o
              /\ o.pc = "read" => m.size = o.size
<1>1. CASE o.pc = "read" \/ o.pc = "write"
  <2>1. o \in ReadOp \cup WriteOp
    BY <1>1, OpKinds
  <2> QED
    BY <1>1, <2>1 DEF FS!Meanwhile, ReadOp, WriteOp
<1>2. CASE o.pc = "list"
  <2>1. o \in ListOp
    BY <1>2, OpKinds
  <2> QED
    BY <1>2, <2>1 DEF FS!Meanwhile, ListOp
<1>3. CASE o.pc \notin {"read", "write", "list"}
  BY <1>3 DEF FS!Meanwhile
<1> QED
  BY <1>1, <1>2, <1>3

\* The files d and what was stored s become e and t, by a change of n only.
SameBut(n, d, s, e, t) ==
    /\ \A m \in Names : m # n => e[m] = d[m]
    /\ \A m \in FS!Plain : m # n => t[m] = s[m]

\* A stream of operation o that has n open is left a file; what o writes is not yet
\* stored.
StillOpen(o, n, e, t) ==
    /\ o.pc \in {"read", "write"} /\ o.name = n => e[n] \in File
    /\ o.pc = "write" /\ o.name = n /\ n \in FS!Plain => t[n] = None

\* A read or a write knows that it is no longer alone with its file, a listing that a
\* name has come or gone.
LEMMA MeanwhileFacts ==
    ASSUME NEW o, OpTyped(o), NEW n \in Names, NEW gone \in BOOLEAN,
           NEW d, NEW s, NEW e, NEW t, OpFacts(o, d, s),
           SameBut(n, d, s, e, t), StillOpen(o, n, e, t)
    PROVE  /\ OpTyped(FS!Meanwhile(o, n, gone))
           /\ OpFacts(FS!Meanwhile(o, n, gone), e, t)
           /\ Waits(o) => Waits(FS!Meanwhile(o, n, gone))
<1> USE DEF SameBut, StillOpen
<1> DEFINE m == FS!Meanwhile(o, n, gone)
<1>1. CASE o.pc \in {"read", "write"} /\ o.name = n
  <2>1. m = [o EXCEPT !.alone = FALSE]
    BY <1>1 DEF FS!Meanwhile
  <2> HIDE DEF m
  <2>2. CASE o.pc = "read"
    <3>1. o \in ReadOp
      BY <2>2, OpKinds
    <3>2. m \in ReadOp /\ m.pc = "read" /\ m.name = n /\ ~m.alone /\ m.kind # "list"
      BY <1>1, <2>1, <3>1 DEF ReadOp
    <3> QED
      BY <1>1, <3>2 DEF m, OpTyped, Waits, OpFacts, WriteFacts, ReadFacts, ListFacts
  <2>3. CASE o.pc = "write"
    <3>1. o \in WriteOp
      BY <2>3, OpKinds
    <3>2. m \in WriteOp /\ m.pc = "write" /\ m.name = n /\ ~m.alone /\ m.kind # "list"
      BY <1>1, <2>1, <3>1 DEF WriteOp
    <3>3. ~Waits(o)
      BY <2>3 DEF Waits, ReadOp, ListOp, FS!Idle
    <3> QED
      BY <1>1, <2>3, <3>2, <3>3 DEF m, OpTyped, OpFacts, WriteFacts, ReadFacts, ListFacts
  <2> QED
    BY <1>1, <2>2, <2>3
<1>2. CASE o.pc \in {"read", "write"} /\ o.name # n
  <2>1. m = o
    BY <1>2 DEF FS!Meanwhile
  <2>2. o.name \in Names /\ o.kind # "list"
    BY <1>2, OpKinds DEF ReadOp, WriteOp
  <2>3. e[o.name] = d[o.name] /\ (o.name \in FS!Plain => t[o.name] = s[o.name])
    BY <1>2, <2>2
  <2>4. OpFacts(o, e, t)
    BY <1>2, <2>2, <2>3 DEF OpFacts, WriteFacts, ReadFacts, ListFacts
  <2> QED
    BY <2>1, <2>4
<1>3. CASE o.pc = "list"
  <2>1. o \in ListOp
    BY <1>3, OpKinds
  <2>2. m = IF gone THEN [o EXCEPT !.stay = o.stay \ {n}]
            ELSE [o EXCEPT !.ever = o.ever \cup {n}]
    BY <1>3 DEF FS!Meanwhile
  <2> HIDE DEF m
  <2>3. o.kind = "list" /\ o.stay \subseteq Names /\ o.ever \subseteq Names
    BY <2>1 DEF ListOp
  <2>4. /\ m \in ListOp /\ m.pc = "list" /\ m.seen = o.seen /\ m.value = o.value
        /\ m.stay = IF gone THEN o.stay \ {n} ELSE o.stay
        /\ m.ever = IF gone THEN o.ever ELSE o.ever \cup {n}
    BY <1>3, <2>1, <2>2, <2>3 DEF ListOp
  <2>5. /\ o.stay \subseteq o.ever /\ o.seen \subseteq o.ever
        /\ ToSet(o.value) = o.seen \ Hidden /\ IsInjective(o.value)
    BY <1>3, <2>3 DEF OpFacts, ListFacts
  <2>6. m.stay \subseteq m.ever /\ m.seen \subseteq m.ever
    BY <2>4, <2>5
  <2>7. OpFacts(m, e, t)
    BY <2>4, <2>5, <2>6 DEF OpFacts, WriteFacts, ReadFacts, ListFacts
  <2> QED
    BY <2>4, <2>7 DEF m, OpTyped, Waits
<1>4. CASE o.pc \notin {"read", "write", "list"}
  <2>1. m = o
    BY <1>4 DEF FS!Meanwhile
  <2>2. OpFacts(o, e, t)
    BY <1>4 DEF OpFacts, WriteFacts, ReadFacts
  <2> QED
    BY <2>1, <2>2
<1> QED
  BY <1>1, <1>2, <1>3, <1>4

\* The operation that waits for finalizers, when they or others change a file.
LEMMA OuterChanged ==
    ASSUME FilesInv, NEW n \in Names, NEW gone \in BOOLEAN,
           outer' = FS!Meanwhile(outer, n, gone),
           \A m \in Names : m # n => disk'[m] = disk[m],
           \A m \in FS!Plain : m # n => saved'[m] = saved[m],
           outer.pc = "read" /\ outer.name = n => disk'[n] \in File
    PROVE  OuterInv'
<1>1. Waits(outer) /\ OpTyped(outer) /\ OpFacts(outer, disk, saved)
  BY WaitsTyped DEF FilesInv, OuterInv
<1>2. outer.pc # "write"
  BY <1>1 DEF Waits, ReadOp, ListOp, FS!Idle
<1>3. SameBut(n, disk, saved, disk', saved') /\ StillOpen(outer, n, disk', saved')
  BY <1>2 DEF SameBut, StillOpen
<1>4. OpFacts(outer', disk', saved') /\ Waits(outer')
  BY <1>1, <1>3, MeanwhileFacts
<1> QED
  BY <1>4 DEF OuterInv

---------------------------------------------------------------------------
(* Writing, deleting, renaming *)

\* One name has other content, and what was stored under it is forgotten.
LEMMA Changed ==
    ASSUME DiskInv, NEW n \in Names, NEW c \in Content,
           disk' = [disk EXCEPT ![n] = c],
           saved' = IF n \in FS!Plain THEN FS!Forget(n) ELSE saved
    PROVE  DiskInv'
<1>1. disk' \in [Names -> Content]
  BY DEF DiskInv
<1>2. saved' \in [FS!Plain -> Texts \cup {None}]
  BY DEF DiskInv, FS!Forget
<1>3. ASSUME NEW m \in FS!Plain, saved'[m] # None PROVE disk'[m] = saved'[m]
  <2>1. m \in Names
    BY DEF FS!Plain
  <2>2. CASE m = n
    BY <1>3, <2>2 DEF DiskInv, FS!Forget
  <2>3. CASE m # n
    BY <1>3, <2>1, <2>3 DEF DiskInv, FS!Forget
  <2> QED
    BY <2>2, <2>3
<1> QED
  BY <1>1, <1>2, <1>3 DEF DiskInv, FS!Plain

LEMMA OtherThrown ==
    ASSUME NEW kind \in {"write", "unlink", "rename", "list"}, NEW n \in Names \cup {None}
    PROVE  FS!Thrown(kind, n) \in ThrownOp
BY DEF FS!Thrown, ThrownOp

LEMMA OtherReturned ==
    ASSUME NEW kind \in {"write", "unlink", "rename"}, NEW n \in Names, NEW v
    PROVE  IsReturned(FS!Returned(kind, n, v))
BY DEF FS!Returned, IsReturned

LEMMA StartWriteStep ==
    ASSUME FilesInv, NEW n \in Names, NEW text \in Texts, FS!StartWrite(n, text)
    PROVE  FilesInv'
<1>1. CASE op' = FS!Thrown("write", n) /\ UNCHANGED <<disk, outer, saved>>
  BY <1>1, DiskSame, OtherThrown, SmallOp
<1>2. CASE /\ disk' = [disk EXCEPT ![n] = <<>>]
           /\ op' = [kind |-> "write", name |-> n, pc |-> "write", text |-> text,
                     alone |-> TRUE]
           /\ outer' = FS!Meanwhile(outer, n, FALSE)
           /\ saved' = IF n \in FS!Plain THEN FS!Forget(n) ELSE saved
  <2>1. <<>> \in File /\ <<>> \in Content
    BY DEF File, Content
  <2>2. /\ DiskInv' /\ disk'[n] = <<>> /\ (n \in FS!Plain => saved'[n] = None)
        /\ \A m \in Names : m # n => disk'[m] = disk[m]
        /\ \A m \in FS!Plain : m # n => saved'[m] = saved[m]
    BY <1>2, <2>1, Changed DEF FilesInv, DiskInv, FS!Forget
  <2>3. OuterInv'
    BY <1>2, <2>1, <2>2, OuterChanged
  <2>4. op' \in WriteOp /\ op'.name = n /\ op'.pc = "write" /\ op'.kind = "write"
    BY <1>2 DEF WriteOp
  <2> QED
    BY <2>1, <2>2, <2>3, <2>4 DEF FilesInv, OpInv, OpTyped, OpFacts, WriteFacts, ReadFacts,
       ListFacts, FS!ReadsWhatWasWritten, FS!Plain
<1> QED
  BY <1>1, <1>2 DEF FS!StartWrite

\* All of a text was written to the file that was truncated for it, or less.
LEMMA WriteBytesStep ==
    ASSUME FilesInv, FS!WriteBytes
    PROVE  FilesInv'
<1>1. op \in WriteOp /\ op.pc = "write"
  BY OpKinds DEF FilesInv, OpInv, FS!WriteBytes
<1> DEFINE n == op.name
<1>2. n \in Names /\ op.text \in Texts /\ op.text \in File /\ Len(op.text) \in Nat
  BY <1>1, Apart DEF WriteOp, File
<1>3. disk[n] \in File /\ (op.alone => disk[n] = <<>>)
  BY <1>1 DEF FilesInv, OpInv, OpFacts, WriteFacts
<1>4. DiskInv
  BY DEF FilesInv
<1> HIDE DEF n
<1>5. PICK k \in {Len(op.text)} \cup (0..Room) :
         /\ k <= Len(op.text)
         /\ disk' = [disk EXCEPT ![n] = FS!Overlaid(@, SubSeq(op.text, 1, k))]
         /\ saved' = IF n \in FS!Plain /\ op.alone /\ k = Len(op.text)
                     THEN [saved EXCEPT ![n] = op.text] ELSE saved
  BY DEF FS!WriteBytes, n
<1>6. k \in Int
  BY <1>2, ConstantsAssumption
<1> DEFINE c == FS!Overlaid(disk[n], SubSeq(op.text, 1, k))
<1>7. SubSeq(op.text, 1, k) \in File
  BY <1>2, <1>5, <1>6, Part
<1>8. c \in File /\ c \in Content
  BY <1>3, <1>7, OverlaidFile DEF Content
<1>9. op.alone /\ k = Len(op.text) => c = op.text
  <2> SUFFICES ASSUME op.alone, k = Len(op.text) PROVE c = op.text
    OBVIOUS
  <2>1. SubSeq(op.text, 1, k) = op.text
    BY <1>2, WholePart
  <2> QED
    BY <1>2, <1>3, <2>1, OverlaidFile
<1>10. disk' = [disk EXCEPT ![n] = c]
  BY <1>4, <1>2, <1>5 DEF DiskInv
<1> HIDE DEF c
<1>11. n \in FS!Plain => saved[n] = None
  BY <1>1 DEF FilesInv, OpInv, OpFacts, WriteFacts, n
<1>12. ASSUME NEW m \in FS!Plain, saved'[m] # None PROVE disk'[m] = saved'[m]
  <2>1. m \in Names
    BY DEF FS!Plain
  <2>2. CASE m = n
    BY <1>2, <1>4, <1>5, <1>9, <1>10, <1>11, <1>12, <2>2 DEF DiskInv
  <2>3. CASE m # n
    <3>1. disk'[m] = disk[m] /\ saved'[m] = saved[m]
      BY <1>4, <1>5, <1>10, <2>1, <2>3 DEF DiskInv
    <3> QED
      BY <1>4, <1>12, <3>1 DEF DiskInv
  <2> QED
    BY <2>2, <2>3
<1>13. /\ disk' \in [Names -> Content]
       /\ saved' \in [FS!Plain -> Texts \cup {None}]
  BY <1>2, <1>4, <1>5, <1>8, <1>10 DEF DiskInv
<1>14. DiskInv'
  BY <1>12, <1>13 DEF DiskInv, FS!Plain
<1>15. op' = FS!Returned("write", n, None)
  BY DEF FS!WriteBytes, n
<1>16. OuterInv'
  <2>1. outer' = FS!Meanwhile(outer, n, FALSE)
    BY DEF FS!WriteBytes, n
  <2>2. /\ \A m \in Names : m # n => disk'[m] = disk[m]
        /\ \A m \in FS!Plain : m # n => saved'[m] = saved[m]
        /\ disk'[n] = c
    BY <1>2, <1>4, <1>5, <1>10 DEF DiskInv
  <2> QED
    BY <1>2, <1>8, <2>1, <2>2, OuterChanged
<1> QED
  BY <1>2, <1>14, <1>15, <1>16, OtherReturned, SmallOp

\* Deleting takes the name that the ANSI functions read, which is the name itself
\* if it is plain.
LEMMA AnsiName ==
    ASSUME NEW n \in Names
    PROVE  /\ Ansi[n] \in Names
           /\ n \in FS!Plain => Ansi[n] = n
           /\ n \notin FS!Plain => Ansi[n] \notin FS!Plain
BY ConstantsAssumption DEF FS!Plain

LEMMA UnlinkStep ==
    ASSUME FilesInv, NEW n \in Names, FS!UnlinkSync(n)
    PROVE  FilesInv'
<1>1. CASE op' = FS!Thrown("unlink", n) /\ UNCHANGED <<disk, outer, saved>>
  BY <1>1, DiskSame, OtherThrown, SmallOp
<1>2. CASE /\ disk' = [disk EXCEPT ![Ansi[n]] = Absent]
           /\ saved' = IF n \in FS!Plain THEN FS!Forget(n) ELSE saved
           /\ op' = FS!Returned("unlink", n, None)
           /\ outer' = FS!Meanwhile(outer, Ansi[n], TRUE) /\ ~FS!InUse(Ansi[n])
  <2> DEFINE m == Ansi[n]
  <2>1. m \in Names /\ Absent \in Content /\ DiskInv
    BY AnsiName DEF Content, FilesInv
  <2>2. saved' = IF m \in FS!Plain THEN FS!Forget(m) ELSE saved
    BY <1>2, AnsiName
  <2>3. disk' = [disk EXCEPT ![m] = Absent]
    BY <1>2
  <2>4. outer' = FS!Meanwhile(outer, m, TRUE) /\ ~(outer.pc = "read" /\ outer.name = m)
    BY <1>2 DEF FS!InUse
  <2> HIDE DEF m
  <2>5. DiskInv'
    BY <2>1, <2>2, <2>3, Changed
  <2>6. /\ \A k \in Names : k # m => disk'[k] = disk[k]
        /\ \A k \in FS!Plain : k # m => saved'[k] = saved[k]
    BY <2>1, <2>2, <2>3 DEF DiskInv, FS!Forget
  <2>7. OuterInv'
    BY <2>1, <2>4, <2>6, OuterChanged
  <2> QED
    BY <1>2, <2>5, <2>7, OtherReturned, SmallOp
<1> QED
  BY <1>1, <1>2 DEF FS!UnlinkSync

LEMMA RenameStep ==
    ASSUME FilesInv, NEW old \in Names, NEW new \in Names, FS!RenameSync(old, new)
    PROVE  FilesInv'
<1>1. CASE op' = FS!Thrown("rename", old) /\ UNCHANGED <<disk, outer, saved>>
  BY <1>1, DiskSame, OtherThrown, SmallOp
<1>2. CASE /\ disk' = [disk EXCEPT ![Ansi[old]] = Absent, ![Ansi[new]] = disk[Ansi[old]]]
           /\ saved' = [n \in FS!Plain |->
                          IF n = old THEN None
                          ELSE IF n = new
                               THEN (IF old \in FS!Plain THEN saved[old] ELSE None)
                               ELSE saved[n]]
           /\ disk[Ansi[old]] # Absent /\ disk[Ansi[new]] = Absent
           /\ op' = FS!Returned("rename", old, None)
           /\ outer' = FS!Meanwhile(FS!Meanwhile(outer, Ansi[old], TRUE), Ansi[new], FALSE)
           /\ ~FS!InUse(Ansi[old])
  <2>1. DiskInv
    BY DEF FilesInv
  <2>2. Ansi[old] \in Names /\ Ansi[new] \in Names /\ Ansi[old] # Ansi[new]
    BY <1>2, AnsiName
  <2>3. disk' \in [Names -> Content]
    BY <1>2, <2>1, <2>2 DEF DiskInv, Content
  <2>4. saved' \in [FS!Plain -> Texts \cup {None}]
    BY <1>2, <2>1 DEF DiskInv
  <2>5. ASSUME NEW n \in FS!Plain, saved'[n] # None PROVE disk'[n] = saved'[n]
    <3>1. n \in Names /\ n # old
      BY <1>2, <2>5 DEF FS!Plain
    <3>2. CASE n = new
      <4>1. old \in FS!Plain /\ saved'[n] = saved[old] /\ saved[old] # None
        BY <1>2, <2>5, <3>1, <3>2
      <4>2. Ansi[old] = old /\ Ansi[new] = new
        BY <2>5, <3>2, <4>1, AnsiName
      <4>3. disk'[n] = disk[old]
        BY <1>2, <2>1, <2>2, <3>1, <3>2, <4>2 DEF DiskInv
      <4> QED
        BY <2>1, <4>1, <4>3 DEF DiskInv
    <3>3. CASE n # new
      <4>1. saved'[n] = saved[n] /\ saved[n] # None
        BY <1>2, <2>5, <3>1, <3>3
      <4>2. n # Ansi[old] /\ n # Ansi[new]
        BY <2>5, <3>1, <3>3, AnsiName
      <4>3. disk'[n] = disk[n]
        BY <1>2, <2>1, <3>1, <4>2 DEF DiskInv
      <4> QED
        BY <2>1, <4>1, <4>3 DEF DiskInv
    <3> QED
      BY <3>2, <3>3
  <2>6. DiskInv'
    BY <2>3, <2>4, <2>5 DEF DiskInv, FS!Plain
  <2>7. OuterInv'
    <3> DEFINE a == Ansi[old]
               b == Ansi[new]
               d == [disk EXCEPT ![a] = Absent]
               s == IF old \in FS!Plain THEN FS!Forget(old) ELSE saved
               o == FS!Meanwhile(outer, a, TRUE)
    <3>1. /\ Waits(outer) /\ OpTyped(outer) /\ OpFacts(outer, disk, saved)
          /\ outer.pc # "write" /\ ~(outer.pc = "read" /\ outer.name = a)
      BY <1>2, WaitsTyped DEF FilesInv, OuterInv, Waits, ReadOp, ListOp, FS!Idle, FS!InUse
    <3>2. \A m \in Names : m # a => d[m] = disk[m]
      BY <2>1 DEF DiskInv
    <3>3. \A m \in FS!Plain : m # a => s[m] = saved[m]
      BY <2>1, AnsiName DEF DiskInv, FS!Forget
    <3>4. a \in Names /\ b \in Names /\ a # b /\ d[b] = Absent
      BY <1>2, <2>1, <2>2 DEF DiskInv
    <3>5. /\ \A m \in Names : m # b => disk'[m] = d[m]
          /\ \A m \in FS!Plain : m # b => saved'[m] = s[m]
      <4>1. \A m \in Names : m # b => disk'[m] = d[m]
        BY <1>2, <2>1, <3>4 DEF DiskInv
      <4>2. ASSUME NEW m \in FS!Plain, m # b PROVE saved'[m] = s[m]
        <5>1. m # new
          BY <4>2, AnsiName
        <5>2. m = old => s[m] = None
          BY <2>1 DEF FS!Forget, DiskInv
        <5>3. m # old => s[m] = saved[m]
          BY <2>1 DEF FS!Forget, DiskInv
        <5> QED
          BY <1>2, <5>1, <5>2, <5>3
      <4> QED
        BY <4>1, <4>2
    <3>6. outer' = FS!Meanwhile(o, b, FALSE)
      BY <1>2
    <3> HIDE DEF a, b, d, s
    <3>7. OpTyped(o) /\ OpFacts(o, d, s) /\ Waits(o)
      <4>1. SameBut(a, disk, saved, d, s) /\ StillOpen(outer, a, d, s)
        BY <3>1, <3>2, <3>3 DEF SameBut, StillOpen
      <4> QED
        BY <3>1, <3>4, <4>1, MeanwhileFacts
    <3> HIDE DEF o
    <3>8. o.pc # "write" /\ ~(o.pc = "read" /\ o.name = b)
      BY <3>4, <3>7, Apart DEF Waits, ReadOp, ListOp, FS!Idle, OpFacts, ReadFacts
    <3>9. OpFacts(outer', disk', saved') /\ Waits(outer')
      <4>1. SameBut(b, d, s, disk', saved') /\ StillOpen(o, b, disk', saved')
        BY <3>5, <3>8 DEF SameBut, StillOpen
      <4>2. OpFacts(FS!Meanwhile(o, b, FALSE), disk', saved')
        BY <3>4, <3>7, <4>1, MeanwhileFacts
      <4>3. Waits(FS!Meanwhile(o, b, FALSE))
        BY <3>4, <3>7, <4>1, MeanwhileFacts
      <4> QED
        BY <3>6, <4>2, <4>3
    <3> QED
      BY <3>9 DEF OuterInv
  <2> QED
    BY <1>2, <2>6, <2>7, OtherReturned, SmallOp
<1> QED
  BY <1>1, <1>2 DEF FS!RenameSync

---------------------------------------------------------------------------
(* Listing *)

LEMMA AppendedName ==
    ASSUME NEW s \in Seq(Names), NEW x \in Names
    PROVE  /\ Append(s, x) \in Seq(Names)
           /\ ToSet(Append(s, x)) = ToSet(s) \cup {x}
           /\ IsInjective(s) /\ x \notin ToSet(s) => IsInjective(Append(s, x))
<1> DEFINE n == Len(s)
           t == Append(s, x)
<1>1. /\ n \in Nat /\ DOMAIN s = 1..n
      /\ t \in Seq(Names) /\ DOMAIN t = 1..(n + 1)
      /\ t[n + 1] = x /\ \A i \in 1..n : t[i] = s[i]
  OBVIOUS
<1> HIDE DEF t, n
<1>2. \A i \in 1..(n + 1) : i \in 1..n \/ i = n + 1
  BY <1>1
<1>3. n + 1 \in 1..(n + 1) /\ \A i \in 1..n : i \in 1..(n + 1)
  BY <1>1
<1>4. ToSet(t) = ToSet(s) \cup {x}
  BY <1>1, <1>2, <1>3 DEF ToSet
<1>5. IsInjective(s) /\ x \notin ToSet(s) => IsInjective(t)
  BY <1>1, <1>2 DEF IsInjective, ToSet
<1> QED
  BY <1>1, <1>4, <1>5 DEF t

\* The facts of a listing, for a step that only changes op.
LEMMA ListOpInv ==
    ASSUME DiskInv', OuterInv', op' \in ListOp, ListFacts(op') PROVE FilesInv'
<1>1. op'.pc \in {"list", "returned"} /\ op'.kind = "list"
  BY DEF ListOp
<1> QED
  BY <1>1 DEF FilesInv, OpInv, OpTyped, OpFacts, WriteFacts, ReadFacts,
     FS!ReadsWhatWasWritten

LEMMA StartListStep ==
    ASSUME FilesInv, FS!StartList
    PROVE  FilesInv'
<1>1. DiskInv' /\ OuterInv'
  BY DiskSame DEF FS!StartList
<1>2. CASE op' = FS!Thrown("list", None)
  BY <1>1, <1>2, OtherThrown, SmallOp
<1>3. CASE op' = [kind |-> "list", name |-> None, pc |-> "list", value |-> <<>>,
                  seen |-> {}, stay |-> FS!Present, ever |-> FS!Present]
  <2>1. FS!Present \subseteq Names
    BY DEF FS!Present
  <2>2. op' \in ListOp
    BY <1>3, <2>1 DEF ListOp
  <2>3. ToSet(<<>>) = {} /\ IsInjective(<<>>)
    BY DEF ToSet, IsInjective
  <2>4. ListFacts(op')
    BY <1>3, <2>3 DEF ListFacts
  <2> QED
    BY <1>1, <2>2, <2>4, ListOpInv
<1> QED
  BY <1>2, <1>3 DEF FS!StartList

LEMMA FindFileStep ==
    ASSUME FilesInv, NEW n \in Names, FS!FindFile(n)
    PROVE  FilesInv'
<1>1. DiskInv' /\ OuterInv'
  BY DiskSame DEF FS!FindFile
<1>2. op \in ListOp /\ op.pc = "list" /\ n \in op.ever /\ n \notin op.seen
  BY OpKinds DEF FilesInv, OpInv, FS!FindFile
<1>3. /\ op.kind = "list" /\ op.value \in Seq(Names) /\ op.seen \subseteq Names
      /\ op.stay \subseteq Names /\ op.ever \subseteq Names
  BY <1>2 DEF ListOp
<1>4. /\ op.stay \subseteq op.ever /\ op.seen \subseteq op.ever
      /\ ToSet(op.value) = op.seen \ Hidden /\ IsInjective(op.value)
  BY <1>2, <1>3 DEF FilesInv, OpInv, OpFacts, ListFacts
<1> DEFINE value == IF n \in Hidden THEN op.value ELSE Append(op.value, n)
<1>5. op' = [op EXCEPT !.seen = op.seen \cup {n}, !.value = value]
  BY DEF FS!FindFile
<1>6. /\ value \in Seq(Names) /\ IsInjective(value)
      /\ ToSet(value) = (op.seen \cup {n}) \ Hidden
  <2>1. n \notin ToSet(op.value)
    BY <1>2, <1>4
  <2> QED
    BY <1>3, <1>4, <2>1, AppendedName
<1> HIDE DEF value
<1>7. /\ op' \in ListOp /\ op'.pc = "list" /\ op'.seen = op.seen \cup {n}
      /\ op'.value = value /\ op'.stay = op.stay /\ op'.ever = op.ever
  BY <1>2, <1>3, <1>5, <1>6 DEF ListOp
<1>8. ListFacts(op')
  BY <1>2, <1>4, <1>6, <1>7 DEF ListFacts
<1> QED
  BY <1>1, <1>7, <1>8, ListOpInv

LEMMA ListEndsStep ==
    ASSUME FilesInv, FS!ListEnds
    PROVE  FilesInv'
<1>1. DiskInv' /\ OuterInv'
  BY DiskSame DEF FS!ListEnds
<1>2. CASE op' = FS!Thrown("list", None)
  BY <1>1, <1>2, OtherThrown, SmallOp
<1>3. CASE op.stay \subseteq op.seen /\ op' = [op EXCEPT !.pc = "returned"]
  <2>1. op \in ListOp /\ op.pc = "list" /\ op.kind = "list"
    BY OpKinds DEF FilesInv, OpInv, FS!ListEnds, ListOp
  <2>2. /\ op' \in ListOp /\ op'.seen = op.seen /\ op'.value = op.value
        /\ op'.stay = op.stay /\ op'.ever = op.ever
    BY <1>3, <2>1 DEF ListOp
  <2>3. ListFacts(op')
    BY <1>3, <2>1, <2>2 DEF FilesInv, OpInv, OpFacts, ListFacts
  <2> QED
    BY <1>1, <2>2, <2>3, ListOpInv
<1> QED
  BY <1>2, <1>3 DEF FS!ListEnds

---------------------------------------------------------------------------
(* Other processes *)

LEMMA DisturbStep ==
    ASSUME FilesInv, NEW n \in Names, NEW what \in Texts \cup {Absent, Directory},
           FS!Disturb(n, what)
    PROVE  FilesInv'
<1>1. DiskInv /\ OpTyped(op) /\ OpFacts(op, disk, saved) /\ what \in Content
  BY Apart DEF FilesInv, OpInv, Content
<1> DEFINE gone == what = Absent
<1>2. /\ disk' = [disk EXCEPT ![n] = what]
      /\ saved' = IF n \in FS!Plain THEN FS!Forget(n) ELSE saved
      /\ op' = FS!Meanwhile(op, n, gone) /\ outer' = FS!Meanwhile(outer, n, gone)
      /\ op.pc \in {"read", "write"} /\ op.name = n => what \in File
      /\ outer.pc = "read" /\ outer.name = n => what \in File
  BY Apart DEF FS!Disturb, FS!InUse
<1>3. DiskInv'
  BY <1>1, <1>2, Changed
<1>4. /\ disk'[n] = what /\ (n \in FS!Plain => saved'[n] = None)
      /\ \A m \in Names : m # n => disk'[m] = disk[m]
      /\ \A m \in FS!Plain : m # n => saved'[m] = saved[m]
  BY <1>1, <1>2 DEF DiskInv, FS!Forget
<1>5. gone \in BOOLEAN
  OBVIOUS
<1> HIDE DEF gone
<1>6. OuterInv'
  BY <1>2, <1>4, <1>5, OuterChanged
<1>7. OpTyped(op') /\ OpFacts(op', disk', saved')
  <2>1. SameBut(n, disk, saved, disk', saved') /\ StillOpen(op, n, disk', saved')
    BY <1>2, <1>4 DEF SameBut, StillOpen
  <2>2. /\ OpTyped(FS!Meanwhile(op, n, gone))
        /\ OpFacts(FS!Meanwhile(op, n, gone), disk', saved')
    BY <1>1, <1>5, <2>1, MeanwhileFacts
  <2> QED
    BY <1>2, <2>2
<1>8. FS!ReadsWhatWasWritten'
  <2>1. op'.pc = op.pc /\ (op.pc \in {"missing", "returned"} => op' = op)
    BY <1>1, <1>2, <1>5, MeanwhileSame
  <2>2. \A m \in FS!Plain : saved'[m] # None => saved'[m] = saved[m]
    BY <1>4
  <2>3. FS!ReadsWhatWasWritten
    BY DEF FilesInv, OpInv
  <2> QED
    BY <2>1, <2>2, <2>3 DEF FS!ReadsWhatWasWritten
<1> QED
  BY <1>3, <1>6, <1>7, <1>8 DEF FilesInv, OpInv

---------------------------------------------------------------------------
(* Finalizers *)

LEMMA FinalizersFiles ==
    ASSUME FilesInv, FS!Interrupted \/ FS!Resumed
    PROVE  FilesInv'
<1>1. /\ DiskInv /\ DiskInv' /\ UNCHANGED <<disk, saved>>
      /\ OpTyped(op) /\ OpFacts(op, disk, saved)
      /\ Waits(outer) /\ OpFacts(outer, disk, saved)
  BY DEF FilesInv, DiskInv, OpInv, OuterInv, FS!Interrupted, FS!Resumed
<1>2. CASE FS!Interrupted
  <2>1. op' = FS!Idle /\ outer' = op /\ Waits(op)
    BY <1>1, <1>2, OpKinds DEF FS!Interrupted, Waits
  <2>2. OuterInv'
    BY <1>1, <2>1 DEF OuterInv
  <2> QED
    BY <1>1, <2>1, <2>2, SmallOp
<1>3. CASE FS!Resumed
  <2>1. op' = outer /\ outer' = FS!Idle
    BY <1>3 DEF FS!Resumed
  <2>2. OuterInv'
    BY <2>1 DEF OuterInv, Waits, OpFacts, WriteFacts, ReadFacts, ListFacts, FS!Idle
  <2>3. OpTyped(op') /\ OpFacts(op', disk', saved')
    BY <1>1, <2>1, WaitsTyped
  <2>4. op'.kind = "read" => op'.pc = "read"
    BY <1>1, <2>1 DEF Waits, ReadOp, ListOp, FS!Idle
  <2> QED
    BY <1>1, <2>2, <2>3, <2>4 DEF FilesInv, OpInv, FS!ReadsWhatWasWritten
<1> QED
  BY <1>2, <1>3

---------------------------------------------------------------------------
(* The program *)

\* The script that AppMain reads has a name.
MainInv == phase \in {"start", "context", "load"} => main \in Names

\* A process that ends, or shows a failure, drops its operation.
LEMMA Dropped ==
    ASSUME FilesInv, UNCHANGED <<disk, saved>>, op' = FS!Idle,
           outer' = outer \/ outer' = FS!Idle
    PROVE  FilesInv'
<1>1. CASE outer' = outer
  BY <1>1, DiskSame, SmallOp
<1>2. CASE outer' = FS!Idle
  <2>1. OuterInv'
    BY <1>2 DEF OuterInv, Waits, OpFacts, WriteFacts, ReadFacts, ListFacts, FS!Idle
  <2>2. DiskInv'
    BY DEF FilesInv, DiskInv
  <2> QED
    BY <2>1, <2>2, SmallOp
<1> QED
  BY <1>1, <1>2

LEMMA FailDrops ==
    ASSUME FilesInv, NEW c, Fail(c) \/ Dialog(c) \/ ProcessEnds(c)
    PROVE  FilesInv' /\ phase' \in {"off", "failing"}
BY Dropped DEF Fail, Dialog, ProcessEnds

LEMMA FsSteps ==
    ASSUME FilesInv, FS!FsCall \/ FS!FsStep
    PROVE  FilesInv'
<1>1. CASE FS!FsCall
  BY <1>1, ReadSteps, UnlinkStep, StartWriteStep, RenameStep, StartListStep DEF FS!FsCall
<1>2. CASE FS!FsStep
  <2>1. CASE FS!OpenFile \/ FS!ReadBytes
    <3>1. \E n \in Names : TRUE
      <4>1. op \in OpenOp \cup ReadOp
        BY <2>1, OpKinds DEF FilesInv, OpInv, FS!OpenFile, FS!ReadBytes
      <4> QED
        BY <4>1 DEF OpenOp, ReadOp
    <3> QED
      BY <2>1, <3>1, ReadSteps
  <2> QED
    BY <1>2, <2>1, WriteBytesStep, ListEndsStep, FindFileStep DEF FS!FsStep
<1> QED
  BY <1>1, <1>2

LEMMA FilesInvStep ==
    ASSUME FilesInv, MainInv, [Next]_vars
    PROVE  FilesInv'
<1>1. ASSUME UNCHANGED fileVars PROVE FilesInv'
  BY <1>1 DEF fileVars, FilesInv, DiskInv, OpInv, OuterInv, FS!ReadsWhatWasWritten
<1>2. CASE \/ \E n \in Names : Launch(n)
           \/ CallScript \/ ScriptReturns \/ NativeStep \/ UNCHANGED vars
  BY <1>1, <1>2 DEF Launch, CallScript, ScriptReturns, NativeStep, vars
<1>3. CASE CheckScript \/ CreateDuktapeContext
  BY <1>1, <1>3, FailDrops DEF CheckScript, CreateDuktapeContext
<1>4. CASE BeginLoad
  BY <1>4, ReadSteps DEF BeginLoad, MainInv
<1>5. CASE LoadScript
  BY <1>5, FailDrops, Dropped DEF LoadScript, Crash
<1>6. CASE ScriptThrows \/ NativeCrash
  BY <1>6, FailDrops DEF ScriptThrows, NativeCrash, Crash
<1>7. CASE \/ HeapDestroyed \/ (\E c \in {0, 1} : Exit(c)) \/ Abort
           \/ DialogCloses \/ Killed
  BY <1>7, FailDrops DEF HeapDestroyed, Exit, Abort, DialogCloses, Killed
<1>8. CASE DialogUnwound
  BY <1>1, <1>8, FailDrops DEF DialogUnwound
<1>9. CASE ScriptCalls \/ FileStep
  BY <1>1, <1>9, FsSteps DEF ScriptCalls, FileStep
<1>10. CASE FileDone
  BY <1>10, Dropped DEF FileDone, FS!Taken
<1>11. CASE OthersAct
  BY <1>11, DisturbStep DEF OthersAct, FS!OthersAct
<1>12. CASE FinalizersBegin \/ FinalizersEnd
  BY <1>12, FinalizersFiles DEF FinalizersBegin, FinalizersEnd
<1> QED
  BY <1>2, <1>3, <1>4, <1>5, <1>6, <1>7, <1>8, <1>9, <1>10, <1>11, <1>12 DEF Next

LEMMA MainInvStep ==
    ASSUME MainInv, [Next]_vars
    PROVE  MainInv'
<1>1. ASSUME NEW c, Fail(c) \/ Dialog(c) \/ ProcessEnds(c) PROVE MainInv'
  BY <1>1 DEF Fail, Dialog, ProcessEnds, MainInv
<1>2. CASE \/ \E n \in Names : Launch(n)
           \/ CallScript \/ ScriptReturns \/ NativeStep \/ BeginLoad \/ ScriptCalls
           \/ FileStep \/ FileDone \/ FinalizersBegin \/ FinalizersEnd
           \/ OthersAct \/ UNCHANGED vars
  BY <1>2 DEF Launch, CallScript, ScriptReturns, NativeStep, BeginLoad, ScriptCalls,
     FileStep, FileDone, FinalizersBegin, FinalizersEnd, OthersAct, vars, appVars, MainInv
<1>3. CASE CheckScript \/ CreateDuktapeContext
  BY <1>1, <1>3 DEF CheckScript, CreateDuktapeContext, MainInv
<1>4. CASE LoadScript
  BY <1>1, <1>4 DEF LoadScript, Crash, MainInv
<1>5. CASE ScriptThrows \/ NativeCrash
  BY <1>1, <1>5 DEF ScriptThrows, NativeCrash, Crash
<1>6. CASE \/ HeapDestroyed \/ (\E c \in {0, 1} : Exit(c)) \/ Abort
           \/ DialogCloses \/ Killed
  BY <1>1, <1>6 DEF HeapDestroyed, Exit, Abort, DialogCloses, Killed
<1>7. CASE DialogUnwound
  BY <1>1, <1>7 DEF DialogUnwound, MainInv
<1> QED
  BY <1>2, <1>3, <1>4, <1>5, <1>6, <1>7 DEF Next

LEMMA FilesInvHolds == Spec => [](FilesInv /\ MainInv)
<1>1. Init => FilesInv /\ MainInv
  <2> SUFFICES ASSUME Init PROVE FilesInv /\ MainInv
    OBVIOUS
  <2>1. /\ disk \in [Names -> Texts \cup {Absent}]
        /\ saved = [n \in FS!Plain |-> None] /\ op = FS!Idle /\ outer = FS!Idle
    BY DEF Init, FS!FsInit
  <2>2. DiskInv
    BY <2>1, Apart DEF DiskInv, Content
  <2>3. OpInv /\ OuterInv
    BY <2>1 DEF OpInv, OuterInv, OpTyped, Waits, OpFacts, WriteFacts, ReadFacts, ListFacts,
       FS!Idle, FS!ReadsWhatWasWritten
  <2>4. MainInv
    BY DEF Init, MainInv
  <2> QED
    BY <2>2, <2>3, <2>4 DEF FilesInv
<1>2. FilesInv /\ MainInv /\ [Next]_vars => (FilesInv /\ MainInv)'
  BY FilesInvStep, MainInvStep
<1> QED
  BY <1>1, <1>2, PTL DEF Spec

---------------------------------------------------------------------------
(* The theorems *)

\* What was stored under a plain name and changed by no other process is never missing,
\* and a read that returns gives it as it was written (JSFileSystem.cpp:47, 74),
\* whatever was written, deleted and renamed in between, and by whichever process of
\* this program; only finalizers that change the file inside the read (62) can have it
\* give their text cut or padded to the size of before.
THEOREM FilesKeepContent == Spec => []ReadsWhatWasWritten
<1>1. FilesInv => ReadsWhatWasWritten
  BY DEF FilesInv, OpInv, ReadsWhatWasWritten
<1> QED
  BY <1>1, FilesInvHolds, PTL

\* A listing (JSFileSystem.cpp:8) has every visible name that was there all the time,
\* once, and none that was never there.
THEOREM ListingsComplete == Spec => []ListingComplete
<1>1. FilesInv => ListingComplete
  <2> SUFFICES ASSUME FilesInv, op.kind = "list", op.pc = "returned"
               PROVE  /\ op.stay \ Hidden \subseteq FS!ToSet(op.value)
                      /\ FS!ToSet(op.value) \subseteq op.ever \ Hidden
                      /\ FS!IsInjective(op.value)
    BY DEF ListingComplete, FS!ListingComplete
  <2>1. /\ op.stay \subseteq op.seen /\ op.seen \subseteq op.ever
        /\ ToSet(op.value) = op.seen \ Hidden /\ IsInjective(op.value)
    BY DEF FilesInv, OpInv, OpFacts, ListFacts
  <2>2. FS!ToSet(op.value) = ToSet(op.value)
    BY DEF FS!ToSet, ToSet
  <2>3. FS!IsInjective(op.value)
    BY <2>1 DEF FS!IsInjective, IsInjective
  <2> QED
    BY <2>1, <2>2, <2>3
<1> QED
  BY <1>1, FilesInvHolds, PTL

---------------------------------------------------------------------------
(* The script *)

\* What was read of a file, as the script of that name is to be run.
AsFound(value, n, bytes) ==
    IF n \in Bytecode THEN value = bytes ELSE SourceOf(value, bytes)

\* Before the script is called, AppMain alone uses files, under one name; what it
\* found there is on the disk while it reads, and in its hands afterwards.
LoadInv ==
    /\ ran => phase \notin {"off", "start", "context", "load", "loaded"}
    /\ phase \in {"off", "start", "context", "load", "loaded"} =>
          frames = <<>> /\ outer = FS!Idle
    /\ phase \in {"off", "start", "context", "loaded"} => op = FS!Idle
    /\ program # None => phase = "loaded"
    /\ phase \in {"context", "load"} /\ found # None => found = disk[main] /\ found \in File
    /\ phase = "load" => op = FS!Idle \/ /\ op.kind = IF main \in Bytecode THEN "read" ELSE "source"
                                         /\ op.name = main
    /\ phase = "load" /\ found # None =>
          /\ op.pc = "read" => op.size = Len(found)
          /\ op.pc = "returned" => AsFound(op.value, main, found)
    /\ program # None /\ found # None => AsFound(program, main, found)

LEMMA EndsLoad ==
    ASSUME LoadInv, NEW c,
           ProcessEnds(c) \/ (phase # "loaded" /\ (Fail(c) \/ Dialog(c)))
    PROVE  LoadInv'
<1>1. /\ program' = None /\ op' = FS!Idle /\ phase' \in {"off", "failing"}
      /\ phase' = "off" => ~ran' /\ frames' = <<>> /\ outer' = FS!Idle
  BY DEF Fail, Dialog, ProcessEnds, LoadInv
<1> QED
  BY <1>1 DEF LoadInv

LEMMA FileStepLoads ==
    ASSUME LoadInv, FilesInv, MainInv, FileStep
    PROVE  LoadInv'
<1>1. /\ FS!FsStep /\ op # FS!Idle
      /\ UNCHANGED <<frames, phase, main, program, ran, found>>
  <2>1. FS!OpenFile => op.pc = "open"
    BY DEF FS!OpenFile
  <2>2. FS!ReadBytes => op.pc = "read"
    BY DEF FS!ReadBytes
  <2>3. FS!WriteBytes => op.pc = "write"
    BY DEF FS!WriteBytes
  <2>4. FS!ListEnds \/ (\E n \in Names : FS!FindFile(n)) => op.pc = "list"
    BY DEF FS!ListEnds, FS!FindFile
  <2>5. FS!Idle.pc = "idle"
    BY DEF FS!Idle
  <2> QED
    BY <2>1, <2>2, <2>3, <2>4, <2>5 DEF FileStep, callVars, appVars, FS!FsStep
<1>2. CASE phase # "load"
  <2>1. phase \notin {"off", "start", "context", "loaded"}
    BY <1>1 DEF LoadInv
  <2> QED
    BY <1>1, <1>2, <2>1 DEF LoadInv
<1>3. CASE phase = "load"
  <2>1. /\ op.kind = IF main \in Bytecode THEN "read" ELSE "source"
        /\ op.name = main /\ main \in Names
    BY <1>1, <1>3 DEF LoadInv, MainInv
  <2>2. FS!OpenFile \/ FS!ReadBytes
    <3>1. op.pc \notin {"write", "list"}
      <4>1. op.pc = "write" => op.kind = "write"
        BY OpKinds DEF FilesInv, OpInv, WriteOp
      <4>2. op.pc = "list" => op.kind = "list"
        BY OpKinds DEF FilesInv, OpInv, ListOp
      <4> QED
        BY <2>1, <4>1, <4>2
    <3> QED
      BY <1>1, <3>1 DEF FS!FsStep, FS!WriteBytes, FS!ListEnds, FS!FindFile
  <2>3. UNCHANGED <<disk, outer>>
    BY <2>2 DEF FS!OpenFile, FS!ReadBytes
  <2>4. CASE FS!OpenFile
    <3>1. /\ op'.kind = op.kind /\ op'.name = op.name
          /\ op'.pc \in {"read", "thrown"}
          /\ op'.pc = "read" => op'.size = Len(disk[main])
      BY <2>1, <2>4 DEF FS!OpenFile, FS!Thrown
    <3> QED
      BY <1>1, <1>3, <2>1, <2>3, <3>1 DEF LoadInv
  <2>5. CASE FS!ReadBytes
    <3>1. /\ op' = [kind |-> op.kind, name |-> main, pc |-> "returned",
                    value |-> FS!Delivered(op.kind, disk[main], op.size),
                    alone |-> op.alone]
          /\ op.pc = "read"
      BY <2>1, <2>5 DEF FS!ReadBytes
    <3>2. ASSUME found # None
          PROVE  AsFound(FS!Delivered(op.kind, disk[main], op.size), main, found)
      <4>1. disk[main] = found /\ found \in File /\ op.size = Len(found)
        BY <1>3, <3>1, <3>2 DEF LoadInv
      <4> QED
        BY <2>1, <4>1, DeliveredWhole, DeliveredSource DEF AsFound
    <3>3. /\ op'.kind = op.kind /\ op'.name = main /\ op'.pc = "returned"
          /\ found # None => AsFound(op'.value, main, found)
      BY <3>1, <3>2
    <3> QED
      BY <1>1, <1>3, <2>1, <2>3, <3>3 DEF LoadInv
  <2> QED
    BY <2>2, <2>4, <2>5
<1> QED
  BY <1>2, <1>3

LEMMA OthersLoad ==
    ASSUME LoadInv, FilesInv, MainInv, OthersAct
    PROVE  LoadInv'
<1>1. PICK n \in Names, what \in Texts \cup {Absent, Directory} : FS!Disturb(n, what)
  BY DEF OthersAct, FS!OthersAct
<1>2. /\ UNCHANGED <<frames, phase, main, program, ran>>
      /\ found' = IF phase \in {"context", "load"} /\ disk'[main] # disk[main]
                  THEN None ELSE found
  BY DEF OthersAct, callVars
<1>3. /\ op' = FS!Meanwhile(op, n, what = Absent)
      /\ outer' = FS!Meanwhile(outer, n, what = Absent)
      /\ (what = Absent) \in BOOLEAN
      /\ OpTyped(op)
  BY <1>1 DEF FS!Disturb, FilesInv, OpInv
<1>4. outer = FS!Idle => outer' = FS!Idle
  BY <1>3 DEF FS!Meanwhile, FS!Idle
<1>5. op = FS!Idle => op' = FS!Idle
  BY <1>3 DEF FS!Meanwhile, FS!Idle
<1>6. /\ op'.kind = op.kind /\ op'.name = op.name /\ op'.pc = op.pc
      /\ op.pc = "read" => op'.size = op.size
      /\ op.pc = "returned" => op' = op
  BY <1>3, MeanwhileSame
<1> QED
  BY <1>2, <1>4, <1>5, <1>6 DEF LoadInv

LEMMA LoadInvStep ==
    ASSUME LoadInv, FilesInv, MainInv, [Next]_vars
    PROVE  LoadInv'
<1>1. CASE UNCHANGED vars
  BY <1>1 DEF vars, fileVars, callVars, appVars, LoadInv
<1>2. CASE \E n \in Names : Launch(n)
  BY <1>2 DEF Launch, fileVars, callVars, LoadInv
<1>3. CASE CheckScript
  <2>1. CASE FS!FileExists(main)
    <3>1. /\ phase = "start" /\ phase' = "context" /\ found' = disk[main]
          /\ UNCHANGED <<frames, disk, op, outer, main, program, ran>>
      BY <1>3, <2>1 DEF CheckScript, fileVars, callVars
    <3>2. disk[main] \in File
      BY <2>1, <3>1, SavedIsFile DEF MainInv, FilesInv
    <3> QED
      BY <3>1, <3>2 DEF LoadInv, FS!Idle
  <2>2. CASE ~FS!FileExists(main)
    BY <1>3, <2>2, EndsLoad DEF CheckScript
  <2> QED
    BY <2>1, <2>2
<1>4. CASE CreateDuktapeContext
  <2>1. CASE /\ phase = "context" /\ phase' = "load"
             /\ UNCHANGED <<frames, disk, op, outer, main, program, ran, found>>
    BY <2>1 DEF LoadInv, FS!Idle
  <2>2. CASE Fail(Aborted) /\ phase = "context"
    BY <2>2, EndsLoad
  <2> QED
    BY <1>4, <2>1, <2>2 DEF CreateDuktapeContext, fileVars, callVars
<1>5. CASE BeginLoad
  <2>1. /\ phase = "load" /\ op'.name = main
        /\ op'.kind = IF main \in Bytecode THEN "read" ELSE "source"
        /\ op'.pc \in {"open", "missing"}
        /\ UNCHANGED <<frames, disk, outer, phase, main, program, ran, found>>
    BY <1>5 DEF BeginLoad, FS!StartRead, FS!StartSource, FS!Opening, FS!Missing, callVars,
       appVars
  <2> QED
    BY <2>1 DEF LoadInv
<1>6. CASE LoadScript
  <2>1. CASE /\ phase = "load" /\ op.pc = "returned" /\ phase' = "loaded"
             /\ op' = FS!Idle /\ program' = op.value
             /\ UNCHANGED <<frames, disk, outer, main, ran, found>>
    BY <2>1 DEF LoadInv
  <2>2. CASE phase = "load" /\ (Fail(-1) \/ Dialog(Unhandled))
    BY <2>2, EndsLoad
  <2> QED
    BY <1>6, <2>1, <2>2 DEF LoadScript, Crash, callVars
<1>7. CASE CallScript
  BY <1>7 DEF CallScript, fileVars, callVars, LoadInv
<1>8. CASE ScriptReturns
  BY <1>8 DEF ScriptReturns, AtBottom, fileVars, callVars, LoadInv
<1>9. CASE ScriptThrows
  BY <1>9, EndsLoad DEF ScriptThrows, AtBottom, Crash
<1>10. CASE FileStep
  BY <1>10, FileStepLoads
<1>11. CASE FileDone
  <2>1. /\ phase # "load" /\ op' = FS!Idle
        /\ UNCHANGED <<frames, disk, outer, phase, main, program, ran, found>>
    BY <1>11 DEF FileDone, FS!Taken, callVars, appVars
  <2> QED
    BY <2>1 DEF LoadInv
<1>12. CASE NativeStep
  <2>1. frames # <<>> /\ UNCHANGED <<disk, op, outer, phase, main, program, ran, found>>
    BY <1>12 DEF NativeStep, fileVars, appVars, NC!Refuse, NC!Invoke, NC!CalleeEnds,
       NC!ListenerDone, NC!Unwound, NC!CalledBack, NC!At
  <2> QED
    BY <2>1 DEF LoadInv
<1>13. CASE ScriptCalls
  <2>1. ran /\ UNCHANGED <<phase, main, program, ran, found>>
    BY <1>13 DEF ScriptCalls, ScriptRuns, appVars
  <2> QED
    BY <2>1 DEF LoadInv
<1>14. CASE NativeCrash
  <2>1. phase # "loaded"
    BY <1>14 DEF NativeCrash, ScriptRuns, NC!At, LoadInv
  <2> QED
    BY <1>14, <2>1, EndsLoad DEF NativeCrash, Crash
<1>15. CASE (\E c \in {0, 1} : Exit(c)) \/ Abort
  BY <1>15, EndsLoad DEF Exit, Abort, ScriptRuns, LoadInv
<1>16. CASE HeapDestroyed
  BY <1>16, EndsLoad DEF HeapDestroyed
<1>17. CASE Killed
  BY <1>17, EndsLoad DEF Killed
<1>18. CASE DialogCloses
  BY <1>18, EndsLoad DEF DialogCloses, NC!At, LoadInv
<1>19. CASE DialogUnwound
  <2>1. phase \notin {"off", "start", "context", "load", "loaded"}
    BY <1>19 DEF DialogUnwound, NC!At, LoadInv
  <2>2. CASE ProcessEnds(Unhandled)
    BY <2>1, <2>2, EndsLoad
  <2>3. CASE UNCHANGED <<disk, op, outer, phase, main, program, ran, found>>
    BY <2>1, <2>3 DEF LoadInv
  <2> QED
    BY <1>19, <2>2, <2>3 DEF DialogUnwound, fileVars
<1>20. CASE OthersAct
  BY <1>20, OthersLoad
<1>21. CASE FinalizersBegin
  BY <1>21 DEF FinalizersBegin, FS!Interrupted, appVars, LoadInv
<1>22. CASE FinalizersEnd
  <2>1. phase \notin {"off", "start", "context", "load", "loaded"}
    BY <1>22 DEF FinalizersEnd, NC!At, LoadInv
  <2> QED
    BY <1>22, <2>1 DEF FinalizersEnd, FS!Resumed, appVars, LoadInv
<1> QED
  BY <1>1, <1>2, <1>3, <1>4, <1>5, <1>6, <1>7, <1>8, <1>9, <1>10, <1>11, <1>12, <1>13,
     <1>14, <1>15, <1>16, <1>17, <1>18, <1>19, <1>20, <1>21, <1>22 DEF Next

LEMMA LoadInvHolds == Spec => []LoadInv
<1>1. Init => LoadInv
  BY DEF Init, FS!FsInit, NC!NcInit, LoadInv
<1>2. FilesInv /\ MainInv /\ LoadInv /\ [Next]_vars => LoadInv'
  BY LoadInvStep
<1> QED
  BY <1>1, <1>2, FilesInvHolds, PTL DEF Spec

\* If nobody changes it in between, bytecode is run as FileExists found it
\* (NekoScript.cpp:101, JSFileSystem.cpp:47), although it is looked up twice more and
\* its size is not taken with its bytes.
THEOREM LoadsFound == Spec => []LoadsWhatWasFound
<1>1. LoadInv => LoadsWhatWasFound
  BY DEF LoadInv, LoadsWhatWasFound, AsFound
<1> QED
  BY <1>1, LoadInvHolds, PTL

\* So is a source (NekoScript.cpp:119, Helper.cpp:48), line ends aside, up to its first SUB
\* or NUL and with nothing behind it but blanks, whatever bytes it has.
THEOREM SourcesFound == Spec => []RunsWhatWasFound
<1>1. LoadInv => RunsWhatWasFound
  BY DEF LoadInv, RunsWhatWasFound, AsFound, SourceOf
<1> QED
  BY <1>1, LoadInvHolds, PTL

---------------------------------------------------------------------------
(* Types *)

Phases == {"off", "start", "context", "load", "loaded", "running", "closing", "failing"}

\* What is read and run are bytes, and a process that has ended has no script.
TypeInv ==
    /\ op.kind \in {"read", "source"} /\ op.pc = "returned" => op.value \in File
    /\ program = None \/ program \in File
    /\ phase \in Phases /\ (phase = "off" => main = None)
    /\ code \in Int \cup {None}
    /\ ran \in BOOLEAN /\ told \in BOOLEAN /\ asked \in BOOLEAN /\ closed \in BOOLEAN

LEMMA EndsTyped ==
    ASSUME TypeInv, NEW c \in Int \cup {None}, ProcessEnds(c),
           told' \in BOOLEAN, asked' \in BOOLEAN, closed' \in BOOLEAN
    PROVE  TypeInv'
BY DEF ProcessEnds, TypeInv, Phases, FS!Idle

LEMMA FailTyped ==
    ASSUME TypeInv, NEW c \in Int, Fail(c) \/ Dialog(c)
    PROVE  TypeInv'
<1>1. CASE Dialog(c)
  BY <1>1 DEF Dialog, TypeInv, Phases, FS!Idle
<1>2. CASE ProcessEnds(c) /\ told' = TRUE /\ UNCHANGED <<asked, closed>>
  <2>1. told' \in BOOLEAN /\ asked' \in BOOLEAN /\ closed' \in BOOLEAN
    BY <1>2 DEF TypeInv
  <2> QED
    BY <1>2, <2>1, EndsTyped
<1> QED
  BY <1>1, <1>2 DEF Fail

\* An operation returns bytes, if it reads.
LEMMA ReturnsBytes ==
    ASSUME FilesInv, TypeInv,
           FS!FsCall \/ FS!FsStep \/ FS!OthersAct \/ FS!Taken
           \/ FS!Interrupted \/ FS!Resumed
           \/ (\E n \in Names : FS!StartRead(n) \/ FS!StartSource(n))
    PROVE  op'.kind \in {"read", "source"} /\ op'.pc = "returned" => op'.value \in File
<1> DEFINE Fine == op'.kind \in {"read", "source"} /\ op'.pc = "returned" => op'.value \in File
<1>1. CASE FS!ReadBytes
  <2>1. op.pc = "read" /\ op \in ReadOp /\ disk[op.name] \in File
    BY <1>1, OpKinds DEF FS!ReadBytes, FilesInv, OpInv, OpFacts, ReadFacts
  <2>2. FS!Delivered(op.kind, disk[op.name], op.size) \in File
    BY <2>1, DeliveredFile DEF ReadOp
  <2> QED
    BY <1>1, <2>2 DEF FS!ReadBytes
<1>2. CASE FS!OpenFile
  BY <1>2 DEF FS!OpenFile, FS!Thrown
<1>3. CASE FS!WriteBytes
  BY <1>3 DEF FS!WriteBytes, FS!Returned
<1>4. CASE FS!ListEnds \/ (\E n \in Names : FS!FindFile(n))
  <2>1. op.pc = "list" /\ op \in ListOp
    BY <1>4, OpKinds DEF FS!ListEnds, FS!FindFile, FilesInv, OpInv
  <2>2. \A s, v : [op EXCEPT !.seen = s, !.value = v].kind = "list"
    BY <2>1 DEF ListOp
  <2>3. [op EXCEPT !.pc = "returned"].kind = "list"
    BY <2>1 DEF ListOp
  <2>4. CASE FS!ListEnds
    <3>1. op' = [op EXCEPT !.pc = "returned"] \/ op' = FS!Thrown("list", None)
      BY <2>4 DEF FS!ListEnds
    <3>2. FS!Thrown("list", None).kind = "list"
      BY DEF FS!Thrown
    <3>3. op'.kind = "list"
      BY <2>3, <3>1, <3>2
    <3> QED
      BY <3>3
  <2>5. CASE \E n \in Names : FS!FindFile(n)
    <3>1. \E s, v : op' = [op EXCEPT !.seen = s, !.value = v]
      BY <2>5 DEF FS!FindFile
    <3>2. op'.kind = "list"
      BY <2>2, <3>1
    <3> QED
      BY <3>2
  <2> QED
    BY <1>4, <2>4, <2>5
<1>5. CASE FS!FsCall \/ (\E n \in Names : FS!StartRead(n) \/ FS!StartSource(n))
  <2>1. CASE \E n \in Names : FS!StartRead(n) \/ FS!StartSource(n)
    <3>1. op'.pc \in {"open", "missing"}
      BY <2>1 DEF FS!StartRead, FS!StartSource, FS!Opening, FS!Missing
    <3> QED
      BY <3>1
  <2>2. CASE \E n \in Names, text \in Texts : FS!StartWrite(n, text)
    <3>1. \E n \in Names, text \in Texts :
             \/ op' = [kind |-> "write", name |-> n, pc |-> "write", text |-> text,
                       alone |-> TRUE]
             \/ op' = FS!Thrown("write", n)
      BY <2>2 DEF FS!StartWrite
    <3>2. op'.kind = "write"
      BY <3>1 DEF FS!Thrown
    <3> QED
      BY <3>2
  <2>3. CASE \E n \in Names : FS!UnlinkSync(n)
    <3>1. \E n \in Names :
             op' = FS!Returned("unlink", n, None) \/ op' = FS!Thrown("unlink", n)
      BY <2>3 DEF FS!UnlinkSync
    <3>2. op'.kind = "unlink"
      BY <3>1 DEF FS!Thrown, FS!Returned
    <3> QED
      BY <3>2
  <2>4. CASE \E old, new \in Names : FS!RenameSync(old, new)
    <3>1. \E n \in Names :
             op' = FS!Returned("rename", n, None) \/ op' = FS!Thrown("rename", n)
      BY <2>4 DEF FS!RenameSync
    <3>2. op'.kind = "rename"
      BY <3>1 DEF FS!Thrown, FS!Returned
    <3> QED
      BY <3>2
  <2>5. CASE FS!StartList
    <3>1. op'.kind = "list"
      BY <2>5 DEF FS!StartList, FS!Thrown
    <3> QED
      BY <3>1
  <2> QED
    BY <1>5, <2>1, <2>2, <2>3, <2>4, <2>5 DEF FS!FsCall
<1>6. CASE FS!OthersAct
  <2>1. PICK n \in Names, gone \in BOOLEAN : op' = FS!Meanwhile(op, n, gone)
    BY <1>6 DEF FS!OthersAct, FS!Disturb
  <2>2. op'.kind = op.kind /\ op'.pc = op.pc /\ (op.pc = "returned" => op' = op)
    BY <2>1, MeanwhileSame DEF FilesInv, OpInv
  <2> QED
    BY <2>2 DEF TypeInv
<1>7. CASE FS!Taken
  BY <1>7 DEF FS!Taken, FS!Idle
<1>8. CASE FS!Interrupted \/ FS!Resumed
  <2>1. op' = FS!Idle \/ op' \in ReadOp \cup ListOp
    BY <1>8 DEF FS!Interrupted, FS!Resumed, FilesInv, OuterInv, Waits
  <2> QED
    BY <2>1 DEF FS!Idle, ReadOp, ListOp
<1> QED
  BY <1>1, <1>2, <1>3, <1>4, <1>5, <1>6, <1>7, <1>8 DEF FS!FsStep

LEMMA TypeInvStep ==
    ASSUME FilesInv, MainInv, LoadInv, TypeInv, [Next]_vars
    PROVE  TypeInv'
<1>1. ASSUME UNCHANGED <<phase, main, program, ran, code, told, asked, closed>>,
             \/ UNCHANGED op
             \/ FS!FsCall \/ FS!FsStep \/ FS!OthersAct \/ FS!Taken
             \/ FS!Interrupted \/ FS!Resumed
             \/ \E n \in Names : FS!StartRead(n) \/ FS!StartSource(n)
      PROVE  TypeInv'
  BY <1>1, ReturnsBytes DEF TypeInv
<1>2. CASE UNCHANGED vars
  BY <1>1, <1>2 DEF vars, fileVars, appVars
<1>3. CASE \E n \in Names : Launch(n)
  BY <1>3 DEF Launch, fileVars, TypeInv, Phases
<1>4. CASE CheckScript
  BY <1>4, FailTyped DEF CheckScript, fileVars, TypeInv, Phases
<1>5. CASE CreateDuktapeContext
  <2>1. CASE Fail(Aborted)
    BY <2>1, FailTyped DEF Aborted
  <2>2. CASE phase' = "load" /\ UNCHANGED <<op, main, program, ran, code, told, asked, closed>>
    BY <2>2 DEF TypeInv, Phases
  <2> QED
    BY <1>5, <2>1, <2>2 DEF CreateDuktapeContext, fileVars
<1>6. CASE BeginLoad
  <2>1. main \in Names
    BY <1>6 DEF BeginLoad, MainInv
  <2> QED
    BY <1>1, <1>6, <2>1 DEF BeginLoad, appVars
<1>7. CASE LoadScript
  <2>1. CASE /\ phase = "load" /\ op.pc = "returned" /\ phase' = "loaded"
             /\ op' = FS!Idle /\ program' = op.value
             /\ UNCHANGED <<main, ran, code, told, asked, closed>>
    <3>1. op.value \in File
      BY <2>1 DEF LoadInv, TypeInv, FS!Idle
    <3> QED
      BY <2>1, <3>1 DEF TypeInv, Phases, FS!Idle
  <2>2. CASE Fail(-1) \/ Dialog(Unhandled)
    BY <2>2, FailTyped DEF Unhandled
  <2> QED
    BY <1>7, <2>1, <2>2 DEF LoadScript, Crash
<1>8. CASE CallScript
  BY <1>8 DEF CallScript, fileVars, TypeInv, Phases
<1>9. CASE ScriptReturns
  BY <1>9 DEF ScriptReturns, fileVars, TypeInv, Phases
<1>10. CASE ScriptThrows \/ NativeCrash
  <2>1. Fail(-1) \/ Dialog(Unhandled)
    BY <1>10 DEF ScriptThrows, NativeCrash, Crash
  <2> QED
    BY <2>1, FailTyped DEF Unhandled
<1>11. CASE \/ HeapDestroyed \/ (\E c \in {0, 1} : Exit(c)) \/ Abort
            \/ DialogCloses \/ Killed
  <2>1. \/ \E c \in {0, 1} : ProcessEnds(c)
        \/ ProcessEnds(Aborted) \/ ProcessEnds(code) \/ ProcessEnds(None)
    BY <1>11 DEF HeapDestroyed, Exit, Abort, DialogCloses, Killed
  <2>2. told' \in BOOLEAN /\ asked' \in BOOLEAN /\ closed' \in BOOLEAN
    BY <1>11 DEF HeapDestroyed, Exit, Abort, DialogCloses, Killed, TypeInv
  <2>3. code \in Int \cup {None}
    BY DEF TypeInv
  <2>4. PICK c \in Int \cup {None} : ProcessEnds(c)
    <3>1. Aborted \in Int /\ {0, 1} \subseteq Int
      BY DEF Aborted
    <3> QED
      BY <2>1, <2>3, <3>1
  <2> QED
    BY <2>2, <2>4, EndsTyped
<1>12. CASE DialogUnwound
  <2>1. CASE ProcessEnds(Unhandled) /\ UNCHANGED <<told, asked, closed>>
    <3>1. told' \in BOOLEAN /\ asked' \in BOOLEAN /\ closed' \in BOOLEAN
      BY <2>1 DEF TypeInv
    <3> QED
      BY <2>1, <3>1, EndsTyped DEF Unhandled
  <2>2. CASE code' = Unhandled /\ UNCHANGED <<op, phase, main, program, ran, told, asked, closed>>
    BY <2>2 DEF TypeInv, Unhandled
  <2> QED
    BY <1>12, <2>1, <2>2 DEF DialogUnwound, fileVars
<1>13. CASE ScriptCalls \/ NativeStep
  BY <1>1, <1>13 DEF ScriptCalls, NativeStep, fileVars, appVars
<1>14. CASE FileStep \/ FileDone \/ FinalizersBegin \/ FinalizersEnd
  BY <1>1, <1>14 DEF FileStep, FileDone, FinalizersBegin, FinalizersEnd, appVars
<1>15. CASE OthersAct
  BY <1>1, <1>15 DEF OthersAct
<1> QED
  BY <1>2, <1>3, <1>4, <1>5, <1>6, <1>7, <1>8, <1>9, <1>10, <1>11, <1>12, <1>13, <1>14,
     <1>15 DEF Next

\* Scripts are given bytes of files and padding (JSFileSystem.cpp:62, Helper.cpp:54), and
\* nothing of a process is left when it has ended, whichever way it did.
THEOREM TypeCorrect == Spec => []TypeOK
<1>1. Init => TypeInv
  <2> SUFFICES ASSUME Init PROVE TypeInv
    OBVIOUS
  <2>1. /\ op = FS!Idle /\ program = None /\ phase = "off" /\ main = None /\ code = None
        /\ ran = FALSE /\ told = FALSE /\ asked = FALSE /\ closed = FALSE
    BY DEF Init, FS!FsInit
  <2> QED
    BY <2>1 DEF TypeInv, Phases, FS!Idle
<1>2. FilesInv /\ MainInv /\ LoadInv /\ TypeInv /\ [Next]_vars => TypeInv'
  BY TypeInvStep
<1>3. ASSUME IInv, FilesInv, LoadInv, TypeInv PROVE TypeOK
  <2>1. \A n \in Names : disk[n] \in {Absent, Directory} \/ disk[n] \in Seq(Bytes)
    BY <1>3 DEF FilesInv, DiskInv, Content, File
  <2>2. saved \in [FS!Plain -> Texts \cup {None}]
    BY <1>3 DEF FilesInv, DiskInv
  <2>3. blocks \in Nat /\ (frames = <<>> => blocks = 0)
    BY <1>3 DEF IInv, CallInv, BlocksInv
  <2>4. phase = "off" => /\ op = FS!Idle /\ outer = FS!Idle /\ frames = <<>>
                         /\ blocks = 0 /\ main = None
    BY <1>3, <2>3 DEF LoadInv, TypeInv
  <2> QED
    BY <1>3, <2>1, <2>2, <2>3, <2>4 DEF TypeOK, TypeInv, Phases, File
<1> QED
  BY <1>1, <1>2, <1>3, IInvHolds, FilesInvHolds, LoadInvHolds, PTL DEF Spec
===========================================================================
