------------------------ MODULE PollingServerProofs ------------------------
(***************************************************************************)
(* Proofs about PollingServer for any number of clients and bytes and any  *)
(* size of the buffer: the text of every recv comes back, and nothing else *)
(* does as long as every recv brings a '\0'.                               *)
(***************************************************************************)
EXTENDS PollingServer, SequenceLemmas

-----------------------------------------------------------------------------
(* C strings: up to the first NUL, if there is one.                        *)
EndsAt(S, s, z) ==
    /\ s[z] = NUL
    /\ \A j \in 1 .. z - 1 : s[j] # NUL
    /\ CString(s) \in Seq(S)
    /\ Len(CString(s)) = z - 1
    /\ \A j \in 1 .. z - 1 : CString(s)[j] = s[j]

LEMMA CStringIs ==
  ASSUME NEW S, NEW s \in Seq(S), NEW i \in 1 .. Len(s), s[i] = NUL
  PROVE  \E z \in 1 .. i : EndsAt(S, s, z)
<1> DEFINE I == {j \in 1 .. Len(s) : s[j] = NUL}
           z == Min(I)
<1>1. Len(s) \in Nat
  BY LenProperties
<1>2. z \in I /\ \A j \in I : z <= j
  <2>1. I \subseteq Nat /\ I # {}
    OBVIOUS
  <2> HIDE DEF I
  <2>2. QED  BY <2>1, LeastNatural DEF Min
<1>3. CString(s) = SubSeq(s, 1, z - 1)
  <2>1. SelectInSeq(s, LAMBDA b : b = NUL) = IF I # {} THEN Min(I) ELSE 0
    BY DEF SelectInSeq
  <2>2. QED  BY <1>2, <2>1 DEF CString
<1> HIDE DEF z
<1>4. z \in 1 .. Len(s) /\ s[z] = NUL /\ z <= i
  BY <1>2
<1>5. ASSUME NEW j \in 1 .. z - 1
      PROVE  s[j] # NUL
  <2>1. j \in 1 .. Len(s) /\ ~(z <= j)
    BY <1>1, <1>4
  <2>2. QED  BY <1>2, <2>1
<1>6. /\ 1 \in Int /\ z - 1 \in Int
      /\ \A j \in 1 .. z - 1 : s[j] \in S
  <2>1. \A j \in 1 .. z - 1 : j \in 1 .. Len(s)
    BY <1>1, <1>4
  <2>2. QED  BY <1>4, <2>1, ElementOfSeq
<1>7. /\ SubSeq(s, 1, z - 1) \in Seq(S)
      /\ Len(SubSeq(s, 1, z - 1)) = IF 1 <= z - 1 THEN z - 1 - 1 + 1 ELSE 0
      /\ \A j \in 1 .. z - 1 - 1 + 1 : SubSeq(s, 1, z - 1)[j] = s[1 + j - 1]
  BY <1>6, SubSeqProperties
<1>8. /\ (IF 1 <= z - 1 THEN z - 1 - 1 + 1 ELSE 0) = z - 1
      /\ \A j \in 1 .. z - 1 : j \in 1 .. z - 1 - 1 + 1 /\ 1 + j - 1 = j
  BY <1>4
<1>9. z \in 1 .. i
  BY <1>4
<1>10. EndsAt(S, s, z)
  BY <1>3, <1>4, <1>5, <1>7, <1>8 DEF EndsAt
<1>11. QED  BY <1>9, <1>10

-----------------------------------------------------------------------------
(* Returned(c), step by step: how far d has been matched once the bytes of *)
(* e have been looked at.                                                  *)
Match(d, k, b) == IF k < Len(d) /\ d[k + 1] = b THEN k + 1 ELSE k

Matching(f, d, e) ==
    /\ f[0] = 0
    /\ \A i \in 1 .. Len(e) : f[i] = Match(d, f[i - 1], e[i])

LEMMA MatchingBound ==
  ASSUME NEW S, NEW d \in Seq(S), NEW e \in Seq(S), NEW f, Matching(f, d, e)
  PROVE  \A i \in 0 .. Len(e) : f[i] \in 0 .. Len(d)
<1> DEFINE T == {i \in Nat : i <= Len(e) => f[i] \in 0 .. Len(d)}
<1>1. Len(d) \in Nat /\ Len(e) \in Nat
  BY LenProperties
<1>2. 0 \in T
  BY <1>1 DEF Matching
<1>3. ASSUME NEW i \in Nat, i \in T
      PROVE  i + 1 \in T
  <2> SUFFICES ASSUME i + 1 <= Len(e)
               PROVE  f[i + 1] \in 0 .. Len(d)
    OBVIOUS
  <2>1. f[i] \in 0 .. Len(d) /\ i + 1 \in 1 .. Len(e) /\ (i + 1) - 1 = i
    BY <1>1, <1>3
  <2>2. f[i + 1] = Match(d, f[i], e[i + 1])
    BY <2>1 DEF Matching
  <2>3. QED  BY <1>1, <2>1, <2>2 DEF Match
<1>4. Nat \subseteq T
  <2> HIDE DEF T
  <2>1. QED  BY <1>2, <1>3, NatInductionSet
<1>5. QED  BY <1>1, <1>4

LEMMA MatchingUnique ==
  ASSUME NEW S, NEW d \in Seq(S), NEW e \in Seq(S),
         NEW f, Matching(f, d, e), NEW g, Matching(g, d, e)
  PROVE  f[Len(e)] = g[Len(e)]
<1> DEFINE T == {i \in Nat : i <= Len(e) => f[i] = g[i]}
<1>1. Len(e) \in Nat
  BY LenProperties
<1>2. 0 \in T
  BY DEF Matching
<1>3. ASSUME NEW i \in Nat, i \in T
      PROVE  i + 1 \in T
  <2> SUFFICES ASSUME i + 1 <= Len(e)
               PROVE  f[i + 1] = g[i + 1]
    OBVIOUS
  <2>1. f[i] = g[i] /\ i + 1 \in 1 .. Len(e) /\ (i + 1) - 1 = i
    BY <1>1, <1>3
  <2>2. QED  BY <2>1 DEF Matching
<1>4. Nat \subseteq T
  <2> HIDE DEF T
  <2>1. QED  BY <1>2, <1>3, NatInductionSet
<1>5. QED  BY <1>1, <1>4

(* The recursive function behind FoldLeft, on the subsets of D.            *)
Folded(g, d, e, D) ==
    g = [s \in SUBSET D |->
           IF s = {} THEN 0 ELSE Match(d, g[s \ {Max(s)}], e[Max(s)])]

(* Returned(c) of any two sequences.                                       *)
ReturnedOf(d, e) ==
    FoldLeft(LAMBDA k, b : IF k < Len(d) /\ d[k + 1] = b THEN k + 1 ELSE k, 0, e)

LEMMA ReturnedIsFold ==
  ASSUME NEW d, NEW e
  PROVE  ReturnedOf(d, e) = (CHOOSE g : Folded(g, d, e, DOMAIN e))[DOMAIN e]
BY DEF ReturnedOf, FoldLeft, MapThenFoldSet, Folded, Match

LEMMA MaxIs ==
  ASSUME NEW n \in Nat, NEW s, s \subseteq 1 .. n, n \in s
  PROVE  Max(s) = n
<1>1. \A y \in s : n >= y
  OBVIOUS
<1>2. Max(s) \in s /\ \A y \in s : Max(s) >= y
  BY <1>1 DEF Max
<1>3. Max(s) \in 1 .. n /\ Max(s) >= n
  BY <1>2
<1>4. QED  BY <1>3

LEMMA FoldExists ==
  ASSUME NEW d, NEW e, NEW n \in Nat
  PROVE  \E g : Folded(g, d, e, 1 .. n)
<1> DEFINE T == {i \in Nat : \E g : Folded(g, d, e, 1 .. i)}
<1>1. 0 \in T
  <2> DEFINE g == [s \in SUBSET (1 .. 0) |-> 0]
  <2>1. \A s \in SUBSET (1 .. 0) : s = {}
    OBVIOUS
  <2>2. g = [s \in SUBSET (1 .. 0) |->
               IF s = {} THEN 0 ELSE Match(d, g[s \ {Max(s)}], e[Max(s)])]
    BY <2>1
  <2> HIDE DEF g
  <2>3. Folded(g, d, e, 1 .. 0)
    BY <2>2 DEF Folded
  <2>4. QED  BY <2>3
<1>2. ASSUME NEW i \in Nat, i \in T
      PROVE  i + 1 \in T
  <2>1. PICK g : Folded(g, d, e, 1 .. i)
    BY <1>2
  <2> DEFINE D == 1 .. i + 1
             h == [s \in SUBSET D |-> IF i + 1 \in s
                                      THEN Match(d, g[s \ {i + 1}], e[i + 1])
                                      ELSE g[s]]
             Next1(s) == IF s = {} THEN 0 ELSE Match(d, h[s \ {Max(s)}], e[Max(s)])
  <2>2. ASSUME NEW s \in SUBSET D
        PROVE  h[s] = Next1(s)
    <3>1. CASE i + 1 \in s
      <4>1. Max(s) = i + 1
        <5>1. i + 1 \in Nat /\ s \subseteq 1 .. i + 1
          OBVIOUS
        <5>2. QED  BY <3>1, <5>1, MaxIs
      <4>2. s \ {i + 1} \in SUBSET D /\ i + 1 \notin s \ {i + 1} /\ s # {}
        BY <3>1
      <4>3. h[s \ {i + 1}] = g[s \ {i + 1}]
        BY <4>2
      <4>4. h[s] = Match(d, g[s \ {i + 1}], e[i + 1])
        BY <3>1
      <4> HIDE DEF h, D
      <4>5. QED  BY <4>1, <4>2, <4>3, <4>4
    <3>2. CASE i + 1 \notin s
      <4>1. s \in SUBSET (1 .. i)
        BY <3>2
      <4>2. g[s] = IF s = {} THEN 0 ELSE Match(d, g[s \ {Max(s)}], e[Max(s)])
        BY <2>1, <4>1 DEF Folded
      <4>3. s \ {Max(s)} \in SUBSET D /\ i + 1 \notin s \ {Max(s)}
        BY <3>2
      <4>4. h[s \ {Max(s)}] = g[s \ {Max(s)}] /\ h[s] = g[s]
        BY <3>2, <4>3
      <4> HIDE DEF h, D
      <4>5. QED  BY <4>2, <4>4
    <3>3. QED  BY <3>1, <3>2
  <2>3. h = [s \in SUBSET D |-> Next1(s)]
    <3>1. h = [s \in SUBSET D |-> h[s]]
      OBVIOUS
    <3> HIDE DEF h, Next1, D
    <3>2. QED  BY <2>2, <3>1
  <2> HIDE DEF h
  <2>4. Folded(h, d, e, 1 .. i + 1)
    BY <2>3 DEF Folded
  <2>5. QED  BY <2>4
<1>3. Nat \subseteq T
  <2> HIDE DEF T
  <2>1. QED  BY <1>1, <1>2, NatInductionSet
<1>4. QED  BY <1>3

(* What ReturnedOf is.                                                     *)
LEMMA ReturnedMatches ==
  ASSUME NEW S, NEW d \in Seq(S), NEW e \in Seq(S)
  PROVE  \E f : Matching(f, d, e) /\ ReturnedOf(d, e) = f[Len(e)]
<1> DEFINE n == Len(e)
           g == CHOOSE h : Folded(h, d, e, DOMAIN e)
           f == [i \in 0 .. n |-> g[1 .. i]]
<1>1. n \in Nat /\ DOMAIN e = 1 .. n
  BY LenProperties
<1>2. Folded(g, d, e, 1 .. n) /\ ReturnedOf(d, e) = g[1 .. n]
  BY <1>1, FoldExists, ReturnedIsFold
<1> HIDE DEF g, n
<1>3. f[0] = 0
  <2>1. g[{}] = 0
    BY <1>2 DEF Folded
  <2>2. 1 .. 0 = {} /\ 0 \in 0 .. n
    BY <1>1
  <2>3. f[0] = g[1 .. 0]
    BY <2>2
  <2>4. QED  BY <2>1, <2>2, <2>3
<1>4. ASSUME NEW i \in 1 .. n
      PROVE  f[i] = Match(d, f[i - 1], e[i])
  <2>1. i \in Nat /\ i \in 0 .. n /\ i - 1 \in 0 .. n /\ i \in 1 .. i
    BY <1>1
  <2>2. (1 .. i) \ {i} = 1 .. i - 1
    BY <2>1
  <2>3. Max(1 .. i) = i /\ 1 .. i # {}
    BY <2>1, MaxIs
  <2>4. 1 .. i \in SUBSET (1 .. n)
    BY <1>1
  <2>5. g[1 .. i] = Match(d, g[(1 .. i) \ {Max(1 .. i)}], e[Max(1 .. i)])
    BY <1>2, <2>3, <2>4 DEF Folded
  <2>6. g[1 .. i] = Match(d, g[1 .. i - 1], e[i])
    BY <2>2, <2>3, <2>5
  <2>7. QED  BY <2>1, <2>6
<1>5. f[n] = g[1 .. n]
  BY <1>1
<1> HIDE DEF f
<1>6. Matching(f, d, e) /\ ReturnedOf(d, e) = f[n]
  BY <1>2, <1>3, <1>4, <1>5 DEF Matching, n
<1>7. QED  BY <1>6 DEF n

LEMMA ReturnedIs ==
  ASSUME NEW S, NEW d \in Seq(S), NEW e \in Seq(S), NEW f, Matching(f, d, e)
  PROVE  ReturnedOf(d, e) = f[Len(e)]
BY ReturnedMatches, MatchingUnique

(* A longer d changes nothing if its next byte is not among those of e.    *)
LEMMA ReturnedLater ==
  ASSUME NEW S, NEW d \in Seq(S), NEW e \in Seq(S), NEW x \in Seq(S),
         x # <<>> => x[1] \notin Range(e)
  PROVE  ReturnedOf(d \o x, e) = ReturnedOf(d, e)
<1> DEFINE w == d \o x
<1>1. /\ Len(d) \in Nat /\ Len(e) \in Nat /\ Len(x) \in Nat
      /\ DOMAIN e = 1 .. Len(e)
  BY LenProperties
<1>2. /\ w \in Seq(S) /\ Len(w) = Len(d) + Len(x)
      /\ \A i \in 1 .. Len(d) + Len(x) :
            w[i] = IF i <= Len(d) THEN d[i] ELSE x[i - Len(d)]
  BY ConcatProperties
<1> HIDE DEF w
<1>3. PICK f : Matching(f, d, e) /\ ReturnedOf(d, e) = f[Len(e)]
  BY ReturnedMatches
<1>4. ASSUME NEW i \in 1 .. Len(e)
      PROVE  f[i] = Match(w, f[i - 1], e[i])
  <2>1. i - 1 \in 0 .. Len(e) /\ e[i] \in Range(e)
    BY <1>1 DEF Range
  <2>2. f[i - 1] \in 0 .. Len(d)
    BY <1>3, <2>1, MatchingBound
  <2> DEFINE k == f[i - 1]
  <2> HIDE DEF k
  <2>3. f[i] = Match(d, k, e[i])
    BY <1>3 DEF Matching, k
  <2>4. CASE k < Len(d)
    <3>1. k + 1 \in 1 .. Len(d) + Len(x) /\ k + 1 <= Len(d) /\ k < Len(w)
      BY <1>1, <1>2, <2>2, <2>4 DEF k
    <3>2. w[k + 1] = d[k + 1]
      BY <1>2, <3>1
    <3>3. QED  BY <2>3, <2>4, <3>1, <3>2 DEF Match, k
  <2>5. CASE k = Len(d)
    <3>1. f[i] = k
      BY <1>1, <2>3, <2>5 DEF Match
    <3>2. CASE Len(x) = 0
      <4>1. ~(k < Len(w))
        BY <1>1, <1>2, <2>5, <3>2
      <4>2. QED  BY <3>1, <4>1 DEF Match, k
    <3>3. CASE Len(x) # 0
      <4>1. k + 1 \in 1 .. Len(d) + Len(x) /\ ~(k + 1 <= Len(d)) /\ (k + 1) - Len(d) = 1
        BY <1>1, <2>5, <3>3
      <4>2. w[k + 1] = x[1]
        BY <1>2, <4>1
      <4>3. x # <<>>
        BY <3>3, LenZero
      <4>4. w[k + 1] # e[i]
        BY <2>1, <4>2, <4>3
      <4>5. QED  BY <3>1, <4>4 DEF Match, k
    <3>4. QED  BY <3>2, <3>3
  <2>6. k < Len(d) \/ k = Len(d)
    BY <1>1, <2>2 DEF k
  <2>7. QED  BY <2>4, <2>5, <2>6
<1>5. Matching(f, w, e)
  BY <1>3, <1>4 DEF Matching
<1>6. ReturnedOf(w, e) = f[Len(e)]
  BY <1>2, <1>5, ReturnedIs
<1>7. QED  BY <1>3, <1>6 DEF w

(* What is missing of d after its first m bytes is at the front of y.      *)
Rest(m, d, y) ==
    /\ m <= Len(d) /\ Len(d) - m <= Len(y)
    /\ \A i \in 1 .. Len(d) - m : d[m + i] = y[i]

(* Once y has come too, nothing of d is missing.                           *)
LEMMA ReturnedMore ==
  ASSUME NEW S, NEW d \in Seq(S), NEW e \in Seq(S), NEW y \in Seq(S),
         Rest(ReturnedOf(d, e), d, y)
  PROVE  ReturnedOf(d, e \o y) = Len(d)
<1> DEFINE w == e \o y
<1>1. Len(d) \in Nat /\ Len(e) \in Nat /\ Len(y) \in Nat
  BY LenProperties
<1>2. /\ w \in Seq(S) /\ Len(w) = Len(e) + Len(y)
      /\ \A i \in 1 .. Len(e) + Len(y) :
            w[i] = IF i <= Len(e) THEN e[i] ELSE y[i - Len(e)]
  BY ConcatProperties
<1> HIDE DEF w
<1>3. PICK f : Matching(f, d, e) /\ ReturnedOf(d, e) = f[Len(e)]
  BY ReturnedMatches
<1> DEFINE m == f[Len(e)]
           After(i) == IF m + i <= Len(d) THEN m + i ELSE Len(d)
           g == [i \in 0 .. Len(w) |-> IF i <= Len(e) THEN f[i] ELSE After(i - Len(e))]
<1>4. m \in 0 .. Len(d)
  <2>1. Len(e) \in 0 .. Len(e)
    BY <1>1
  <2>2. QED  BY <1>3, <2>1, MatchingBound
<1>5. Rest(m, d, y)
  BY <1>3
<1>6. \A i \in 0 .. Len(w) : g[i] = IF i <= Len(e) THEN f[i] ELSE After(i - Len(e))
  OBVIOUS
<1> HIDE DEF g, m
<1>7. \A i \in 0 .. Len(y) : g[Len(e) + i] = After(i)
  <2> TAKE i \in 0 .. Len(y)
  <2>1. Len(e) + i \in 0 .. Len(w) /\ (Len(e) + i) - Len(e) = i
    BY <1>1, <1>2
  <2>2. CASE i = 0
    BY <1>1, <1>4, <1>6, <2>1, <2>2 DEF m
  <2>3. CASE i # 0
    <3>1. ~(Len(e) + i <= Len(e))
      BY <1>1, <2>3
    <3>2. QED  BY <1>6, <2>1, <3>1
  <2>4. QED  BY <2>2, <2>3
<1>8. g[0] = 0
  BY <1>1, <1>2, <1>3, <1>6 DEF Matching
<1>9. ASSUME NEW i \in 1 .. Len(w)
      PROVE  g[i] = Match(d, g[i - 1], w[i])
  <2>1. i \in 1 .. Len(e) + Len(y)
    BY <1>2
  <2>2. CASE i <= Len(e)
    <3>1. i \in 1 .. Len(e) /\ i \in 0 .. Len(w) /\ i - 1 \in 0 .. Len(w) /\ i - 1 <= Len(e)
      BY <1>1, <1>2, <2>2
    <3>2. g[i] = f[i] /\ g[i - 1] = f[i - 1] /\ w[i] = e[i]
      BY <1>2, <1>6, <2>1, <2>2, <3>1
    <3>3. QED  BY <1>3, <3>1, <3>2 DEF Matching
  <2>3. CASE i > Len(e)
    <3> DEFINE k == i - Len(e)
    <3>1. /\ k \in 1 .. Len(y) /\ k - 1 \in 0 .. Len(y) /\ k \in 0 .. Len(y)
          /\ Len(e) + k = i /\ Len(e) + (k - 1) = i - 1 /\ ~(i <= Len(e))
      BY <1>1, <2>1, <2>3
    <3>2. w[i] = y[k]
      BY <1>2, <2>1, <3>1
    <3> HIDE DEF k
    <3>3. g[i] = After(k) /\ g[i - 1] = After(k - 1)
      BY <1>7, <3>1
    <3>4. CASE m + k <= Len(d)
      <4>1. /\ k \in 1 .. Len(d) - m /\ m + (k - 1) <= Len(d) /\ m + (k - 1) < Len(d)
            /\ (m + (k - 1)) + 1 = m + k
        BY <1>1, <1>4, <3>1, <3>4
      <4>2. d[m + k] = y[k]
        BY <1>5, <4>1 DEF Rest
      <4>3. g[i] = m + k /\ g[i - 1] = m + (k - 1)
        BY <3>3, <3>4, <4>1
      <4>4. Match(d, m + (k - 1), y[k]) = m + k
        BY <4>1, <4>2 DEF Match
      <4>5. QED  BY <3>2, <4>3, <4>4
    <3>5. CASE ~(m + k <= Len(d))
      <4>1. After(k) = Len(d) /\ After(k - 1) = Len(d)
        BY <1>1, <1>4, <3>1, <3>5
      <4>2. Match(d, Len(d), y[k]) = Len(d)
        BY <1>1 DEF Match
      <4>3. QED  BY <3>2, <3>3, <4>1, <4>2
    <3>6. QED  BY <3>4, <3>5
  <2>4. QED  BY <1>1, <2>1, <2>2, <2>3
<1>10. ReturnedOf(d, w) = g[Len(w)]
  <2>1. Matching(g, d, w)
    BY <1>8, <1>9 DEF Matching
  <2>2. QED  BY <1>2, <2>1, ReturnedIs
<1>11. g[Len(w)] = Len(d)
  <2>1. Len(y) \in 0 .. Len(y) /\ g[Len(e) + Len(y)] = After(Len(y))
    BY <1>1, <1>7
  <2>2. After(Len(y)) = Len(d)
    BY <1>1, <1>4, <1>5 DEF Rest
  <2>3. QED  BY <1>2, <2>1, <2>2
<1>12. QED  BY <1>10, <1>11 DEF w

-----------------------------------------------------------------------------
(* A buffer b that begins with t, and holds a NUL somewhere, as a C string:*)
(* it begins with what t is as one, and is just that if t has a NUL.       *)
LEMMA Chunk ==
  ASSUME NEW S, NUL \in S, NEW t \in Seq(S), NEW b \in Seq(S),
         Len(t) <= Len(b), \A j \in 1 .. Len(t) : b[j] = t[j],
         NEW end \in 1 .. Len(b), b[end] = NUL,
         NEW x, x = CString(Append(t, NUL)), NEW y, y = CString(b)
  PROVE  /\ x \in Seq(S) /\ y \in Seq(S)
         /\ Len(x) <= Len(t) /\ Len(x) <= Len(y)
         /\ \A j \in 1 .. Len(x) : x[j] = t[j] /\ y[j] = t[j] /\ t[j] # NUL
         /\ \A j \in 1 .. Len(y) : \E k \in 1 .. end : y[j] = b[k] /\ b[k] # NUL
         /\ NUL \in Range(t) => x = y
<1>0. PICK a : a = Append(t, NUL)
  OBVIOUS
<1>1. Len(t) \in Nat /\ Len(b) \in Nat /\ DOMAIN t = 1 .. Len(t)
  BY LenProperties
<1>2. /\ a \in Seq(S) /\ Len(a) = Len(t) + 1
      /\ \A j \in 1 .. Len(t) : a[j] = t[j]
      /\ a[Len(t) + 1] = NUL
  BY <1>0, AppendProperties
<1> DEFINE last == Len(t) + 1
<1>3. a \in Seq(S) /\ last \in 1 .. Len(a) /\ a[last] = NUL
  BY <1>1, <1>2
<1> HIDE DEF last
<1>4. PICK z \in 1 .. last : EndsAt(S, a, z)
  BY <1>3, CStringIs
<1>5. PICK v \in 1 .. end : EndsAt(S, b, v)
  BY CStringIs
<1> USE DEF last, EndsAt
<1>6. /\ x \in Seq(S) /\ Len(x) = z - 1
      /\ \A j \in 1 .. z - 1 : x[j] = a[j]
  BY <1>0, <1>4
<1>7. /\ y \in Seq(S) /\ Len(y) = v - 1
      /\ \A j \in 1 .. v - 1 : y[j] = b[j]
  BY <1>5
<1>8. \A j \in 1 .. z - 1 : j \in 1 .. Len(t) /\ a[j] = t[j] /\ b[j] = t[j] /\ t[j] # NUL
  <2> TAKE j \in 1 .. z - 1
  <2>1. j \in 1 .. Len(t)
    BY <1>1, <1>4
  <2>2. QED  BY <1>2, <1>4, <2>1
<1>9. z <= v
  <2>1. v \in 1 .. z - 1 => b[v] # NUL
    BY <1>8
  <2>2. QED  BY <1>4, <1>5, <2>1
<1>10. \A j \in 1 .. z - 1 : j \in 1 .. v - 1
  BY <1>9
<1>11. NUL \in Range(t) => x = y
  <2> SUFFICES ASSUME NUL \in Range(t)
               PROVE  x = y
    OBVIOUS
  <2>1. PICK k \in 1 .. Len(t) : t[k] = NUL
    BY <1>1 DEF Range
  <2>2. ~(k \in 1 .. z - 1)
    BY <1>8, <2>1
  <2>3. z \in 1 .. Len(t)
    BY <1>1, <2>2
  <2>4. b[z] = NUL
    BY <1>2, <1>4, <2>3
  <2>5. ~(z \in 1 .. v - 1)
    BY <1>5, <2>4
  <2>6. z = v
    BY <1>9, <2>5
  <2>7. QED  BY <1>6, <1>7, <1>8, <2>6, SeqEqual
<1>12. \A j \in 1 .. Len(y) : \E k \in 1 .. end : y[j] = b[k] /\ b[k] # NUL
  <2> TAKE j \in 1 .. Len(y)
  <2>1. j \in 1 .. v - 1 /\ j \in 1 .. end
    BY <1>7
  <2>2. QED  BY <1>5, <1>7, <2>1
<1>13. Len(x) <= Len(t) /\ Len(x) <= Len(y)
  BY <1>1, <1>6, <1>7, <1>9
<1>14. QED  BY <1>6, <1>7, <1>8, <1>10, <1>11, <1>12, <1>13

-----------------------------------------------------------------------------
(* Positions of c's stream that recv has not reached.                      *)
Ahead(c) == {<<c, k>> : k \in taken[c] + 1 .. MaxBytes}

NothingAhead ==
    \A c \in Clients : /\ Range(recvBuffer) \cap Ahead(c) = {}
                       /\ Range(echoed[c]) \cap Ahead(c) = {}

(* A chunk of c's is about to be sent.                                     *)
Owing(c) == pc = "send" /\ hClient = c

(* While only whole strings have come: what is due is what came back and   *)
(* what is about to be sent.                                               *)
Whole ==
    \A c \in Clients : ~bare /\ ~short[c] /\ pc # "undefined" =>
        due[c] = IF Owing(c) THEN echoed[c] \o ToSend ELSE echoed[c]

(* In general: ToSend begins with what is missing of due[c].               *)
Back ==
    \A c \in Clients : ~short[c] /\ pc # "undefined" =>
        IF Owing(c) THEN Rest(ReturnedOf(due[c], echoed[c]), due[c], ToSend)
        ELSE ReturnedOf(due[c], echoed[c]) = Len(due[c])

(* What is dropped follows a NUL; what is due has been taken.              *)
Behind ==
    \A c \in Clients : /\ Range(due[c]) \cap Ahead(c) = {}
                       /\ \A k \in Dropped(c) : k - 1 \in Zeros \cup Dropped(c)

Counters == sent \in [Clients -> Nat] /\ taken \in [Clients -> Nat]

Typed == TypeOK /\ Counters

IInv == Typed /\ NothingAhead /\ Whole /\ Back /\ Behind

(* What TypeOK says of the buffers and of the chunk a recv stores.         *)
LEMMA Units ==
  /\ NUL \in Unit /\ Junk \in Unit /\ NUL # Junk
  /\ \A c \in Clients, k \in 1 .. MaxBytes : Byte(c, k) \in Unit
  /\ \A c \in Clients, d \in Clients, k \in Nat :
        NUL # <<c, k>> /\ Junk # <<c, k>> /\ Byte(c, k) \in {NUL, <<c, k>>}
BY NoneAssumption DEF NUL, Junk, Unit, Byte

(* recvBuffer as send's strlen sees it.                                    *)
Seen(b) == b \o <<Junk, NUL>>

LEMMA SeenIs ==
  ASSUME NEW b \in [1 .. BufferSize -> Unit]
  PROVE  /\ b \in Seq(Unit) /\ Len(b) = BufferSize /\ DOMAIN b = 1 .. BufferSize
         /\ Seen(b) \in Seq(Unit) /\ Len(Seen(b)) = BufferSize + 2
         /\ \A j \in 1 .. BufferSize : Seen(b)[j] = b[j]
         /\ Seen(b)[BufferSize + 1] = Junk
         /\ Seen(b)[BufferSize + 2] = NUL
<1> DEFINE tail == <<Junk, NUL>>
<1>1. /\ tail \in Seq(Unit) /\ Len(tail) = 2
      /\ tail[1] = Junk /\ tail[2] = NUL
  BY Units
<1> HIDE DEF tail
<1>2. BufferSize \in Nat
  BY BufferAssumption
<1>3. b \in Seq(Unit)
  BY <1>2, SeqDef
<1>4. Len(b) = BufferSize /\ DOMAIN b = 1 .. BufferSize
  BY <1>2, <1>3, LenProperties
<1>5. /\ b \o tail \in Seq(Unit)
      /\ Len(b \o tail) = Len(b) + Len(tail)
      /\ \A i \in 1 .. Len(b) + Len(tail) :
            (b \o tail)[i] = IF i <= Len(b) THEN b[i] ELSE tail[i - Len(b)]
  BY <1>1, <1>3, ConcatProperties
<1>6. Seen(b) = b \o tail
  BY DEF Seen, tail
<1> HIDE DEF Seen
<1>7. Len(Seen(b)) = BufferSize + 2
  BY <1>1, <1>4, <1>5, <1>6
<1>8. \A i \in 1 .. BufferSize + 2 :
            Seen(b)[i] = IF i <= BufferSize THEN b[i] ELSE tail[i - BufferSize]
  BY <1>1, <1>4, <1>5, <1>6
<1>9. \A j \in 1 .. BufferSize : j \in 1 .. BufferSize + 2 /\ j <= BufferSize
  BY <1>2
<1>10. /\ BufferSize + 1 \in 1 .. BufferSize + 2 /\ ~(BufferSize + 1 <= BufferSize)
       /\ BufferSize + 2 \in 1 .. BufferSize + 2 /\ ~(BufferSize + 2 <= BufferSize)
       /\ (BufferSize + 1) - BufferSize = 1 /\ (BufferSize + 2) - BufferSize = 2
  BY <1>2
<1>11. Seen(b)[BufferSize + 1] = tail[1] /\ Seen(b)[BufferSize + 2] = tail[2]
  BY <1>8, <1>10
<1>12. QED  BY <1>1, <1>3, <1>4, <1>5, <1>6, <1>7, <1>8, <1>9, <1>11

(* What recv takes of a client.                                            *)
LEMMA TakenIs ==
  ASSUME Typed, NEW c \in Clients, NEW n \in Nat, n <= sent[c] - taken[c]
  PROVE  /\ Taken(c, n) \in Seq(Unit) /\ Len(Taken(c, n)) = n
         /\ \A j \in 1 .. n : /\ taken[c] + j \in 1 .. MaxBytes
                              /\ Taken(c, n)[j] = Byte(c, taken[c] + j)
                              /\ Taken(c, n)[j] \in {NUL, <<c, taken[c] + j>>}
<1>1. taken[c] \in Nat /\ sent[c] \in Nat /\ sent[c] <= MaxBytes /\ MaxBytes \in Nat
  BY StreamAssumption DEF Typed, TypeOK, Counters
<1>2. \A j \in 1 .. n : taken[c] + j \in 1 .. MaxBytes
  BY <1>1
<1>3. \A j \in 1 .. n : Taken(c, n)[j] = Byte(c, taken[c] + j)
  BY DEF Taken
<1>4. Taken(c, n) \in [1 .. n -> Unit]
  BY <1>2, Units DEF Taken
<1>5. Taken(c, n) \in Seq(Unit)
  BY <1>4, SeqDef
<1>6. Len(Taken(c, n)) = n
  BY <1>4, <1>5, LenProperties DEF EndsAt
<1>7. \A j \in 1 .. n : Byte(c, taken[c] + j) \in {NUL, <<c, taken[c] + j>>}
  BY DEF Byte
<1>8. QED  BY <1>2, <1>3, <1>5, <1>6, <1>7

LEMMA StoredIs ==
  ASSUME Typed, hClient \in Clients, NEW n \in 1 .. BufferSize,
         n <= sent[hClient] - taken[hClient]
  PROVE  /\ Stored(n) \in [1 .. BufferSize -> Unit]
         /\ \A j \in 1 .. n : Stored(n)[j] = Taken(hClient, n)[j]
         /\ \A j \in n + 1 .. BufferSize : Stored(n)[j] = recvBuffer[j]
<1>1. n \in Nat /\ BufferSize \in Nat /\ n <= BufferSize
  BY BufferAssumption
<1>2. \A j \in 1 .. BufferSize : Stored(n)[j] =
         IF j <= n THEN Byte(hClient, taken[hClient] + j) ELSE recvBuffer[j]
  BY DEF Stored
<1>3. \A j \in 1 .. n : j \in 1 .. BufferSize /\ j <= n
  BY <1>1
<1>4. \A j \in 1 .. n : Taken(hClient, n)[j] = Byte(hClient, taken[hClient] + j)
  BY DEF Taken
<1>5. \A j \in n + 1 .. BufferSize : j \in 1 .. BufferSize /\ ~(j <= n)
  BY <1>1
<1>6. \A j \in 1 .. n : Taken(hClient, n)[j] \in Unit
  BY <1>1, <1>4, TakenIs, Units
<1>7. \A j \in 1 .. BufferSize : recvBuffer[j] \in Unit
  BY DEF Typed, TypeOK
<1>8. ASSUME NEW j \in 1 .. BufferSize
      PROVE  Stored(n)[j] \in Unit
  <2>1. CASE j <= n
    <3>1. j \in 1 .. n
      BY <2>1
    <3>2. QED  BY <1>2, <1>4, <1>6, <2>1, <3>1
  <2>2. CASE ~(j <= n)
    BY <1>2, <1>7, <2>2
  <2>3. QED  BY <2>1, <2>2
<1>9. Stored(n) = [j \in 1 .. BufferSize |-> Stored(n)[j]]
  BY DEF Stored
<1>10. Stored(n) \in [1 .. BufferSize -> Unit]
  BY <1>8, <1>9
<1>11. QED  BY <1>2, <1>3, <1>4, <1>5, <1>10

(* A recv into recvBuffer: x is what it makes due, y what is to be sent.   *)
LEMMA RecvChunk ==
  ASSUME Typed, hClient \in Clients, NEW n \in 1 .. BufferSize,
         n <= sent[hClient] - taken[hClient],
         NEW x, x = CString(Append(Taken(hClient, n), NUL)),
         NEW y, y = CString(Seen(Stored(n)))
  PROVE  /\ x \in Seq(Unit) /\ y \in Seq(Unit) /\ Len(x) <= Len(y)
         /\ \A j \in 1 .. Len(x) : y[j] = x[j] /\ x[j] = <<hClient, taken[hClient] + j>>
         /\ \A j \in 1 .. Len(x) : taken[hClient] + j <= MaxBytes
         /\ NUL \in Range(Taken(hClient, n)) => x = y
<1> DEFINE t == Taken(hClient, n)
           b == Seen(Stored(n))
           end == BufferSize + 2
<1>1. n \in Nat /\ BufferSize \in Nat /\ n <= BufferSize
  BY BufferAssumption
<1>2. /\ t \in Seq(Unit) /\ Len(t) = n
      /\ \A j \in 1 .. n : /\ taken[hClient] + j \in 1 .. MaxBytes
                           /\ t[j] \in {NUL, <<hClient, taken[hClient] + j>>}
  BY <1>1, TakenIs
<1>3. /\ Stored(n) \in [1 .. BufferSize -> Unit]
      /\ \A j \in 1 .. n : Stored(n)[j] = t[j]
  BY StoredIs
<1>4. /\ b \in Seq(Unit) /\ Len(b) = BufferSize + 2
      /\ \A j \in 1 .. BufferSize : b[j] = Stored(n)[j]
      /\ b[BufferSize + 2] = NUL
  BY <1>3, SeenIs
<1>5. Len(t) <= Len(b) /\ end \in 1 .. Len(b) /\ b[end] = NUL
  BY <1>1, <1>2, <1>4
<1>6. \A j \in 1 .. Len(t) : b[j] = t[j]
  <2>1. \A j \in 1 .. Len(t) : j \in 1 .. n /\ j \in 1 .. BufferSize
    BY <1>1, <1>2
  <2>2. QED  BY <1>3, <1>4, <2>1
<1>7. x = CString(Append(t, NUL)) /\ y = CString(b) /\ NUL \in Unit
  BY Units
<1> HIDE DEF t, b, end
<1>8. /\ x \in Seq(Unit) /\ y \in Seq(Unit)
      /\ Len(x) <= Len(t) /\ Len(x) <= Len(y)
      /\ \A j \in 1 .. Len(x) : x[j] = t[j] /\ y[j] = t[j] /\ t[j] # NUL
      /\ NUL \in Range(t) => x = y
  <2>1. t \in Seq(Unit) /\ b \in Seq(Unit) /\ NUL \in Unit
    BY <1>2, <1>4, <1>7
  <2>2. QED  BY <1>5, <1>6, <1>7, <2>1, Chunk
<1>9. ASSUME NEW j \in 1 .. Len(x)
      PROVE  /\ y[j] = x[j] /\ x[j] = <<hClient, taken[hClient] + j>>
             /\ taken[hClient] + j <= MaxBytes
  <2>1. j \in 1 .. n
    BY <1>1, <1>2, <1>8, LenProperties
  <2>2. taken[hClient] + j \in 1 .. MaxBytes
    BY <1>2, <2>1
  <2>3. taken[hClient] + j <= MaxBytes
    BY <2>2, StreamAssumption
  <2>4. QED  BY <1>2, <1>8, <2>1, <2>3
<1>10. QED  BY <1>8, <1>9 DEF t

(* What is to be sent is in recvBuffer, or is behind it.                   *)
LEMMA ToSendIs ==
  ASSUME Typed
  PROVE  /\ ToSend = CString(Seen(recvBuffer))
         /\ ToSend \in Seq(Unit)
         /\ Range(ToSend) \subseteq Range(recvBuffer) \cup {Junk}
<1> DEFINE b == Seen(recvBuffer)
           end == BufferSize + 2
<1>1. BufferSize \in Nat /\ recvBuffer \in [1 .. BufferSize -> Unit]
  BY BufferAssumption DEF Typed, TypeOK
<1>2. /\ recvBuffer \in Seq(Unit) /\ DOMAIN recvBuffer = 1 .. BufferSize
      /\ b \in Seq(Unit) /\ Len(b) = BufferSize + 2
      /\ \A j \in 1 .. BufferSize : b[j] = recvBuffer[j]
      /\ b[BufferSize + 1] = Junk /\ b[BufferSize + 2] = NUL
  BY <1>1, SeenIs
<1>3. end \in 1 .. Len(b) /\ b[end] = NUL
  BY <1>1, <1>2
<1>4. ToSend = CString(b)
  BY DEF ToSend, Seen
<1> HIDE DEF b, end
<1>5. PICK z \in 1 .. end : EndsAt(Unit, b, z)
  BY <1>2, <1>3, CStringIs
<1>6. DOMAIN ToSend = 1 .. z - 1
  BY <1>4, <1>5, LenProperties DEF EndsAt
<1>7. ASSUME NEW j \in 1 .. z - 1
      PROVE  ToSend[j] \in Range(recvBuffer) \cup {Junk}
  <2>1. j \in 1 .. BufferSize \/ j = BufferSize + 1
    BY <1>1 DEF end
  <2>2. ToSend[j] = b[j]
    BY <1>4, <1>5 DEF EndsAt
  <2>3. QED  BY <1>2, <2>1, <2>2 DEF Range
<1>8. QED  BY <1>4, <1>5, <1>6, <1>7 DEF b, Range, EndsAt

-----------------------------------------------------------------------------
LEMMA InitOK == Init => IInv
<1> SUFFICES ASSUME Init
             PROVE  IInv
  OBVIOUS
<1>1. Typed
  <2>1. recvBuffer \in [1 .. BufferSize -> Unit]
    BY Units DEF Init
  <2>2. <<>> \in Seq(Clients) /\ <<>> \in Seq(Unit)
    OBVIOUS
  <2>3. MaxBytes \in Nat
    BY StreamAssumption
  <2>4. Counters /\ \A c \in Clients : sent[c] \in 0 .. MaxBytes /\ taken[c] \in 0 .. sent[c]
    BY <2>3 DEF Init, Counters
  <2>5. /\ echoed \in [Clients -> Seq(Unit)] /\ due \in [Clients -> Seq(Unit)]
        /\ short \in [Clients -> BOOLEAN] /\ link \in [Clients -> {"away", "open", "closed"}]
    BY <2>2 DEF Init
  <2>6. /\ retries \in BOOLEAN /\ pc = "accept" /\ hClient = None
        /\ backlog \in Seq(Clients) /\ bare \in BOOLEAN
    BY <2>2 DEF Init
  <2>7. QED  BY <2>1, <2>4, <2>5, <2>6 DEF Typed, TypeOK
<1>2. NothingAhead
  <2> SUFFICES ASSUME NEW c \in Clients, NEW k \in taken[c] + 1 .. MaxBytes
               PROVE  <<c, k>> \notin Range(recvBuffer) /\ <<c, k>> \notin Range(echoed[c])
    BY DEF NothingAhead, Ahead
  <2>1. k \in Nat
    BY StreamAssumption DEF Init
  <2>2. <<c, k>> # NUL /\ <<c, k>> # Junk
    BY <2>1, Units
  <2>3. \A i \in DOMAIN recvBuffer : recvBuffer[i] \in {NUL, Junk}
    BY DEF Init
  <2>4. echoed[c] = <<>> /\ DOMAIN echoed[c] = {}
    BY DEF Init
  <2>5. QED  BY <2>2, <2>3, <2>4 DEF Range
<1>3. Whole
  BY DEF Init, Whole, Owing
<1>4. Back
  <2>1. <<>> \in Seq(Unit) /\ Len(<<>>) = 0
    OBVIOUS
  <2>2. ReturnedOf(<<>>, <<>>) = 0
    <3>1. PICK f : Matching(f, <<>>, <<>>) /\ ReturnedOf(<<>>, <<>>) = f[Len(<<>>)]
      BY <2>1, ReturnedMatches
    <3>2. QED  BY <2>1, <3>1 DEF Matching
  <2>3. \A c \in Clients : echoed[c] = <<>> /\ due[c] = <<>> /\ ~Owing(c)
    BY DEF Init, Owing
  <2>4. QED  BY <2>1, <2>2, <2>3 DEF Back
<1>5. Behind
  <2> SUFFICES ASSUME NEW c \in Clients
               PROVE  Range(due[c]) = {} /\ Dropped(c) = {}
    BY DEF Behind
  <2>1. due[c] = <<>> /\ taken[c] = 0 /\ 1 .. 0 = {}
    BY DEF Init
  <2>2. QED  BY <2>1 DEF Range, Dropped
<1>6. QED  BY <1>1, <1>2, <1>3, <1>4, <1>5 DEF IInv

-----------------------------------------------------------------------------
(* The types, action by action.                                            *)
LEMMA TypeStep == Typed /\ [Next]_vars => Typed'
<1> SUFFICES ASSUME Typed, [Next]_vars
             PROVE  Typed'
  OBVIOUS
<1> USE DEF Typed, TypeOK, Counters
<1>1. CASE Accept
  <2>1. Head(backlog) \in Clients /\ Tail(backlog) \in Seq(Clients)
    BY <1>1, HeadTailProperties DEF Accept
  <2>2. Head(backlog) # None
    BY <2>1, NoneAssumption
  <2>3. QED  BY <1>1, <2>1, <2>2 DEF Accept
<1>2. CASE AcceptFails
  BY <1>2 DEF AcceptFails, netVars
<1>3. CASE Recv
  <2>1. hClient \in Clients
    BY <1>3 DEF Recv
  <2>2. PICK n \in 1 .. PacketSize :
           /\ n <= sent[hClient] - taken[hClient]
           /\ taken' = [taken EXCEPT ![hClient] = @ + n]
           /\ due' = [due EXCEPT ![hClient] = @ \o CString(Append(Taken(hClient, n), NUL))]
           /\ \/ /\ n <= BufferSize
                 /\ recvBuffer' = Stored(n)
                 /\ pc' = "send"
              \/ /\ n > BufferSize /\ retries
                 /\ pc' = "undefined"
                 /\ UNCHANGED recvBuffer
    BY <1>3 DEF Recv
  <2>3. n \in Nat
    BY BufferAssumption
  <2> DEFINE t == Taken(hClient, n)
             x == CString(Append(t, NUL))
  <2>4. t \in Seq(Unit)
    BY <2>1, <2>2, <2>3, TakenIs
  <2>5. x \in Seq(Unit)
    <3>1. /\ Append(t, NUL) \in Seq(Unit) /\ Len(Append(t, NUL)) = Len(t) + 1
          /\ Append(t, NUL)[Len(t) + 1] = NUL /\ Len(t) \in Nat
      BY <2>4, Units, AppendProperties, LenProperties
    <3>2. Len(t) + 1 \in 1 .. Len(Append(t, NUL))
      BY <3>1
    <3>3. \E z \in 1 .. Len(t) + 1 : EndsAt(Unit, Append(t, NUL), z)
      BY <3>1, <3>2, CStringIs
    <3>4. QED  BY <3>3 DEF EndsAt
  <2> HIDE DEF x, t
  <2>6. due[hClient] \o x \in Seq(Unit)
    BY <2>1, <2>5, ConcatProperties
  <2>7. due' \in [Clients -> Seq(Unit)]
    BY <2>1, <2>2, <2>6 DEF x, t
  <2>8. recvBuffer' \in [1 .. BufferSize -> Unit]
    <3>1. CASE n <= BufferSize /\ recvBuffer' = Stored(n)
      <4>1. n \in 1 .. BufferSize
        BY <2>3, <3>1, BufferAssumption
      <4>2. QED  BY <2>1, <2>2, <3>1, <4>1, StoredIs
    <3>2. CASE UNCHANGED recvBuffer
      BY <3>2
    <3>3. QED  BY <2>2, <3>1, <3>2
  <2>9. /\ taken' \in [Clients -> Nat]
        /\ \A c \in Clients : taken'[c] \in 0 .. sent[c]
    BY <2>1, <2>2, <2>3, StreamAssumption
  <2>10. bare' \in BOOLEAN
    BY <1>3 DEF Recv
  <2>11. pc' \in {"send", "undefined"} /\ UNCHANGED <<retries, hClient, netVars, echoed, short>>
    BY <1>3, <2>2 DEF Recv
  <2>12. hClient # None
    BY <2>1, NoneAssumption
  <2>13. QED  BY <2>7, <2>8, <2>9, <2>10, <2>11, <2>12 DEF netVars
<1>4. CASE RecvEnds
  BY <1>4 DEF RecvEnds, netVars
<1>5. CASE Send
  <2>1. hClient \in Clients
    BY <1>5 DEF Send
  <2>2. ToSend \in Seq(Unit) /\ Len(ToSend) \in Nat
    BY ToSendIs, LenProperties
  <2>3. ASSUME NEW n \in 0 .. Len(ToSend)
        PROVE  echoed[hClient] \o SubSeq(ToSend, 1, n) \in Seq(Unit)
    <3>1. \A i \in 1 .. n : i \in 1 .. Len(ToSend)
      BY <2>2
    <3>2. \A i \in 1 .. n : ToSend[i] \in Unit
      BY <2>2, <3>1, ElementOfSeq
    <3>3. SubSeq(ToSend, 1, n) \in Seq(Unit)
      BY <2>2, <3>2, SubSeqProperties
    <3>4. QED  BY <2>1, <3>3, ConcatProperties
  <2>4. echoed' \in [Clients -> Seq(Unit)]
    <3>1. CASE UNCHANGED echoed
      BY <3>1
    <3>2. CASE \E n \in 0 .. Len(ToSend) :
                  echoed' = [echoed EXCEPT ![hClient] = @ \o SubSeq(ToSend, 1, n)]
      BY <2>1, <2>3, <3>2
    <3>3. QED  BY <1>5, <3>1, <3>2 DEF Send
  <2>5. short' \in [Clients -> BOOLEAN]
    <3>1. \E p \in BOOLEAN : short' = [short EXCEPT ![hClient] = p]
      <4>1. CASE \E n \in 0 .. Len(ToSend) :
                    short' = [short EXCEPT ![hClient] = @ \/ n < Len(ToSend)]
        BY <4>1
      <4>2. CASE short' = [short EXCEPT ![hClient] = TRUE]
        BY <4>2
      <4>3. QED  BY <1>5, <4>1, <4>2 DEF Send
    <3>2. QED  BY <2>1, <3>1
  <2>6. /\ pc' = "recv" /\ hClient # None
        /\ UNCHANGED <<retries, hClient, recvBuffer, netVars, taken, due, bare>>
    BY <1>5 DEF Send
  <2>7. QED  BY <2>4, <2>5, <2>6 DEF netVars
<1>6. ASSUME NEW c \in Clients, ClientConnect(c)
      PROVE  Typed'
  <2>1. Append(backlog, c) \in Seq(Clients)
    BY AppendProperties
  <2>2. QED  BY <1>6, <2>1 DEF ClientConnect
<1>7. ASSUME NEW c \in Clients, ClientSend(c)
      PROVE  Typed'
  BY <1>7, StreamAssumption DEF ClientSend
<1>8. ASSUME NEW c \in Clients, ClientClose(c)
      PROVE  Typed'
  BY <1>8 DEF ClientClose
<1>9. CASE UNCHANGED vars
  BY <1>9 DEF vars, netVars
<1>10. QED  BY <1>1, <1>2, <1>3, <1>4, <1>5, <1>6, <1>7, <1>8, <1>9 DEF Next, Server

-----------------------------------------------------------------------------
(* Steps that leave the clients' bytes as they are.                        *)
Quiet ==
    /\ UNCHANGED <<recvBuffer, taken, echoed, due, bare, short>>
    /\ (pc # "send" /\ pc' # "send") \/ UNCHANGED <<pc, hClient>>
    /\ pc = "undefined" => pc' = "undefined"

LEMMA QuietStep ==
  ASSUME IInv, Quiet
  PROVE  NothingAhead' /\ Whole' /\ Back'
<1>1. ToSend' = ToSend
  BY DEF Quiet, ToSend
<1>2. \A c : Owing(c)' = Owing(c)
  BY DEF Quiet, Owing
<1>3. NothingAhead'
  BY DEF IInv, NothingAhead, Ahead, Quiet
<1>4. Whole'
  <2> SUFFICES ASSUME NEW c \in Clients, ~bare', ~short'[c], pc' # "undefined"
               PROVE  due'[c] = IF Owing(c)' THEN echoed'[c] \o ToSend' ELSE echoed'[c]
    BY DEF Whole
  <2>1. ~bare /\ ~short[c] /\ pc # "undefined"
    BY DEF Quiet
  <2>2. due[c] = IF Owing(c) THEN echoed[c] \o ToSend ELSE echoed[c]
    BY <2>1 DEF IInv, Whole
  <2>3. QED  BY <1>1, <1>2, <2>2 DEF Quiet
<1>5. Back'
  <2> SUFFICES ASSUME NEW c \in Clients, ~short'[c], pc' # "undefined"
               PROVE  IF Owing(c)' THEN Rest(ReturnedOf(due'[c], echoed'[c]), due'[c], ToSend')
                      ELSE ReturnedOf(due'[c], echoed'[c]) = Len(due'[c])
    BY DEF Back
  <2>1. ~short[c] /\ pc # "undefined"
    BY DEF Quiet
  <2>2. IF Owing(c) THEN Rest(ReturnedOf(due[c], echoed[c]), due[c], ToSend)
        ELSE ReturnedOf(due[c], echoed[c]) = Len(due[c])
    BY <2>1 DEF IInv, Back
  <2>3. QED  BY <1>1, <1>2, <2>2 DEF Quiet
<1>6. QED  BY <1>3, <1>4, <1>5

(* A recv of n bytes: what is due, and what is about to be sent, is of     *)
(* positions that nobody has seen yet.                                     *)
LEMMA RecvStep ==
  ASSUME IInv, Recv
  PROVE  NothingAhead' /\ Whole' /\ Back'
<1> DEFINE h == hClient
<1>1. Typed /\ h \in Clients
  BY DEF IInv, Typed, TypeOK, Recv
<1>2. PICK n \in 1 .. PacketSize :
         /\ n <= sent[h] - taken[h]
         /\ taken' = [taken EXCEPT ![h] = @ + n]
         /\ due' = [due EXCEPT ![h] = @ \o CString(Append(Taken(h, n), NUL))]
         /\ bare' = (bare \/ NUL \notin Range(Taken(h, n)))
         /\ \/ /\ n <= BufferSize
               /\ recvBuffer' = Stored(n)
               /\ pc' = "send"
            \/ /\ n > BufferSize /\ retries
               /\ pc' = "undefined"
               /\ UNCHANGED recvBuffer
  BY DEF Recv
<1>3. n \in Nat /\ UNCHANGED <<hClient, echoed, short>> /\ pc = "recv"
  BY BufferAssumption DEF Recv
<1>4. /\ taken[h] \in Nat /\ sent[h] <= MaxBytes /\ sent[h] \in Nat /\ MaxBytes \in Nat
      /\ taken'[h] = taken[h] + n
      /\ \A c \in Clients \ {h} : taken'[c] = taken[c] /\ due'[c] = due[c]
  BY <1>1, <1>2, StreamAssumption DEF Typed, TypeOK, Counters
<1>5. \A c \in Clients : Ahead(c)' \subseteq Ahead(c)
  <2> TAKE c \in Clients
  <2>1. taken[c] \in Nat /\ (taken'[c] = taken[c] \/ taken'[c] = taken[c] + n)
    BY <1>1, <1>4 DEF Typed, Counters
  <2>2. \A k \in taken'[c] + 1 .. MaxBytes : k \in taken[c] + 1 .. MaxBytes
    BY <1>3, <1>4, <2>1
  <2>3. QED  BY <2>2 DEF Ahead
<1>6. NothingAhead'
  <2>1. ASSUME NEW c \in Clients
        PROVE  /\ Range(recvBuffer) \cap Ahead(c)' = {}
               /\ Range(echoed[c]) \cap Ahead(c)' = {}
    BY <1>5 DEF IInv, NothingAhead
  <2>2. ASSUME NEW c \in Clients, n <= BufferSize, recvBuffer' = Stored(n)
        PROVE  Range(Stored(n)) \cap Ahead(c)' = {}
    <3> SUFFICES ASSUME NEW j \in DOMAIN Stored(n), Stored(n)[j] \in Ahead(c)'
                 PROVE  FALSE
      BY DEF Range
    <3>1. n \in 1 .. BufferSize /\ n <= BufferSize /\ BufferSize \in Nat
      BY <1>3, <2>2, BufferAssumption
    <3>2. /\ Stored(n) \in [1 .. BufferSize -> Unit]
          /\ \A i \in 1 .. n : Stored(n)[i] = Taken(h, n)[i]
          /\ \A i \in n + 1 .. BufferSize : Stored(n)[i] = recvBuffer[i]
      BY <1>1, <1>2, <3>1, StoredIs
    <3>3. j \in 1 .. BufferSize
      BY <3>2
    <3>4. CASE j \in 1 .. n
      <4>1. Stored(n)[j] \in {NUL, <<h, taken[h] + j>>}
        BY <1>1, <1>2, <1>3, <3>2, <3>4, TakenIs
      <4>2. PICK k \in taken'[c] + 1 .. MaxBytes : Stored(n)[j] = <<c, k>>
        BY DEF Ahead
      <4>3. k \in Nat
        <5>1. taken'[c] \in Nat
          BY <1>1, <1>3, <1>4 DEF Typed, Counters
        <5>2. QED  BY <1>4, <5>1
      <4>4. <<c, k>> # NUL
        BY <4>3, Units
      <4>5. c = h /\ k = taken[h] + j
        BY <4>1, <4>2, <4>4
      <4>6. QED  BY <1>3, <1>4, <3>4, <4>5
    <3>5. CASE j \in n + 1 .. BufferSize
      <4>1. j \in DOMAIN recvBuffer /\ Stored(n)[j] = recvBuffer[j]
        BY <1>1, <3>2, <3>3, <3>5 DEF Typed, TypeOK
      <4>2. recvBuffer[j] \in Range(recvBuffer)
        BY <4>1 DEF Range
      <4>3. QED  BY <2>1, <4>1, <4>2
    <3>6. QED  BY <3>1, <3>3, <3>4, <3>5
  <2>3. QED  BY <1>2, <1>3, <2>1, <2>2 DEF NothingAhead
<1> DEFINE x == CString(Append(Taken(h, n), NUL))
           y == CString(Seen(Stored(n)))
<1>7. CASE n <= BufferSize /\ recvBuffer' = Stored(n) /\ pc' = "send"
  <2>1. n \in 1 .. BufferSize
    BY <1>3, <1>7, BufferAssumption
  <2>2. /\ x \in Seq(Unit) /\ y \in Seq(Unit) /\ Len(x) <= Len(y)
        /\ \A j \in 1 .. Len(x) : y[j] = x[j] /\ x[j] = <<h, taken[h] + j>>
        /\ \A j \in 1 .. Len(x) : taken[h] + j <= MaxBytes
        /\ NUL \in Range(Taken(h, n)) => x = y
    BY <1>1, <1>2, <2>1, RecvChunk
  <2>3. due'[h] = due[h] \o x
    BY <1>1, <1>2 DEF Typed, TypeOK
  <2>4. ToSend' = y
    BY <1>7 DEF ToSend, Seen
  <2>5. \A c \in Clients : (c = h => Owing(c)') /\ (c # h => ~Owing(c)')
    BY <1>3, <1>7 DEF Owing
  <2>6. \A c : ~Owing(c)
    BY <1>3 DEF Owing
  <2> HIDE DEF x, y
  <2>7. due[h] \in Seq(Unit) /\ echoed[h] \in Seq(Unit)
    BY <1>1 DEF Typed, TypeOK
  <2>8. Whole'
    <3> SUFFICES ASSUME NEW c \in Clients, ~bare', ~short[c], pc' # "undefined"
                 PROVE  due'[c] = IF Owing(c)' THEN echoed[c] \o ToSend' ELSE echoed[c]
      BY <1>3 DEF Whole
    <3>1. ~bare /\ NUL \in Range(Taken(h, n))
      BY <1>2
    <3>2. due[c] = echoed[c]
      BY <1>3, <2>6, <3>1 DEF IInv, Whole
    <3>3. CASE c = h
      BY <2>2, <2>3, <2>4, <2>5, <3>1, <3>2, <3>3
    <3>4. CASE c # h
      BY <1>4, <2>5, <3>2, <3>4
    <3>5. QED  BY <3>3, <3>4
  <2>9. Back'
    <3> SUFFICES ASSUME NEW c \in Clients, ~short[c], pc' # "undefined"
                 PROVE  IF Owing(c)' THEN Rest(ReturnedOf(due'[c], echoed[c]), due'[c], ToSend')
                        ELSE ReturnedOf(due'[c], echoed[c]) = Len(due'[c])
      BY <1>3 DEF Back
    <3>1. ReturnedOf(due[c], echoed[c]) = Len(due[c])
      BY <1>3, <2>6 DEF IInv, Back
    <3>2. CASE c # h
      BY <1>4, <2>5, <3>1, <3>2
    <3>3. CASE c = h
      <4>1. x # <<>> => x[1] \notin Range(echoed[h])
        <5> SUFFICES ASSUME x # <<>>
                     PROVE  x[1] \notin Range(echoed[h])
          OBVIOUS
        <5>1. 1 \in 1 .. Len(x)
          BY <2>2, LenZero, LenProperties
        <5>2. x[1] = <<h, taken[h] + 1>> /\ taken[h] + 1 <= MaxBytes
          BY <2>2, <5>1
        <5>3. taken[h] + 1 \in taken[h] + 1 .. MaxBytes
          BY <1>4, <5>2
        <5>4. x[1] \in Ahead(h)
          BY <5>2, <5>3 DEF Ahead
        <5>5. QED  BY <1>1, <5>4 DEF IInv, NothingAhead
      <4>2. ReturnedOf(due[h] \o x, echoed[h]) = Len(due[h])
        BY <2>2, <2>7, <3>1, <3>3, <4>1, ReturnedLater
      <4>3. Rest(Len(due[h]), due[h] \o x, y)
        <5> DEFINE d == due[h]
                   w == d \o x
        <5>1. /\ Len(w) = Len(d) + Len(x)
              /\ \A i \in 1 .. Len(d) + Len(x) :
                    w[i] = IF i <= Len(d) THEN d[i] ELSE x[i - Len(d)]
          BY <2>2, <2>7, ConcatProperties
        <5>2. Len(d) \in Nat /\ Len(x) \in Nat /\ Len(y) \in Nat
          BY <2>2, <2>7, LenProperties
        <5> HIDE DEF d, w
        <5>3. ASSUME NEW i \in 1 .. Len(w) - Len(d)
              PROVE  w[Len(d) + i] = y[i]
          <6>1. /\ i \in 1 .. Len(x) /\ Len(d) + i \in 1 .. Len(d) + Len(x)
                /\ ~(Len(d) + i <= Len(d)) /\ (Len(d) + i) - Len(d) = i
            BY <5>1, <5>2
          <6>2. w[Len(d) + i] = x[i]
            BY <5>1, <6>1
          <6>3. QED  BY <2>2, <6>1, <6>2
        <5>4. Len(d) <= Len(w) /\ Len(w) - Len(d) <= Len(y)
          BY <2>2, <5>1, <5>2
        <5>5. Rest(Len(d), w, y)
          BY <5>3, <5>4 DEF Rest
        <5>6. QED  BY <5>5 DEF d, w
      <4>4. Rest(ReturnedOf(due'[h], echoed[h]), due'[h], ToSend')
        BY <2>3, <2>4, <4>2, <4>3
      <4>5. QED  BY <2>5, <3>3, <4>4
    <3>4. QED  BY <3>2, <3>3
  <2>10. QED  BY <1>6, <2>8, <2>9
<1>8. CASE pc' = "undefined"
  BY <1>6, <1>8 DEF Whole, Back
<1>9. QED  BY <1>2, <1>7, <1>8

(* A send: what came back grows by what is sent.                           *)
LEMMA SendStep ==
  ASSUME IInv, Send
  PROVE  NothingAhead' /\ Whole' /\ Back'
<1> DEFINE h == hClient
<1>1. Typed /\ h \in Clients
  BY DEF IInv, Typed, TypeOK, Send
<1>2. /\ pc = "send" /\ pc' = "recv" /\ h' = h
      /\ UNCHANGED <<recvBuffer, taken, due, bare>>
  BY DEF Send
<1>3. /\ ToSend \in Seq(Unit) /\ Len(ToSend) \in Nat
      /\ Range(ToSend) \subseteq Range(recvBuffer) \cup {Junk}
  BY <1>1, ToSendIs, LenProperties
<1>4. /\ echoed \in [Clients -> Seq(Unit)] /\ due \in [Clients -> Seq(Unit)]
      /\ short \in [Clients -> BOOLEAN]
  BY <1>1 DEF Typed, TypeOK
<1>5. PICK n \in 0 .. Len(ToSend) :
         \/ /\ echoed' = [echoed EXCEPT ![h] = @ \o SubSeq(ToSend, 1, n)]
            /\ short' = [short EXCEPT ![h] = @ \/ n < Len(ToSend)]
         \/ /\ short' = [short EXCEPT ![h] = TRUE]
            /\ UNCHANGED echoed
  <2>1. 0 \in 0 .. Len(ToSend)
    BY <1>3
  <2>2. QED  BY <2>1 DEF Send
<1>6. /\ SubSeq(ToSend, 1, n) \in Seq(Unit)
      /\ Range(SubSeq(ToSend, 1, n)) \subseteq Range(ToSend)
      /\ n = Len(ToSend) => SubSeq(ToSend, 1, n) = ToSend
  <2> DEFINE t == ToSend
             s == SubSeq(t, 1, n)
  <2>1. \A i \in 1 .. n : i \in 1 .. Len(t)
    BY <1>3
  <2>2. DOMAIN t = 1 .. Len(t) /\ \A i \in 1 .. Len(t) : t[i] \in Unit /\ t[i] \in Range(t)
    BY <1>3, LenProperties, ElementOfSeq DEF Range
  <2> HIDE DEF t
  <2>3. \A i \in 1 .. n : t[i] \in Unit
    BY <2>1, <2>2
  <2>4. 1 \in Int /\ n \in Int
    BY <1>3 DEF t
  <2>5. /\ s \in Seq(Unit)
        /\ Len(s) = IF 1 <= n THEN n - 1 + 1 ELSE 0
        /\ \A i \in 1 .. n - 1 + 1 : s[i] = t[1 + i - 1]
    BY <2>3, <2>4, SubSeqProperties
  <2>6. Len(s) = n /\ \A i \in 1 .. n : i \in 1 .. n - 1 + 1 /\ 1 + i - 1 = i
    BY <1>3, <2>5 DEF t
  <2>7. \A i \in 1 .. n : s[i] = t[i]
    BY <2>5, <2>6
  <2> HIDE DEF s
  <2>8. DOMAIN s = 1 .. n
    BY <2>5, <2>6, LenProperties
  <2>9. Range(s) \subseteq Range(t)
    BY <2>1, <2>2, <2>7, <2>8 DEF Range
  <2>10. n = Len(t) => s = t
    BY <1>3, <2>5, <2>6, <2>7, SeqEqual DEF t
  <2>11. QED  BY <2>5, <2>9, <2>10 DEF t, s
<1>7. \A c \in Clients \ {h} : echoed'[c] = echoed[c] /\ short'[c] = short[c]
  BY <1>4, <1>5
<1>8. echoed'[h] \in {echoed[h], echoed[h] \o SubSeq(ToSend, 1, n)}
  BY <1>1, <1>4, <1>5
<1>9. ~short'[h] => ~short[h] /\ echoed'[h] = echoed[h] \o ToSend
  <2> SUFFICES ASSUME ~short'[h]
               PROVE  ~short[h] /\ echoed'[h] = echoed[h] \o ToSend
    OBVIOUS
  <2>1. CASE short' = [short EXCEPT ![h] = TRUE]
    BY <1>1, <1>4, <2>1
  <2>2. CASE /\ echoed' = [echoed EXCEPT ![h] = @ \o SubSeq(ToSend, 1, n)]
             /\ short' = [short EXCEPT ![h] = @ \/ n < Len(ToSend)]
    <3>1. short'[h] = (short[h] \/ n < Len(ToSend))
      BY <1>1, <1>4, <2>2
    <3>2. ~short[h] /\ ~(n < Len(ToSend))
      BY <3>1
    <3>3. n = Len(ToSend)
      BY <1>3, <3>2
    <3>4. QED  BY <1>1, <1>4, <1>6, <2>2, <3>2, <3>3
  <2>3. QED  BY <1>5, <2>1, <2>2
<1>10. \A c \in Clients : ~Owing(c)' /\ (c # h => ~Owing(c)) /\ (c = h => Owing(c))
  BY <1>2 DEF Owing
<1>11. NothingAhead'
  <2>1. ASSUME NEW c \in Clients
        PROVE  /\ Range(recvBuffer) \cap Ahead(c) = {}
               /\ Range(echoed[c]) \cap Ahead(c) = {}
               /\ Ahead(c)' = Ahead(c)
               /\ Junk \notin Ahead(c)
    <3>1. Junk \notin Ahead(c)
      <4>1. taken[c] \in Nat /\ MaxBytes \in Nat
        BY <1>1, StreamAssumption DEF Typed, Counters
      <4>2. \A k \in taken[c] + 1 .. MaxBytes : k \in Nat
        BY <4>1
      <4>3. \A k \in taken[c] + 1 .. MaxBytes : Junk # <<c, k>>
        BY <4>2, Units
      <4>4. QED  BY <4>3 DEF Ahead
    <3>2. QED  BY <1>2, <3>1 DEF IInv, NothingAhead, Ahead
  <2>2. Range(echoed[h] \o SubSeq(ToSend, 1, n)) \cap Ahead(h) = {}
    <3> DEFINE e == echoed[h]
               s == SubSeq(ToSend, 1, n)
               w == e \o s
    <3>1. e \in Seq(Unit) /\ s \in Seq(Unit)
      BY <1>1, <1>4, <1>6
    <3>2. Range(s) \cap Ahead(h) = {} /\ Range(e) \cap Ahead(h) = {}
      BY <1>1, <1>3, <1>6, <2>1
    <3> HIDE DEF e, s
    <3>3. w \in Seq(Unit) /\ Range(w) = Range(e) \cup Range(s)
      BY <3>1, RangeConcatenation, ConcatProperties
    <3>4. QED  BY <3>2, <3>3 DEF e, s
  <2>3. ASSUME NEW c \in Clients
        PROVE  Range(recvBuffer') \cap Ahead(c)' = {} /\ Range(echoed'[c]) \cap Ahead(c)' = {}
    <3>1. CASE c # h
      BY <1>2, <1>7, <2>1, <3>1
    <3>2. CASE c = h
      BY <1>1, <1>2, <1>8, <2>1, <2>2, <3>2
    <3>3. QED  BY <3>1, <3>2
  <2>4. QED  BY <2>3 DEF NothingAhead
<1>12. Whole'
  <2> SUFFICES ASSUME NEW c \in Clients, ~bare', ~short'[c], pc' # "undefined"
               PROVE  due'[c] = echoed'[c]
    BY <1>10 DEF Whole
  <2>1. ~bare /\ pc # "undefined" /\ due'[c] = due[c]
    BY <1>2
  <2>2. ~short[c] => due[c] = IF Owing(c) THEN echoed[c] \o ToSend ELSE echoed[c]
    BY <2>1 DEF IInv, Whole
  <2>3. QED  BY <1>7, <1>9, <1>10, <2>1, <2>2
<1>13. Back'
  <2> SUFFICES ASSUME NEW c \in Clients, ~short'[c], pc' # "undefined"
               PROVE  ReturnedOf(due'[c], echoed'[c]) = Len(due'[c])
    BY <1>10 DEF Back
  <2>1. pc # "undefined" /\ due'[c] = due[c]
    BY <1>2
  <2>2. ~short[c] => IF Owing(c) THEN Rest(ReturnedOf(due[c], echoed[c]), due[c], ToSend)
                     ELSE ReturnedOf(due[c], echoed[c]) = Len(due[c])
    BY <2>1 DEF IInv, Back
  <2>3. CASE c # h
    BY <1>7, <1>10, <2>1, <2>2, <2>3
  <2>4. CASE c = h
    <3>1. Rest(ReturnedOf(due[h], echoed[h]), due[h], ToSend) /\ echoed'[h] = echoed[h] \o ToSend
      BY <1>9, <1>10, <2>2, <2>4
    <3>2. due[h] \in Seq(Unit) /\ echoed[h] \in Seq(Unit)
      BY <1>1, <1>4
    <3>3. ReturnedOf(due[h], echoed[h] \o ToSend) = Len(due[h])
      BY <1>3, <3>1, <3>2, ReturnedMore
    <3>4. QED  BY <2>1, <2>4, <3>1, <3>3
  <2>5. QED  BY <2>3, <2>4
<1>14. QED  BY <1>11, <1>12, <1>13

(* The text of a recv: as long as there is no NUL.                         *)
LEMMA TextOf ==
  ASSUME Typed, NEW c \in Clients, NEW n \in Nat, n <= sent[c] - taken[c],
         NEW x, x = CString(Append(Taken(c, n), NUL))
  PROVE  /\ x \in Seq(Unit) /\ Len(x) \in 0 .. n
         /\ \A j \in 1 .. Len(x) : x[j] = <<c, taken[c] + j>>
         /\ Len(x) < n => taken[c] + (Len(x) + 1) \in Zeros
<1>0. PICK t : t = Taken(c, n)
  OBVIOUS
<1>1. PICK a : a = Append(t, NUL)
  OBVIOUS
<1>2. /\ t \in Seq(Unit) /\ Len(t) = n
      /\ \A j \in 1 .. n : /\ t[j] = Byte(c, taken[c] + j)
                           /\ t[j] \in {NUL, <<c, taken[c] + j>>}
  BY <1>0, TakenIs
<1>3. /\ a \in Seq(Unit) /\ Len(a) = n + 1 /\ a[n + 1] = NUL
      /\ \A j \in 1 .. n : a[j] = t[j]
  BY <1>1, <1>2, Units, AppendProperties
<1>4. n + 1 \in 1 .. Len(a)
  BY <1>3
<1>5. PICK z \in 1 .. n + 1 : EndsAt(Unit, a, z)
  BY <1>3, <1>4, CStringIs
<1>6. x = CString(a)
  BY <1>0, <1>1
<1>7. x \in Seq(Unit) /\ Len(x) = z - 1 /\ \A j \in 1 .. z - 1 : x[j] = a[j] /\ a[j] # NUL
  BY <1>5, <1>6 DEF EndsAt
<1>8. ASSUME NEW j \in 1 .. z - 1
      PROVE  x[j] = <<c, taken[c] + j>>
  <2>1. j \in 1 .. n
    OBVIOUS
  <2>2. QED  BY <1>2, <1>3, <1>7, <2>1
<1>9. ASSUME Len(x) < n
      PROVE  taken[c] + (Len(x) + 1) \in Zeros
  <2>1. z \in 1 .. n /\ Len(x) + 1 = z
    BY <1>7, <1>9
  <2>2. Byte(c, taken[c] + z) = NUL
    BY <1>2, <1>3, <1>5, <2>1 DEF EndsAt
  <2>3. taken[c] + z \in Nat
    BY <2>1 DEF Typed, Counters
  <2>4. NUL # <<c, taken[c] + z>>
    BY <2>3, Units
  <2>5. QED  BY <2>1, <2>2, <2>4 DEF Byte
<1>10. QED  BY <1>7, <1>8, <1>9

LEMMA BehindStep ==
  ASSUME IInv, Recv
  PROVE  Behind'
<1>0. PICK h : h = hClient
  OBVIOUS
<1>1. Typed /\ h \in Clients
  BY <1>0 DEF IInv, Typed, TypeOK, Recv
<1>2. PICK n \in 1 .. PacketSize :
         /\ n <= sent[h] - taken[h]
         /\ taken' = [taken EXCEPT ![h] = @ + n]
         /\ due' = [due EXCEPT ![h] = @ \o CString(Append(Taken(h, n), NUL))]
  BY <1>0 DEF Recv
<1>3. PICK x : x = CString(Append(Taken(h, n), NUL))
  OBVIOUS
<1>4. n \in Nat
  BY BufferAssumption
<1>5. /\ x \in Seq(Unit) /\ Len(x) \in 0 .. n
      /\ \A j \in 1 .. Len(x) : x[j] = <<h, taken[h] + j>>
      /\ Len(x) < n => taken[h] + (Len(x) + 1) \in Zeros
  BY <1>1, <1>2, <1>3, <1>4, TextOf
<1>6. /\ taken[h] \in Nat /\ taken'[h] = taken[h] + n /\ due'[h] = due[h] \o x
      /\ due[h] \in Seq(Unit)
      /\ \A c \in Clients \ {h} : taken'[c] = taken[c] /\ due'[c] = due[c]
  BY <1>1, <1>2, <1>3 DEF Typed, TypeOK, Counters
<1>7. Range(due'[h]) = Range(due[h]) \cup Range(x)
  BY <1>5, <1>6, RangeConcatenation
<1>8. Range(x) = {<<h, taken[h] + j>> : j \in 1 .. Len(x)}
  <2>1. DOMAIN x = 1 .. Len(x)
    BY <1>5, LenProperties
  <2>2. QED  BY <1>5, <2>1 DEF Range
<1>9. ASSUME NEW k \in Nat
      PROVE  <<h, k>> \in Range(x) => k \in taken[h] + 1 .. taken[h] + Len(x)
  BY <1>5, <1>6, <1>8
<1>10. ASSUME NEW k \in taken[h] + 1 .. MaxBytes
       PROVE  <<h, k>> \notin Range(due[h])
  BY <1>1, <1>10 DEF IInv, Behind, Ahead
<1>11. Range(due'[h]) \cap Ahead(h)' = {}
  <2> SUFFICES ASSUME NEW k \in taken'[h] + 1 .. MaxBytes
               PROVE  <<h, k>> \notin Range(due'[h])
    BY DEF Ahead
  <2>1. k \in Nat /\ k \in taken[h] + 1 .. MaxBytes /\ ~(k <= taken[h] + Len(x))
    BY <1>4, <1>5, <1>6, StreamAssumption
  <2>2. <<h, k>> \notin Range(x)
    BY <1>5, <1>6, <1>9, <2>1
  <2>3. QED  BY <1>7, <1>10, <2>1, <2>2
<1>12. ASSUME NEW k \in Dropped(h)'
       PROVE  k - 1 \in Zeros \cup Dropped(h)'
  <2>1. /\ k \in 1 .. taken[h] + n /\ k \notin Zeros
        /\ <<h, k>> \notin Range(due[h]) /\ <<h, k>> \notin Range(x)
    BY <1>6, <1>7, <1>12 DEF Dropped
  <2>2. CASE k <= taken[h]
    <3>1. k \in Dropped(h)
      BY <1>6, <2>1, <2>2 DEF Dropped
    <3>2. k - 1 \in Zeros \cup Dropped(h)
      BY <1>1, <3>1 DEF IInv, Behind
    <3>3. ASSUME k - 1 \in Dropped(h)
          PROVE  k - 1 \in Dropped(h)'
      <4>1. /\ k - 1 \in 1 .. taken[h] /\ k - 1 \notin Zeros
            /\ <<h, k - 1>> \notin Range(due[h])
        BY <3>3 DEF Dropped
      <4>2. k - 1 \in Nat /\ k - 1 \in 1 .. taken'[h]
            /\ ~(k - 1 \in taken[h] + 1 .. taken[h] + Len(x))
        BY <1>4, <1>5, <1>6, <4>1
      <4>3. <<h, k - 1>> \notin Range(x)
        BY <1>9, <4>2
      <4>4. QED  BY <1>7, <4>1, <4>2, <4>3 DEF Dropped
    <3>4. QED  BY <3>2, <3>3
  <2>3. CASE k > taken[h]
    <3>1. PICK j \in 1 .. n : k = taken[h] + j
      <4>1. k - taken[h] \in 1 .. n /\ k = taken[h] + (k - taken[h])
        BY <1>4, <1>6, <2>1, <2>3
      <4>2. QED  BY <4>1
    <3>2. ~(j \in 1 .. Len(x))
      BY <1>8, <2>1, <3>1
    <3>3. Len(x) < n /\ j >= Len(x) + 1
      BY <1>4, <1>5, <3>2
    <3>4. j # Len(x) + 1
      BY <1>5, <2>1, <3>1, <3>3
    <3>5. j > Len(x) + 1
      BY <1>5, <3>3, <3>4
    <3>6. /\ k - 1 \in Nat /\ k - 1 \in taken[h] + 1 .. taken[h] + n
          /\ k - 1 \in 1 .. taken'[h] /\ ~(k - 1 \in taken[h] + 1 .. taken[h] + Len(x))
      BY <1>4, <1>5, <1>6, <3>1, <3>5
    <3>7. k - 1 \in taken[h] + 1 .. MaxBytes
      <4>1. sent[h] \in Nat /\ sent[h] <= MaxBytes /\ MaxBytes \in Nat
        BY <1>1, StreamAssumption DEF Typed, TypeOK, Counters
      <4>2. QED  BY <1>2, <1>4, <1>6, <3>6, <4>1
    <3>8. <<h, k - 1>> \notin Range(due'[h])
      BY <1>7, <1>9, <1>10, <3>6, <3>7
    <3>9. QED  BY <3>6, <3>8 DEF Dropped
  <2>4. QED  BY <1>6, <2>1, <2>2, <2>3
<1>13. ASSUME NEW c \in Clients \ {h}
       PROVE  Range(due'[c]) \cap Ahead(c)' = {} /\ Dropped(c)' = Dropped(c)
  <2>1. Ahead(c)' = Ahead(c) /\ due'[c] = due[c] /\ Dropped(c)' = Dropped(c)
    BY <1>6 DEF Ahead, Dropped
  <2>2. QED  BY <2>1 DEF IInv, Behind
<1>14. QED  BY <1>11, <1>12, <1>13 DEF IInv, Behind

LEMMA BehindStays ==
  ASSUME IInv, UNCHANGED <<taken, due>>
  PROVE  Behind'
BY DEF IInv, Behind, Dropped, Ahead

LEMMA Step == IInv /\ [Next]_vars => IInv'
<1> SUFFICES ASSUME IInv, [Next]_vars
             PROVE  IInv'
  OBVIOUS
<1>1. Typed'
  BY TypeStep DEF IInv
<1>2. CASE Recv
  BY <1>1, <1>2, RecvStep, BehindStep DEF IInv
<1>3. CASE Send
  <2>1. UNCHANGED <<taken, due>>
    BY <1>3 DEF Send
  <2>2. QED  BY <1>1, <1>3, <2>1, SendStep, BehindStays DEF IInv
<1>4. ASSUME Quiet
      PROVE  IInv'
  <2>1. UNCHANGED <<taken, due>>
    BY <1>4 DEF Quiet
  <2>2. QED  BY <1>1, <1>4, <2>1, QuietStep, BehindStays DEF IInv
<1>5. CASE Accept
  BY <1>4, <1>5 DEF Accept, Quiet
<1>6. CASE AcceptFails
  BY <1>4, <1>6 DEF AcceptFails, Quiet
<1>7. CASE RecvEnds
  BY <1>4, <1>7 DEF RecvEnds, Quiet
<1>8. ASSUME NEW c \in Clients, ClientConnect(c) \/ ClientSend(c) \/ ClientClose(c)
      PROVE  IInv'
  BY <1>4, <1>8 DEF ClientConnect, ClientSend, ClientClose, Quiet
<1>9. CASE UNCHANGED vars
  BY <1>4, <1>9 DEF vars, Quiet
<1>10. QED  BY <1>2, <1>3, <1>5, <1>6, <1>7, <1>8, <1>9 DEF Next, Server

LEMMA Invariance == Spec => []IInv
<1>1. QED  BY InitOK, Step, PTL DEF Spec

-----------------------------------------------------------------------------
(* The variables have their types; pc is "recv" or "send" only with a      *)
(* client, and recv takes no more than was sent.                           *)
THEOREM TypeCorrect == Spec => []TypeOK
<1>1. IInv => TypeOK
  BY DEF IInv, Typed
<1>2. QED  BY <1>1, Invariance, PTL

(* Whatever stale bytes strlen runs on into, the text of every recv, up to *)
(* its first NUL, has come back in order to a client whose sends were      *)
(* whole, and only what follows a NUL is dropped.  (the recv and send      *)
(* loops; strlen)                                                          *)
THEOREM ComesBackCorrect == Spec => []TextComesBack
<1>1. IInv => TextComesBack
  <2> SUFFICES ASSUME IInv, NEW c \in Clients
               PROVE  /\ Settled(c) => Returned(c) = Len(due[c])
                      /\ \A k \in Dropped(c) : k - 1 \in Zeros \cup Dropped(c)
    BY DEF TextComesBack
  <2>1. Returned(c) = ReturnedOf(due[c], echoed[c])
    BY DEF Returned, ReturnedOf
  <2>2. Settled(c) => ~short[c] /\ pc # "undefined" /\ ~Owing(c)
    BY DEF Settled, Owing
  <2>3. Settled(c) => ReturnedOf(due[c], echoed[c]) = Len(due[c])
    BY <2>2 DEF IInv, Back
  <2>4. QED  BY <2>1, <2>3 DEF IInv, Behind
<1>2. QED  BY <1>1, Invariance, PTL

(* While every recv brings a NUL, a client gets back the text of each, up  *)
(* to its first NUL, and nothing that was left in recvBuffer.              *)
(* (strlen(recvBuffer))                                                    *)
THEOREM ExactCorrect == Spec => []ExactIfTerminated
<1>1. IInv => ExactIfTerminated
  <2> SUFFICES ASSUME IInv, NEW c \in Clients, ~bare, Settled(c)
               PROVE  echoed[c] = due[c]
    BY DEF ExactIfTerminated
  <2>1. ~short[c] /\ pc # "undefined" /\ ~Owing(c)
    BY DEF Settled, Owing
  <2>2. QED  BY <2>1 DEF IInv, Whole
<1>2. QED  BY <1>1, Invariance, PTL
=============================================================================
