--------------------------- MODULE SequenceLemmas ---------------------------
(***************************************************************************)
(* Facts about queues and streams as sequences, which the proofs of the    *)
(* components share, and induction on natural numbers stated with sets.    *)
(***************************************************************************)
EXTENDS SequenceTheorems, WellFoundedInduction, TLAPS

(* Induction.  The library states it for a predicate; what is proved by    *)
(* induction here is that a set has all the natural numbers.               *)
LEMMA LeastNatural ==
  ASSUME NEW T, T \subseteq Nat, T # {}
  PROVE  \E m \in T : \A n \in T : m <= n
<1> DEFINE R == OpToRel(<, Nat)
<1>1. IsWellFoundedOn(R, Nat)
  BY NatLessThanWellFounded
<1>2. \A m, n \in Nat : n < m => <<n, m>> \in R
  BY DEF OpToRel
<1> HIDE DEF R
<1>3. PICK m \in T : \A n \in T : ~ (<<n, m>> \in R)
  BY <1>1, WFMin
<1>4. ASSUME NEW n \in T
      PROVE  m <= n
  <2>1. m \in Nat /\ n \in Nat /\ ~(n < m)
    BY <1>2, <1>3
  <2>2. QED  BY <2>1
<1>5. QED  BY <1>4

LEMMA NatInductionSet ==
  ASSUME NEW T, 0 \in T, \A n \in Nat : n \in T => n + 1 \in T
  PROVE  Nat \subseteq T
<1> SUFFICES ASSUME Nat \ T # {}
             PROVE  FALSE
  OBVIOUS
<1>1. PICK m \in Nat \ T : \A n \in Nat \ T : m <= n
  BY LeastNatural
<1>2. m # 0 /\ m \in Nat
  BY <1>1
<1>3. m - 1 \in Nat /\ ~(m <= m - 1) /\ (m - 1) + 1 = m
  BY <1>2
<1>4. m - 1 \in T
  BY <1>1, <1>3
<1>5. QED  BY <1>1, <1>3, <1>4

-----------------------------------------------------------------------------
Distinct(q) == \A i, j \in DOMAIN q : q[i] = q[j] => i = j

LEMMA LenZero ==
  ASSUME NEW S, NEW q \in Seq(S)
  PROVE  q = <<>> <=> Len(q) = 0
<1>1. q = <<>> => Len(q) = 0
  BY EmptySeq
<1>2. q # <<>> => Len(q) # 0
  BY EmptySeq
<1>3. QED  BY <1>1, <1>2

LEMMA RangeType ==
  ASSUME NEW S, NEW q \in Seq(S)
  PROVE  Range(q) \subseteq S
<1>1. \A i \in DOMAIN q : q[i] \in S
  BY LenProperties, ElementOfSeq
<1>2. QED  BY <1>1 DEF Range

(* What Tail and Append do to a queue's contents.                          *)
LEMMA TailContents ==
  ASSUME NEW S, NEW q \in Seq(S), q # <<>>
  PROVE  /\ Tail(q) \in Seq(S)
         /\ Head(q) \in S
         /\ Range(q) = Range(Tail(q)) \cup {Head(q)}
         /\ Distinct(q) => Distinct(Tail(q)) /\ Head(q) \notin Range(Tail(q))
<1>1. /\ Tail(q) \in Seq(S)
      /\ Head(q) \in S
      /\ Head(q) = q[1]
      /\ Len(q) \in Nat \ {0}
      /\ Len(Tail(q)) = Len(q) - 1
      /\ \A i \in 1 .. Len(Tail(q)) : Tail(q)[i] = q[i + 1]
  BY HeadTailProperties, LenProperties, EmptySeq
<1>2. DOMAIN q = 1 .. Len(q) /\ DOMAIN Tail(q) = 1 .. Len(Tail(q))
  BY <1>1, LenProperties
<1>3. Range(q) \subseteq Range(Tail(q)) \cup {Head(q)}
  <2> SUFFICES ASSUME NEW i \in 1 .. Len(q)
               PROVE  q[i] \in Range(Tail(q)) \cup {Head(q)}
    BY <1>2 DEF Range
  <2>1. CASE i = 1
    BY <2>1, <1>1
  <2>2. CASE i # 1
    <3>1. i - 1 \in 1 .. Len(Tail(q)) /\ (i - 1) + 1 = i
      BY <2>2, <1>1
    <3>2. QED  BY <3>1, <1>1, <1>2 DEF Range
  <2>3. QED  BY <2>1, <2>2
<1>4. Range(Tail(q)) \cup {Head(q)} \subseteq Range(q)
  <2>1. \A i \in 1 .. Len(Tail(q)) : i + 1 \in 1 .. Len(q)
    BY <1>1
  <2>2. 1 \in 1 .. Len(q)
    BY <1>1
  <2>3. QED  BY <2>1, <2>2, <1>1, <1>2 DEF Range
<1>5. ASSUME Distinct(q)
      PROVE  Distinct(Tail(q)) /\ Head(q) \notin Range(Tail(q))
  <2>1. \A i \in 1 .. Len(Tail(q)) : i + 1 \in 1 .. Len(q) /\ i + 1 # 1
    BY <1>1
  <2>2. 1 \in 1 .. Len(q)
    BY <1>1
  <2>3. Distinct(Tail(q))
    BY <1>5, <2>1, <1>1, <1>2 DEF Distinct
  <2>4. Head(q) \notin Range(Tail(q))
    BY <1>5, <2>1, <2>2, <1>1, <1>2 DEF Distinct, Range
  <2>5. QED  BY <2>3, <2>4
<1>6. QED  BY <1>1, <1>3, <1>4, <1>5

LEMMA AppendContents ==
  ASSUME NEW S, NEW q \in Seq(S), NEW x \in S
  PROVE  /\ Append(q, x) \in Seq(S)
         /\ Append(q, x) # <<>>
         /\ Range(Append(q, x)) = Range(q) \cup {x}
         /\ Distinct(q) /\ x \notin Range(q) => Distinct(Append(q, x))
<1>1. /\ Append(q, x) \in Seq(S)
      /\ Append(q, x) # <<>>
      /\ Len(q) \in Nat
      /\ Len(Append(q, x)) = Len(q) + 1
      /\ \A i \in 1 .. Len(q) : Append(q, x)[i] = q[i]
      /\ Append(q, x)[Len(q) + 1] = x
  BY AppendProperties, LenProperties
<1>2. DOMAIN q = 1 .. Len(q) /\ DOMAIN Append(q, x) = 1 .. Len(q) + 1
  BY <1>1, LenProperties
<1>3. 1 .. Len(q) + 1 = (1 .. Len(q)) \cup {Len(q) + 1}
  BY <1>1
<1>4. Range(Append(q, x)) = Range(q) \cup {x}
  BY <1>1, <1>2, <1>3 DEF Range
<1>5. Distinct(q) /\ x \notin Range(q) => Distinct(Append(q, x))
  BY <1>1, <1>2, <1>3 DEF Range, Distinct
<1>6. QED  BY <1>1, <1>4, <1>5

LEMMA Singleton ==
  ASSUME NEW S, NEW x \in S
  PROVE  /\ Append(<<>>, x) = <<x>>
         /\ <<x>> # <<>>
         /\ Len(<<x>>) = 1
         /\ Head(<<x>>) = x
OBVIOUS

LEMMA HeadAppend ==
  ASSUME NEW S, NEW q \in Seq(S), NEW x \in S
  PROVE  Head(Append(q, x)) = IF q = <<>> THEN x ELSE Head(q)
<1>1. CASE q = <<>>
  BY <1>1, Singleton
<1>2. CASE q # <<>>
  <2>1. /\ Append(q, x) \in Seq(S) /\ Append(q, x) # <<>>
        /\ \A i \in 1 .. Len(q) : Append(q, x)[i] = q[i]
    BY AppendProperties
  <2>2. Head(Append(q, x)) = Append(q, x)[1] /\ Head(q) = q[1]
    BY <1>2, <2>1, HeadTailProperties
  <2>3. 1 \in 1 .. Len(q)
    BY <1>2, EmptySeq
  <2>4. QED  BY <1>2, <2>1, <2>2, <2>3
<1>3. QED  BY <1>1, <1>2

-----------------------------------------------------------------------------
(* Moving the front of q to the end of u leaves their concatenation as it  *)
(* was; so does appending to q or to the concatenation.                    *)
LEMMA StreamTail ==
  ASSUME NEW S, NEW u \in Seq(S), NEW q \in Seq(S), q # <<>>
  PROVE  Append(u, Head(q)) \o Tail(q) = u \o q
<1>1. /\ Head(q) \in S /\ Tail(q) \in Seq(S)
      /\ Head(q) = q[1]
      /\ Len(q) \in Nat \ {0}
      /\ Len(Tail(q)) = Len(q) - 1
      /\ \A i \in 1 .. Len(Tail(q)) : Tail(q)[i] = q[i + 1]
  BY HeadTailProperties, EmptySeq
<1>2. /\ Append(u, Head(q)) \in Seq(S)
      /\ Len(Append(u, Head(q))) = Len(u) + 1
      /\ \A i \in 1 .. Len(u) : Append(u, Head(q))[i] = u[i]
      /\ Append(u, Head(q))[Len(u) + 1] = Head(q)
      /\ Len(u) \in Nat
  BY <1>1, AppendProperties, LenProperties
<1> DEFINE v == Append(u, Head(q))
           l == v \o Tail(q)
           r == u \o q
<1> HIDE DEF v
<1>3. /\ l \in Seq(S) /\ Len(l) = Len(v) + Len(Tail(q))
      /\ \A i \in 1 .. Len(v) + Len(Tail(q)) :
            l[i] = IF i <= Len(v) THEN v[i] ELSE Tail(q)[i - Len(v)]
  BY <1>1, <1>2, ConcatProperties DEF v
<1>4. /\ r \in Seq(S) /\ Len(r) = Len(u) + Len(q)
      /\ \A i \in 1 .. Len(u) + Len(q) :
            r[i] = IF i <= Len(u) THEN u[i] ELSE q[i - Len(u)]
  BY ConcatProperties
<1> HIDE DEF l, r
<1>5. Len(l) = Len(r)
  BY <1>1, <1>2, <1>3, <1>4 DEF v
<1>6. ASSUME NEW i \in 1 .. Len(l)
      PROVE  l[i] = r[i]
  <2>1. i \in 1 .. Len(u) + Len(q) /\ i \in 1 .. Len(v) + Len(Tail(q))
    BY <1>3, <1>4, <1>5
  <2>2. CASE i <= Len(u)
    <3>1. i \in 1 .. Len(u) /\ i <= Len(v)
      BY <1>2, <2>1, <2>2 DEF v
    <3>2. l[i] = v[i] /\ r[i] = u[i]
      BY <1>3, <1>4, <2>1, <2>2, <3>1
    <3>3. QED  BY <1>2, <3>1, <3>2 DEF v
  <2>3. CASE i = Len(u) + 1
    <3>1. l[i] = v[i] /\ r[i] = q[i - Len(u)]
      BY <1>2, <1>3, <1>4, <2>1, <2>3 DEF v
    <3>2. QED  BY <1>1, <1>2, <2>3, <3>1 DEF v
  <2>4. CASE i > Len(u) + 1
    <3>1. l[i] = Tail(q)[i - Len(v)] /\ r[i] = q[i - Len(u)]
      BY <1>2, <1>3, <1>4, <2>1, <2>4 DEF v
    <3>2. /\ Len(v) = Len(u) + 1
          /\ i - Len(v) \in 1 .. Len(Tail(q))
          /\ (i - Len(v)) + 1 = i - Len(u)
      BY <1>1, <1>2, <2>1, <2>4 DEF v
    <3>3. QED  BY <1>1, <3>1, <3>2
  <2>5. QED  BY <1>2, <2>1, <2>2, <2>3, <2>4
<1>7. l = r
  BY <1>3, <1>4, <1>5, <1>6, SeqEqual
<1>8. QED  BY <1>7 DEF l, r, v

LEMMA StreamAppend ==
  ASSUME NEW S, NEW u \in Seq(S), NEW q \in Seq(S), NEW x \in S
  PROVE  u \o Append(q, x) = Append(u \o q, x)
<1>1. <<x>> \in Seq(S)
  OBVIOUS
<1>2. Append(q, x) = q \o <<x>>
  BY AppendIsConcat
<1>3. u \o q \in Seq(S)
  BY ConcatProperties
<1>4. Append(u \o q, x) = (u \o q) \o <<x>>
  BY <1>3, AppendIsConcat
<1>5. QED  BY <1>1, <1>2, <1>4, ConcatAssociative

-----------------------------------------------------------------------------
(* The part of q after the first k elements.                               *)
Suffix(q, k) == SubSeq(q, k + 1, Len(q))

LEMMA SuffixFacts ==
  ASSUME NEW S, NEW q \in Seq(S), NEW k \in 0 .. Len(q)
  PROVE  /\ SubSeq(q, k + 1, Len(q)) \in Seq(S)
         /\ Len(SubSeq(q, k + 1, Len(q))) = Len(q) - k
         /\ \A i \in 1 .. Len(q) - k : SubSeq(q, k + 1, Len(q))[i] = q[k + i]
<1>1. Len(q) \in Nat /\ \A i \in 1 .. Len(q) : q[i] \in S
  BY LenProperties, ElementOfSeq
<1>2. k + 1 \in Int /\ Len(q) \in Int /\ \A i \in k + 1 .. Len(q) : q[i] \in S
  BY <1>1
<1>3. /\ SubSeq(q, k + 1, Len(q)) \in Seq(S)
      /\ Len(SubSeq(q, k + 1, Len(q)))
           = IF k + 1 <= Len(q) THEN Len(q) - (k + 1) + 1 ELSE 0
      /\ \A i \in 1 .. Len(q) - (k + 1) + 1 :
            SubSeq(q, k + 1, Len(q))[i] = q[k + 1 + i - 1]
  BY <1>2, SubSeqProperties
<1>4. (IF k + 1 <= Len(q) THEN Len(q) - (k + 1) + 1 ELSE 0) = Len(q) - k
  BY <1>1
<1>5. \A i \in 1 .. Len(q) - k : /\ i \in 1 .. Len(q) - (k + 1) + 1
                                 /\ k + 1 + i - 1 = k + i
  BY <1>1
<1>6. QED  BY <1>3, <1>4, <1>5

LEMMA SuffixAppend ==
  ASSUME NEW S, NEW q \in Seq(S), NEW k \in 0 .. Len(q), NEW x \in S
  PROVE  /\ k \in 0 .. Len(Append(q, x))
         /\ Suffix(Append(q, x), k) = Append(Suffix(q, k), x)
<1> DEFINE r == Append(q, x)
           u == SubSeq(q, k + 1, Len(q))
           v == SubSeq(r, k + 1, Len(r))
           w == Append(u, x)
<1>1. /\ r \in Seq(S) /\ Len(r) = Len(q) + 1 /\ Len(q) \in Nat
      /\ \A i \in 1 .. Len(q) : r[i] = q[i]
      /\ r[Len(q) + 1] = x
  BY AppendProperties, LenProperties
<1>2. /\ u \in Seq(S) /\ Len(u) = Len(q) - k
      /\ \A i \in 1 .. Len(q) - k : u[i] = q[k + i]
  BY SuffixFacts
<1> HIDE DEF r
<1>3. k \in 0 .. Len(r)
  BY <1>1
<1>4. /\ v \in Seq(S) /\ Len(v) = Len(r) - k
      /\ \A i \in 1 .. Len(r) - k : v[i] = r[k + i]
  BY <1>1, <1>3, SuffixFacts
<1> HIDE DEF u, v
<1>5. /\ w \in Seq(S) /\ Len(w) = Len(u) + 1
      /\ \A i \in 1 .. Len(u) : w[i] = u[i]
      /\ w[Len(u) + 1] = x
  BY <1>2, AppendProperties
<1> HIDE DEF w
<1>6. Len(v) = Len(w)
  BY <1>1, <1>2, <1>4, <1>5
<1>7. ASSUME NEW i \in 1 .. Len(v)
      PROVE  v[i] = w[i]
  <2>1. CASE i = Len(u) + 1
    <3>1. k + i = Len(q) + 1 /\ i \in 1 .. Len(r) - k
      BY <1>1, <1>2, <1>4, <2>1
    <3>2. QED  BY <1>1, <1>4, <1>5, <2>1, <3>1
  <2>2. CASE i # Len(u) + 1
    <3>1. /\ i \in 1 .. Len(u) /\ i \in 1 .. Len(q) - k /\ i \in 1 .. Len(r) - k
          /\ k + i \in 1 .. Len(q)
      BY <1>1, <1>2, <1>4, <2>2
    <3>2. QED  BY <1>1, <1>2, <1>4, <1>5, <3>1
  <2>3. QED  BY <2>1, <2>2
<1>8. v = w
  BY <1>4, <1>5, <1>6, <1>7, SeqEqual
<1>9. QED  BY <1>3, <1>8 DEF Suffix, r, u, v, w

LEMMA SuffixTail ==
  ASSUME NEW S, NEW q \in Seq(S), NEW k \in 0 .. Len(q),
         SubSeq(q, k + 1, Len(q)) # <<>>
  PROVE  /\ k + 1 \in 1 .. Len(q)
         /\ Head(SubSeq(q, k + 1, Len(q))) = q[k + 1]
         /\ Tail(SubSeq(q, k + 1, Len(q))) = SubSeq(q, k + 1 + 1, Len(q))
<1>1. Len(q) \in Nat /\ Len(SubSeq(q, k + 1, Len(q))) = Len(q) - k
      /\ SubSeq(q, k + 1, Len(q)) \in Seq(S)
  BY SuffixFacts, LenProperties
<1>2. Len(SubSeq(q, k + 1, Len(q))) # 0
  BY <1>1, LenZero
<1>3. k + 1 \in 1 .. Len(q) /\ Len(q) \in k + 1 .. Len(q)
  BY <1>1, <1>2
<1>4. QED  BY <1>3, HeadTailOfSubSeq
=============================================================================
