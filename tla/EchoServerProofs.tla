-------------------------- MODULE EchoServerProofs --------------------------
(***************************************************************************)
(* Proofs about EchoServer for any number of clients and bytes and any     *)
(* size of the buffer: replies are of fresh bytes, and what the client     *)
(* receives is the replies in order until one is assigned over another.    *)
(***************************************************************************)
EXTENDS EchoServer, SequenceLemmas

-----------------------------------------------------------------------------
(* FlattenSeq.  The function behind it, on the first n of the sequences r. *)
Flat(f, r, n) == f = [i \in 1 .. n |-> IF i = 1 THEN r[i] ELSE f[i-1] \o r[i]]

LEMMA FlattenIs ==
  ASSUME NEW r
  PROVE  FlattenSeq(r) = IF Len(r) = 0 THEN r
                         ELSE (CHOOSE f : Flat(f, r, Len(r)))[Len(r)]
BY DEF FlattenSeq, Flat

LEMMA FlatExists ==
  ASSUME NEW r, NEW n \in Nat
  PROVE  \E f : Flat(f, r, n)
<1> DEFINE T == {m \in Nat : \E f : Flat(f, r, m)}
<1>1. 0 \in T
  <2> DEFINE f == [i \in 1 .. 0 |-> 0]
  <2>1. f = [i \in 1 .. 0 |-> IF i = 1 THEN r[i] ELSE f[i-1] \o r[i]]
    OBVIOUS
  <2> HIDE DEF f
  <2>2. Flat(f, r, 0)
    BY <2>1 DEF Flat
  <2>3. QED  BY <2>2
<1>2. ASSUME NEW m \in Nat, m \in T
      PROVE  m + 1 \in T
  <2>1. PICK f : Flat(f, r, m)
    BY <1>2
  <2> DEFINE g == [i \in 1 .. m + 1 |->
                     IF i <= m THEN f[i] ELSE IF i = 1 THEN r[i] ELSE f[i-1] \o r[i]]
  <2>2. ASSUME NEW i \in 1 .. m + 1
        PROVE  g[i] = IF i = 1 THEN r[i] ELSE g[i-1] \o r[i]
    <3>1. i = 1 \/ (i # 1 /\ i - 1 \in 1 .. m + 1 /\ i - 1 <= m)
      OBVIOUS
    <3>2. i # 1 => g[i-1] = f[i-1]
      BY <3>1
    <3>3. i <= m => f[i] = IF i = 1 THEN r[i] ELSE f[i-1] \o r[i]
      <4>1. i <= m => i \in 1 .. m
        OBVIOUS
      <4>2. \A j \in 1 .. m : f[j] = IF j = 1 THEN r[j] ELSE f[j-1] \o r[j]
        BY <2>1 DEF Flat
      <4> HIDE DEF g
      <4>3. QED  BY <4>1, <4>2
    <3>4. g[i] = IF i <= m THEN f[i] ELSE IF i = 1 THEN r[i] ELSE f[i-1] \o r[i]
      OBVIOUS
    <3> HIDE DEF g
    <3>5. QED  BY <3>1, <3>2, <3>3, <3>4
  <2>3. g = [i \in 1 .. m + 1 |-> g[i]]
    OBVIOUS
  <2> HIDE DEF g
  <2>4. Flat(g, r, m + 1)
    BY <2>2, <2>3 DEF Flat
  <2>5. QED  BY <2>4
<1>3. Nat \subseteq T
  <2> HIDE DEF T
  <2>1. QED  BY <1>1, <1>2, NatInductionSet
<1>4. QED  BY <1>3

(* It depends on the sequences it has concatenated only.                   *)
LEMMA FlatAgree ==
  ASSUME NEW r, NEW s, NEW n \in Nat, NEW m \in Nat, n <= m,
         \A i \in 1 .. n : r[i] = s[i],
         NEW f, Flat(f, r, n), NEW g, Flat(g, s, m)
  PROVE  \A i \in 1 .. n : f[i] = g[i]
<1> DEFINE T == {i \in Nat : i \in 1 .. n => f[i] = g[i]}
<1>1. 0 \in T
  OBVIOUS
<1>2. ASSUME NEW i \in Nat, i \in T
      PROVE  i + 1 \in T
  <2> SUFFICES ASSUME i + 1 \in 1 .. n
               PROVE  f[i + 1] = g[i + 1]
    OBVIOUS
  <2>1. i + 1 \in 1 .. m /\ r[i + 1] = s[i + 1]
    OBVIOUS
  <2>2. f[i + 1] = IF i + 1 = 1 THEN r[i + 1] ELSE f[(i + 1) - 1] \o r[i + 1]
    BY DEF Flat
  <2>3. g[i + 1] = IF i + 1 = 1 THEN s[i + 1] ELSE g[(i + 1) - 1] \o s[i + 1]
    BY <2>1 DEF Flat
  <2>4. i + 1 # 1 => i \in 1 .. n /\ (i + 1) - 1 = i
    OBVIOUS
  <2>5. i + 1 # 1 => f[i] = g[i]
    BY <1>2, <2>4
  <2>6. QED  BY <2>1, <2>2, <2>3, <2>4, <2>5
<1>3. Nat \subseteq T
  <2> HIDE DEF T
  <2>1. QED  BY <1>1, <1>2, NatInductionSet
<1>4. QED  BY <1>3

LEMMA FlatType ==
  ASSUME NEW S, NEW r \in Seq(Seq(S)), NEW f, Flat(f, r, Len(r))
  PROVE  \A i \in 1 .. Len(r) : f[i] \in Seq(S)
<1> DEFINE n == Len(r)
           T == {i \in Nat : i \in 1 .. n => f[i] \in Seq(S)}
<1>1. n \in Nat /\ \A i \in 1 .. n : r[i] \in Seq(S)
  BY LenProperties, ElementOfSeq
<1>2. \A i \in 1 .. n : f[i] = IF i = 1 THEN r[i] ELSE f[i-1] \o r[i]
  BY DEF Flat
<1> HIDE DEF n
<1>3. 0 \in T
  OBVIOUS
<1>4. ASSUME NEW i \in Nat, i \in T
      PROVE  i + 1 \in T
  <2> SUFFICES ASSUME i + 1 \in 1 .. n
               PROVE  f[i + 1] \in Seq(S)
    OBVIOUS
  <2>1. f[i + 1] = IF i + 1 = 1 THEN r[i + 1] ELSE f[(i + 1) - 1] \o r[i + 1]
    BY <1>2
  <2>2. r[i + 1] \in Seq(S)
    BY <1>1
  <2>3. i + 1 # 1 => i \in 1 .. n /\ (i + 1) - 1 = i
    BY <1>1
  <2>4. i + 1 # 1 => f[i] \o r[i + 1] \in Seq(S)
    BY <1>4, <2>2, <2>3, ConcatProperties
  <2>5. QED  BY <2>1, <2>2, <2>3, <2>4
<1>5. Nat \subseteq T
  <2> HIDE DEF T
  <2>1. QED  BY <1>3, <1>4, NatInductionSet
<1>6. QED  BY <1>5 DEF n

LEMMA FlattenType ==
  ASSUME NEW S, NEW r \in Seq(Seq(S))
  PROVE  FlattenSeq(r) \in Seq(S)
<1>1. Len(r) \in Nat
  BY LenProperties
<1>2. CASE Len(r) = 0
  <2>1. r = <<>> /\ FlattenSeq(r) = r
    BY <1>2, LenZero, FlattenIs
  <2>2. FlattenSeq(r) = <<>> /\ <<>> \in Seq(S)
    BY <2>1
  <2>3. QED  BY <2>2
<1>3. CASE Len(r) # 0
  <2> DEFINE f == CHOOSE h : Flat(h, r, Len(r))
  <2>1. Flat(f, r, Len(r))
    BY <1>1, FlatExists
  <2>2. FlattenSeq(r) = f[Len(r)]
    BY <1>3, FlattenIs
  <2> HIDE DEF f
  <2>3. Len(r) \in 1 .. Len(r)
    BY <1>1, <1>3
  <2>4. \A i \in 1 .. Len(r) : f[i] \in Seq(S)
    BY <2>1, FlatType
  <2>5. QED  BY <2>2, <2>3, <2>4
<1>4. QED  BY <1>2, <1>3

LEMMA FlattenAppend ==
  ASSUME NEW S, NEW r \in Seq(Seq(S)), NEW x \in Seq(S)
  PROVE  FlattenSeq(Append(r, x)) = FlattenSeq(r) \o x
<1> DEFINE a == Append(r, x)
           n == Len(r)
           g == CHOOSE h : Flat(h, a, n + 1)
           f == CHOOSE h : Flat(h, r, n)
<1>1. /\ a \in Seq(Seq(S)) /\ Len(a) = n + 1 /\ n \in Nat
      /\ \A i \in 1 .. n : a[i] = r[i]
      /\ a[n + 1] = x
  BY AppendProperties, LenProperties
<1> DEFINE l == n + 1
<1>2. Flat(g, a, n + 1) /\ Flat(f, r, n)
  <2>1. n \in Nat /\ l \in Nat
    BY <1>1
  <2> HIDE DEF l, a, n
  <2>2. (\E h : Flat(h, a, l)) /\ \E h : Flat(h, r, n)
    BY <2>1, FlatExists
  <2>3. Flat(CHOOSE h : Flat(h, a, l), a, l) /\ Flat(f, r, n)
    BY <2>2
  <2>4. QED  BY <2>3 DEF l
<1>3. FlattenSeq(a) = g[n + 1]
  <2>1. Len(a) = n + 1 /\ n + 1 # 0
    BY <1>1
  <2> HIDE DEF a, n, g
  <2>2. FlattenSeq(a) = (CHOOSE h : Flat(h, a, Len(a)))[Len(a)]
    BY <2>1, FlattenIs
  <2>3. QED  BY <2>1, <2>2 DEF g
<1>4. n # 0 => FlattenSeq(r) = f[n]
  BY FlattenIs
<1>5. n = 0 => FlattenSeq(r) = <<>>
  BY FlattenIs, LenZero
<1> HIDE DEF a, f, g, n, l
<1>6. g[n + 1] = IF n + 1 = 1 THEN x ELSE g[n] \o x
  <2>1. n + 1 \in 1 .. n + 1 /\ (n + 1) - 1 = n
    BY <1>1
  <2>2. g[n + 1] = IF n + 1 = 1 THEN a[n + 1] ELSE g[(n + 1) - 1] \o a[n + 1]
    BY <1>2, <2>1 DEF Flat
  <2>3. QED  BY <1>1, <2>1, <2>2
<1>7. CASE n = 0
  <2>1. g[n + 1] = x
    BY <1>6, <1>7
  <2>2. <<>> \o x = x
    BY ConcatEmptySeq
  <2>3. QED  BY <1>3, <1>5, <1>7, <2>1, <2>2 DEF a
<1>8. CASE n # 0
  <2>1. n <= l /\ l \in Nat /\ n \in Nat /\ n \in 1 .. n /\ l # 1
    BY <1>1, <1>8 DEF l
  <2>2. Flat(f, r, n) /\ Flat(g, a, l) /\ \A i \in 1 .. n : r[i] = a[i]
    BY <1>1, <1>2 DEF l
  <2>3. \A i \in 1 .. n : f[i] = g[i]
    BY <2>1, <2>2, FlatAgree, SMTT(60)
  <2>4. g[n + 1] = f[n] \o x
    BY <1>6, <2>1, <2>3 DEF l
  <2>5. QED  BY <1>3, <1>4, <1>8, <2>4 DEF a
<1>9. QED  BY <1>7, <1>8

-----------------------------------------------------------------------------
(* Queues of pieces.  LeftIs(q, k): k units of the pieces of q are left to *)
(* send; h[i] are those behind piece i.                                    *)
Rem(w) == Len(w.text) - w.done

LeftIs(q, k) ==
    \E h \in [0 .. Len(q) -> Nat] :
        /\ h[0] = k
        /\ h[Len(q)] = 0
        /\ \A i \in 1 .. Len(q) : Rem(q[i]) \in Nat /\ h[i - 1] = h[i] + Rem(q[i])

(* A piece may be sent in full, not more.                                  *)
Sound(w) == w \in Piece /\ w.done <= Len(w.text)

LEMMA RemType ==
  ASSUME NEW w, Sound(w)
  PROVE  Rem(w) \in Nat
<1>1. w.text \in Seq(Unit) /\ w.done \in Nat
  BY DEF Sound, Piece
<1>2. Len(w.text) \in Nat
  BY <1>1, LenProperties
<1>3. QED  BY <1>1, <1>2 DEF Sound, Rem

LEMMA LeftEmpty ==
  /\ LeftIs(<<>>, 0)
  /\ \A k : LeftIs(<<>>, k) => k = 0
<1>1. Len(<<>>) = 0
  OBVIOUS
<1>2. \A i \in 1 .. 0 : FALSE
  OBVIOUS
<1>3. LeftIs(<<>>, 0)
  <2> DEFINE h == [i \in 0 .. 0 |-> 0]
  <2>1. h \in [0 .. Len(<<>>) -> Nat] /\ h[0] = 0 /\ h[Len(<<>>)] = 0
    BY <1>1
  <2> HIDE DEF h
  <2>2. QED  BY <1>1, <1>2, <2>1 DEF LeftIs
<1>4. \A k : LeftIs(<<>>, k) => k = 0
  BY <1>1 DEF LeftIs
<1>5. QED  BY <1>3, <1>4

LEMMA LeftAppend ==
  ASSUME NEW q \in Seq(Piece), NEW w \in Piece, Sound(w), NEW k \in Nat, LeftIs(q, k)
  PROVE  LeftIs(Append(q, w), k + Rem(w))
<1> DEFINE a == Append(q, w)
           n == Len(q)
<1>1. /\ a \in Seq(Piece) /\ Len(a) = n + 1 /\ n \in Nat
      /\ \A i \in 1 .. n : a[i] = q[i]
      /\ a[n + 1] = w
  BY AppendProperties, LenProperties
<1>2. PICK h \in [0 .. n -> Nat] :
         /\ h[0] = k /\ h[n] = 0
         /\ \A i \in 1 .. n : Rem(q[i]) \in Nat /\ h[i - 1] = h[i] + Rem(q[i])
  BY DEF LeftIs
<1>3. PICK r \in Nat : r = Rem(w)
  BY RemType
<1> HIDE DEF a, n
<1> DEFINE g == [i \in 0 .. n + 1 |-> IF i <= n THEN h[i] + r ELSE 0]
<1>4. g \in [0 .. n + 1 -> Nat]
  <2>1. \A i \in 0 .. n + 1 : i <= n => h[i] \in Nat
    BY <1>1
  <2>2. QED  BY <1>1, <2>1
<1>5. g[0] = k + r /\ g[n + 1] = 0
  BY <1>1, <1>2
<1>6. ASSUME NEW i \in 1 .. n + 1
      PROVE  Rem(a[i]) \in Nat /\ g[i - 1] = g[i] + Rem(a[i])
  <2>1. i - 1 \in 0 .. n /\ i - 1 \in 0 .. n + 1 /\ i - 1 <= n /\ i \in 0 .. n + 1
    BY <1>1
  <2>2. CASE i <= n
    <3>1. i \in 1 .. n /\ i \in 0 .. n /\ a[i] = q[i]
      BY <1>1, <2>2
    <3>2. h[i - 1] = h[i] + Rem(q[i]) /\ h[i] \in Nat /\ h[i - 1] \in Nat
      BY <1>2, <2>1, <3>1
    <3>3. g[i] = h[i] + r /\ g[i - 1] = h[i - 1] + r
      BY <2>1, <2>2
    <3>4. Rem(a[i]) \in Nat
      BY <1>2, <3>1
    <3>5. QED  BY <1>3, <3>1, <3>2, <3>3, <3>4
  <2>3. CASE i = n + 1
    <3>1. g[i] = 0 /\ g[i - 1] = h[n] + r /\ a[i] = w
      BY <1>1, <2>1, <2>3
    <3>2. QED  BY <1>2, <1>3, <3>1
  <2>4. QED  BY <1>1, <2>2, <2>3
<1>7. QED
  <2>1. g \in [0 .. Len(a) -> Nat] /\ g[0] = k + Rem(w) /\ g[Len(a)] = 0
    BY <1>1, <1>3, <1>4, <1>5
  <2>2. \A i \in 1 .. Len(a) : Rem(a[i]) \in Nat /\ g[i - 1] = g[i] + Rem(a[i])
    BY <1>1, <1>6
  <2> HIDE DEF g
  <2>3. QED  BY <2>1, <2>2 DEF LeftIs, a

(* The first piece taken off a queue.                                      *)
LEMMA LeftTail ==
  ASSUME NEW q \in Seq(Piece), q # <<>>, NEW k \in Nat, LeftIs(q, k)
  PROVE  /\ Rem(Head(q)) \in Nat
         /\ \E l \in Nat : k = l + Rem(Head(q)) /\ LeftIs(Tail(q), l)
<1> DEFINE n == Len(q)
           t == Tail(q)
<1>1. /\ t \in Seq(Piece) /\ n \in Nat \ {0} /\ Len(t) = n - 1 /\ Head(q) = q[1]
      /\ \A i \in 1 .. Len(t) : t[i] = q[i + 1]
  BY HeadTailProperties, EmptySeq, LenProperties
<1>2. PICK h \in [0 .. n -> Nat] :
         /\ h[0] = k /\ h[n] = 0
         /\ \A i \in 1 .. n : Rem(q[i]) \in Nat /\ h[i - 1] = h[i] + Rem(q[i])
  BY DEF LeftIs
<1> HIDE DEF t, n
<1>3. 1 \in 1 .. n /\ 1 \in 0 .. n /\ 1 - 1 = 0
  BY <1>1
<1>4. Rem(q[1]) \in Nat /\ h[1] \in Nat /\ k = h[1] + Rem(q[1])
  BY <1>2, <1>3
<1> DEFINE g == [i \in 0 .. Len(t) |-> h[i + 1]]
<1>5. g \in [0 .. Len(t) -> Nat] /\ \A i \in 0 .. Len(t) : g[i] = h[i + 1]
  <2>1. \A i \in 0 .. Len(t) : i + 1 \in 0 .. n
    BY <1>1
  <2>2. QED  BY <2>1
<1> HIDE DEF g
<1>6. g[0] = h[1] /\ g[Len(t)] = 0
  <2>1. 0 \in 0 .. Len(t) /\ 0 + 1 = 1 /\ Len(t) \in 0 .. Len(t) /\ Len(t) + 1 = n
    BY <1>1
  <2>2. QED  BY <1>2, <1>5, <2>1
<1>7. ASSUME NEW i \in 1 .. Len(t)
      PROVE  Rem(t[i]) \in Nat /\ g[i - 1] = g[i] + Rem(t[i])
  <2>1. /\ i + 1 \in 1 .. n /\ (i + 1) - 1 = i
        /\ i \in 0 .. Len(t) /\ i - 1 \in 0 .. Len(t) /\ (i - 1) + 1 = i
    BY <1>1
  <2>2. g[i] = h[i + 1] /\ g[i - 1] = h[i] /\ t[i] = q[i + 1]
    BY <1>1, <1>5, <2>1
  <2>3. Rem(q[i + 1]) \in Nat /\ h[(i + 1) - 1] = h[i + 1] + Rem(q[i + 1])
    BY <1>2, <2>1
  <2>4. QED  BY <2>1, <2>2, <2>3
<1>8. LeftIs(t, h[1])
  BY <1>5, <1>6, <1>7 DEF LeftIs
<1>9. QED  BY <1>1, <1>4, <1>8 DEF t

(* A new assignment of m_WriteMessage leaves what is left as it is.        *)
LEMMA OutdatedIs ==
  ASSUME NEW q \in Seq(Piece)
  PROVE  /\ Outdated(q) \in Seq(Piece) /\ Len(Outdated(q)) = Len(q)
         /\ DOMAIN Outdated(q) = DOMAIN q
         /\ \A i \in DOMAIN q : /\ Outdated(q)[i].text = q[i].text
                                /\ Outdated(q)[i].done = q[i].done
         /\ q = <<>> => Outdated(q) = <<>>
         /\ \A k : LeftIs(q, k) => LeftIs(Outdated(q), k)
<1> DEFINE n == Len(q)
           o == Outdated(q)
<1>1. n \in Nat /\ DOMAIN q = 1 .. n /\ \A i \in 1 .. n : q[i] \in Piece
  BY LenProperties, ElementOfSeq
<1>2. o = [i \in 1 .. n |-> [q[i] EXCEPT !.live = FALSE]]
  BY <1>1 DEF Outdated
<1>3. \A i \in 1 .. n : /\ o[i] \in Piece
                        /\ o[i].text = q[i].text /\ o[i].done = q[i].done
  BY <1>1, <1>2 DEF Piece
<1>4. o \in [1 .. n -> Piece]
  BY <1>2, <1>3
<1>5. o \in Seq(Piece)
  BY <1>1, <1>4, SeqDef
<1>6. Len(o) = n /\ DOMAIN o = 1 .. n
  BY <1>1, <1>4, <1>5, LenProperties
<1> HIDE DEF o
<1>7. \A i \in 1 .. n : Rem(o[i]) = Rem(q[i])
  BY <1>3 DEF Rem
<1>8. \A k : LeftIs(q, k) => LeftIs(o, k)
  BY <1>6, <1>7 DEF LeftIs
<1>9. q = <<>> => o = <<>>
  BY <1>5, <1>6, LenZero
<1>10. QED  BY <1>1, <1>3, <1>5, <1>6, <1>8, <1>9 DEF o

(* What a queue of sound pieces keeps.                                     *)
AllSound(q) == \A i \in DOMAIN q : q[i].done <= Len(q[i].text)
AllDone(q) == \A i \in DOMAIN q : q[i].done = Len(q[i].text)
Waiting(q) == \A i \in DOMAIN q : q[i].done < Len(q[i].text)

LEMMA QueueAppend ==
  ASSUME NEW q \in Seq(Piece), NEW w \in Piece
  PROVE  /\ AllSound(q) /\ w.done <= Len(w.text) => AllSound(Append(q, w))
         /\ AllDone(q) /\ w.done = Len(w.text) => AllDone(Append(q, w))
         /\ Waiting(q) /\ w.done < Len(w.text) => Waiting(Append(q, w))
         /\ AllDone(Append(q, w)) => AllDone(q) /\ w.done = Len(w.text)
<1> DEFINE a == Append(q, w)
<1>1. /\ a \in Seq(Piece) /\ Len(a) = Len(q) + 1 /\ Len(q) \in Nat
      /\ \A i \in 1 .. Len(q) : a[i] = q[i]
      /\ a[Len(q) + 1] = w
  BY AppendProperties, LenProperties
<1>2. DOMAIN a = 1 .. Len(q) + 1 /\ DOMAIN q = 1 .. Len(q)
  BY <1>1, LenProperties
<1> HIDE DEF a
<1>3. 1 .. Len(q) + 1 = (1 .. Len(q)) \cup {Len(q) + 1}
  BY <1>1
<1>4. \A i \in DOMAIN a : (i \in DOMAIN q /\ a[i] = q[i]) \/ a[i] = w
  BY <1>1, <1>2, <1>3
<1>5. /\ \A i \in DOMAIN q : i \in DOMAIN a /\ a[i] = q[i]
      /\ Len(q) + 1 \in DOMAIN a
  BY <1>1, <1>2, <1>3
<1>6. QED  BY <1>1, <1>4, <1>5 DEF AllSound, AllDone, Waiting, a

LEMMA QueueTail ==
  ASSUME NEW q \in Seq(Piece), q # <<>>
  PROVE  /\ Tail(q) \in Seq(Piece) /\ Head(q) \in Piece
         /\ AllSound(q) => AllSound(Tail(q)) /\ Head(q).done <= Len(Head(q).text)
         /\ AllDone(q) => AllDone(Tail(q)) /\ Head(q).done = Len(Head(q).text)
         /\ Waiting(q) => Waiting(Tail(q)) /\ Head(q).done < Len(Head(q).text)
<1> DEFINE t == Tail(q)
<1>1. /\ t \in Seq(Piece) /\ Head(q) \in Piece /\ Head(q) = q[1]
      /\ Len(q) \in Nat \ {0} /\ Len(t) = Len(q) - 1
      /\ \A i \in 1 .. Len(t) : t[i] = q[i + 1]
  BY HeadTailProperties, EmptySeq, LenProperties
<1>2. DOMAIN t = 1 .. Len(t) /\ DOMAIN q = 1 .. Len(q)
  BY <1>1, LenProperties
<1> HIDE DEF t
<1>3. \A i \in DOMAIN t : i + 1 \in DOMAIN q /\ t[i] = q[i + 1]
  BY <1>1, <1>2
<1>4. 1 \in DOMAIN q
  BY <1>1, <1>2
<1>5. QED  BY <1>1, <1>3, <1>4 DEF AllSound, AllDone, Waiting, t

(* Taking the first off a queue that has w last.                           *)
LEMMA TailAppend ==
  ASSUME NEW S, NEW q \in Seq(S), NEW w \in S
  PROVE  /\ q # <<>> => /\ Tail(Append(q, w)) = Append(Tail(q), w)
                        /\ Head(Append(q, w)) = Head(q)
         /\ q = <<>> => /\ Tail(Append(q, w)) = <<>>
                        /\ Head(Append(q, w)) = w
<1>1. CASE q = <<>>
  <2>1. Append(q, w) = <<w>>
    BY <1>1, Singleton
  <2>2. Tail(<<w>>) = <<>> /\ Head(<<w>>) = w
    OBVIOUS
  <2>3. QED  BY <1>1, <2>1, <2>2
<1>2. CASE q # <<>>
  <2> DEFINE a == Append(q, w)
             l == Tail(a)
             r == Append(Tail(q), w)
  <2>1. /\ a \in Seq(S) /\ a # <<>> /\ Len(a) = Len(q) + 1 /\ Len(q) \in Nat \ {0}
        /\ \A i \in 1 .. Len(q) : a[i] = q[i]
        /\ a[Len(q) + 1] = w
    BY <1>2, AppendProperties, EmptySeq, LenProperties
  <2>2. /\ Tail(q) \in Seq(S) /\ Len(Tail(q)) = Len(q) - 1
        /\ \A i \in 1 .. Len(Tail(q)) : Tail(q)[i] = q[i + 1]
    BY <1>2, HeadTailProperties
  <2> HIDE DEF a
  <2>3. /\ l \in Seq(S) /\ Len(l) = Len(a) - 1
        /\ \A i \in 1 .. Len(l) : l[i] = a[i + 1]
    BY <2>1, HeadTailProperties
  <2>4. /\ r \in Seq(S) /\ Len(r) = Len(Tail(q)) + 1
        /\ \A i \in 1 .. Len(Tail(q)) : r[i] = Tail(q)[i]
        /\ r[Len(Tail(q)) + 1] = w
    BY <2>2, AppendProperties
  <2> HIDE DEF l, r
  <2>5. Len(l) = Len(q) /\ Len(r) = Len(q)
    BY <2>1, <2>2, <2>3, <2>4
  <2>6. ASSUME NEW i \in 1 .. Len(l)
        PROVE  l[i] = r[i]
    <3>1. l[i] = a[i + 1]
      BY <2>3
    <3>2. CASE i = Len(q)
      <4>1. r[i] = w /\ a[i + 1] = w
        BY <2>1, <2>2, <2>4, <3>2
      <4>2. QED  BY <3>1, <4>1
    <3>3. CASE i # Len(q)
      <4>1. i \in 1 .. Len(Tail(q)) /\ i + 1 \in 1 .. Len(q)
        <5>1. i \in 1 .. Len(q) /\ Len(q) \in Nat
          BY <2>1, <2>5
        <5>2. Len(Tail(q)) = Len(q) - 1
          BY <2>2
        <5>3. QED  BY <3>3, <5>1, <5>2
      <4>2. r[i] = q[i + 1] /\ a[i + 1] = q[i + 1]
        BY <2>1, <2>2, <2>4, <4>1
      <4>3. QED  BY <3>1, <4>2
    <3>4. QED  BY <3>2, <3>3
  <2>7. l = r
    BY <2>3, <2>4, <2>5, <2>6, SeqEqual
  <2>8. QED  BY <1>2, <2>7, HeadAppend DEF a, l, r
<1>3. QED  BY <1>1, <1>2

(* What has not been sent of a piece, before and after n more units have.  *)
RestOf(w) == SubSeq(w.text, w.done + 1, Len(w.text))

LEMMA RestFacts ==
  ASSUME NEW w, Sound(w)
  PROVE  /\ RestOf(w) \in Seq(Unit)
         /\ Len(RestOf(w)) = Rem(w)
         /\ \A i \in 1 .. Rem(w) : RestOf(w)[i] = w.text[w.done + i]
         /\ w.done = Len(w.text) => RestOf(w) = <<>>
         /\ w.done = 0 => RestOf(w) = w.text
<1> DEFINE q == w.text
           k == w.done
<1>1. q \in Seq(Unit) /\ Len(q) \in Nat /\ k \in 0 .. Len(q)
  <2>1. q \in Seq(Unit) /\ k \in Nat /\ k <= Len(q)
    BY DEF Sound, Piece
  <2>2. Len(q) \in Nat
    BY <2>1, LenProperties
  <2>3. QED  BY <2>1, <2>2
<1> HIDE DEF q, k
<1>2. /\ SubSeq(q, k + 1, Len(q)) \in Seq(Unit)
      /\ Len(SubSeq(q, k + 1, Len(q))) = Len(q) - k
      /\ \A i \in 1 .. Len(q) - k : SubSeq(q, k + 1, Len(q))[i] = q[k + i]
  BY <1>1, SuffixFacts
<1>3. RestOf(w) = SubSeq(q, k + 1, Len(q)) /\ Rem(w) = Len(q) - k
  BY DEF RestOf, Rem, q, k
<1>4. /\ RestOf(w) \in Seq(Unit) /\ Len(RestOf(w)) = Rem(w)
      /\ \A i \in 1 .. Rem(w) : RestOf(w)[i] = q[k + i]
  BY <1>2, <1>3
<1>5. k = Len(q) => RestOf(w) = <<>>
  BY <1>1, <1>3, <1>4, LenZero
<1>6. k = 0 => RestOf(w) = q
  <2>1. k = 0 => \A i \in 1 .. Len(q) : RestOf(w)[i] = q[i]
    BY <1>1, <1>3, <1>4
  <2>2. k = 0 => Len(RestOf(w)) = Len(q)
    BY <1>1, <1>3, <1>4
  <2>3. QED  BY <1>1, <1>4, <2>1, <2>2, SeqEqual
<1>7. QED  BY <1>4, <1>5, <1>6 DEF q, k

LEMMA RestSplit ==
  ASSUME NEW w, Sound(w), NEW n \in 1 .. Rem(w), NEW p \in Seq(Unit), Len(p) = n,
         \A i \in 1 .. n : p[i] = w.text[w.done + i],
         NEW v, v = [w EXCEPT !.done = @ + n]
  PROVE  /\ Sound(v) /\ v.text = w.text /\ v.live = w.live
         /\ v.done = w.done + n /\ Rem(w) = Rem(v) + n
         /\ p \o RestOf(v) = RestOf(w)
<1>1. /\ w \in Piece /\ w.text \in Seq(Unit) /\ w.done \in Nat /\ Rem(w) \in Nat
      /\ Len(w.text) \in Nat /\ Rem(w) = Len(w.text) - w.done
  BY RemType, LenProperties DEF Sound, Piece, Rem
<1>2. v \in Piece /\ v.text = w.text /\ v.live = w.live /\ v.done = w.done + n
  BY <1>1 DEF Piece
<1>3. v.done <= Len(v.text) /\ Rem(v) = Len(w.text) - (w.done + n) /\ Rem(w) = Rem(v) + n
  BY <1>1, <1>2 DEF Rem
<1>4. Sound(v)
  BY <1>2, <1>3 DEF Sound
<1>5. /\ RestOf(v) \in Seq(Unit) /\ Len(RestOf(v)) = Rem(v) /\ Rem(v) \in Nat
      /\ \A i \in 1 .. Rem(v) : RestOf(v)[i] = v.text[v.done + i]
  <2>1. Rem(v) \in Nat
    BY <1>4, RemType
  <2>2. RestOf(v) \in Seq(Unit)
    BY <1>4, RestFacts
  <2>3. Len(RestOf(v)) = Rem(v)
    BY <1>4, RestFacts
  <2>4. \A i \in 1 .. Rem(v) : RestOf(v)[i] = v.text[v.done + i]
    BY <1>4, RestFacts
  <2>5. QED  BY <2>1, <2>2, <2>3, <2>4
<1>6. /\ RestOf(w) \in Seq(Unit) /\ Len(RestOf(w)) = Rem(w)
      /\ \A i \in 1 .. Rem(w) : RestOf(w)[i] = w.text[w.done + i]
  BY RestFacts
<1> DEFINE l == p \o RestOf(v)
<1>7. /\ l \in Seq(Unit) /\ Len(l) = n + Rem(v)
      /\ \A i \in 1 .. n + Rem(v) : l[i] = IF i <= n THEN p[i] ELSE RestOf(v)[i - n]
  <2> DEFINE t == RestOf(v)
  <2>1. t \in Seq(Unit) /\ Len(t) = Rem(v)
    BY <1>5
  <2> HIDE DEF t
  <2>2. /\ p \o t \in Seq(Unit) /\ Len(p \o t) = Len(p) + Len(t)
        /\ \A i \in 1 .. Len(p) + Len(t) :
              (p \o t)[i] = IF i <= Len(p) THEN p[i] ELSE t[i - Len(p)]
    BY <2>1, ConcatProperties
  <2>3. QED  BY <2>1, <2>2 DEF t
<1> HIDE DEF l
<1>8. ASSUME NEW i \in 1 .. Len(l)
      PROVE  l[i] = RestOf(w)[i]
  <2>1. i \in 1 .. n + Rem(v) /\ i \in 1 .. Rem(w)
    BY <1>1, <1>3, <1>5, <1>7
  <2>2. CASE i <= n
    BY <1>6, <1>7, <2>1, <2>2
  <2>3. CASE ~(i <= n)
    <3>1. /\ i - n \in 1 .. Rem(v)
          /\ v.done + (i - n) = w.done + i
      <4>1. Rem(v) \in Nat /\ i \in 1 .. n + Rem(v)
        BY <1>5, <2>1
      <4>2. i - n \in 1 .. Rem(v)
        BY <2>3, <4>1
      <4>3. v.done = w.done + n /\ w.done \in Nat
        BY <1>1, <1>2
      <4> DEFINE k == w.done
                 m == v.done
      <4>4. m = k + n /\ k \in Nat /\ i \in Int /\ n \in Int
        BY <4>1, <4>3
      <4> HIDE DEF k, m
      <4>5. m + (i - n) = k + i
        BY <4>4
      <4>6. QED  BY <4>2, <4>5 DEF k, m
    <3>2. l[i] = RestOf(v)[i - n] /\ RestOf(v)[i - n] = v.text[v.done + (i - n)]
      BY <1>5, <1>7, <2>1, <2>3, <3>1
    <3>3. QED  BY <1>2, <1>6, <2>1, <3>1, <3>2
  <2>4. QED  BY <2>2, <2>3
<1>9. Len(l) = Len(RestOf(w))
  BY <1>1, <1>3, <1>5, <1>6, <1>7
<1>10. l = RestOf(w)
  BY <1>6, <1>7, <1>8, <1>9, SeqEqual
<1>11. QED  BY <1>2, <1>3, <1>4, <1>10 DEF l

-----------------------------------------------------------------------------
(* The text of a reply: what a receive brought, up to its first NUL.       *)
LEMMA TextIs ==
  ASSUME NEW n \in 1 .. BufferSize, taken \in Nat, taken + n <= MaxBytes,
         NEW text, text = CString(Filled(n))
  PROVE  /\ Filled(n) \in [1 .. BufferSize -> Unit]
         /\ text \in Seq(Unit)
         /\ Len(text) <= n
         /\ \A j \in 1 .. Len(text) : text[j] = taken + j
<1> DEFINE b == Filled(n)
           s == b \o <<NUL>>
<1>1. n \in Nat /\ BufferSize \in Nat /\ n <= BufferSize /\ MaxBytes \in Nat
  BY BufferAssumption, StreamAssumption
<1>2. \A i \in 1 .. BufferSize : b[i] = IF i <= n THEN Byte(taken + i) ELSE NUL
  BY DEF Filled
<1>3. \A i \in 1 .. n : taken + i \in 1 .. MaxBytes /\ Byte(taken + i) \in {NUL, taken + i}
  BY <1>1 DEF Byte
<1>4. \A i \in 1 .. BufferSize : b[i] \in Unit
  <2> TAKE i \in 1 .. BufferSize
  <2>1. CASE i <= n
    <3>1. b[i] \in {NUL, taken + i} /\ taken + i \in 1 .. MaxBytes
      BY <1>2, <1>3, <2>1
    <3>2. QED  BY <3>1 DEF Unit
  <2>2. CASE ~(i <= n)
    BY <1>2, <2>2 DEF Unit
  <2>3. QED  BY <2>1, <2>2
<1>5. b = [i \in 1 .. BufferSize |-> b[i]]
  BY DEF Filled
<1>6. b \in [1 .. BufferSize -> Unit]
  <2> HIDE DEF b
  <2>1. QED  BY <1>4, <1>5
<1>7. b \in Seq(Unit) /\ Len(b) = BufferSize
  <2> HIDE DEF b
  <2>1. b \in Seq(Unit)
    BY <1>1, <1>6, SeqDef
  <2>2. QED  BY <1>1, <1>6, <2>1, LenProperties
<1>8. text = SubSeq(b, 1, SelectInSeq(s, LAMBDA u : u = NUL) - 1)
  BY DEF CString
<1> HIDE DEF b
<1>9. /\ s \in Seq(Unit) /\ Len(s) = BufferSize + 1
      /\ \A i \in 1 .. BufferSize : s[i] = b[i]
      /\ s[BufferSize + 1] = NUL
  <2>1. NUL \in Unit
    BY DEF Unit
  <2>2. s = Append(b, NUL)
    BY <1>7, <2>1, AppendIsConcat
  <2>3. QED  BY <1>7, <2>1, <2>2, AppendProperties
<1> HIDE DEF s
<1> DEFINE I == {j \in 1 .. Len(s) : s[j] = NUL}
           z == Min(I)
<1>10. BufferSize + 1 \in I
  BY <1>1, <1>9
<1>11. z \in I /\ \A j \in I : z <= j
  <2>1. I \subseteq Nat /\ I # {}
    BY <1>1, <1>9, <1>10
  <2> HIDE DEF I
  <2>2. QED  BY <2>1, LeastNatural DEF Min
<1>12. text = SubSeq(b, 1, z - 1)
  <2>1. SelectInSeq(s, LAMBDA u : u = NUL) = IF I # {} THEN Min(I) ELSE 0
    BY DEF SelectInSeq
  <2>2. QED  BY <1>8, <1>10, <2>1
<1> HIDE DEF z
<1>13. z \in 1 .. BufferSize + 1 /\ \A j \in 1 .. Len(s) : s[j] = NUL => z <= j
  BY <1>9, <1>11
<1>14. z - 1 <= n
  <2>1. CASE n = BufferSize
    BY <1>1, <1>13, <2>1
  <2>2. CASE n < BufferSize
    <3> DEFINE k == n + 1
    <3>1. k \in 1 .. BufferSize /\ k \in 1 .. Len(s) /\ ~(k <= n)
      BY <1>1, <1>9, <2>2
    <3> HIDE DEF k
    <3>2. s[k] = NUL
      BY <1>2, <1>9, <3>1 DEF b
    <3>3. z <= k
      BY <1>13, <3>1, <3>2
    <3>4. QED  BY <1>1, <1>13, <3>3 DEF k
  <2>3. QED  BY <1>1, <2>1, <2>2
<1>15. \A j \in 1 .. z - 1 : b[j] = taken + j
  <2> TAKE j \in 1 .. z - 1
  <2>1. j \in 1 .. n /\ j \in 1 .. BufferSize /\ j \in 1 .. Len(s) /\ ~(z <= j) /\ j <= n
    BY <1>1, <1>9, <1>13, <1>14
  <2>2. b[j] # NUL
    BY <1>9, <1>13, <2>1
  <2>3. b[j] = Byte(taken + j)
    BY <1>2, <2>1 DEF b
  <2>4. QED  BY <1>3, <2>1, <2>2, <2>3
<1>16. /\ text \in Seq(Unit)
       /\ Len(text) = z - 1
       /\ \A j \in 1 .. z - 1 : text[j] = b[j]
  <2>1. 1 \in Int /\ z - 1 \in Int /\ \A j \in 1 .. z - 1 : b[j] \in Unit
    <3>1. \A j \in 1 .. z - 1 : j \in 1 .. BufferSize
      BY <1>1, <1>13
    <3>2. QED  BY <1>4, <1>13, <3>1 DEF b
  <2>2. /\ SubSeq(b, 1, z - 1) \in Seq(Unit)
        /\ Len(SubSeq(b, 1, z - 1)) = IF 1 <= z - 1 THEN z - 1 - 1 + 1 ELSE 0
        /\ \A j \in 1 .. z - 1 - 1 + 1 : SubSeq(b, 1, z - 1)[j] = b[1 + j - 1]
    BY <2>1, SubSeqProperties
  <2>3. /\ (IF 1 <= z - 1 THEN z - 1 - 1 + 1 ELSE 0) = z - 1
        /\ \A j \in 1 .. z - 1 : j \in 1 .. z - 1 - 1 + 1 /\ 1 + j - 1 = j
    BY <1>13
  <2>4. QED  BY <1>12, <2>2, <2>3
<1>17. QED  BY <1>6, <1>14, <1>15, <1>16 DEF b

(* A reply is RE and the text.                                             *)
LEMMA ReplyIs ==
  ASSUME NEW text \in Seq(Unit), NEW r, r = <<RE>> \o text
  PROVE  /\ r \in Seq(Unit) /\ Len(r) = Len(text) + 1 /\ Len(text) \in Nat
         /\ \A j \in 2 .. Len(r) : j - 1 \in 1 .. Len(text) /\ r[j] = text[j - 1]
<1> DEFINE h == <<RE>>
<1>1. h \in Seq(Unit) /\ Len(h) = 1
  BY DEF Unit
<1> HIDE DEF h
<1>2. /\ h \o text \in Seq(Unit)
      /\ Len(h \o text) = Len(h) + Len(text)
      /\ \A i \in 1 .. Len(h) + Len(text) :
            (h \o text)[i] = IF i <= Len(h) THEN h[i] ELSE text[i - Len(h)]
  BY <1>1, ConcatProperties
<1>3. r = h \o text /\ Len(text) \in Nat
  BY LenProperties DEF h
<1>4. /\ r \in Seq(Unit) /\ Len(r) = 1 + Len(text)
      /\ \A i \in 1 .. 1 + Len(text) : r[i] = IF i <= 1 THEN h[i] ELSE text[i - 1]
  BY <1>1, <1>2, <1>3
<1>5. \A j \in 2 .. Len(r) : /\ j \in 1 .. 1 + Len(text) /\ ~(j <= 1)
                             /\ j - 1 \in 1 .. Len(text)
  BY <1>3, <1>4
<1>6. QED  BY <1>3, <1>4, <1>5

-----------------------------------------------------------------------------
(* The inductive invariant.                                                *)

(* A client that has connected never is away again.                        *)
NotAway ==
    /\ client # None => link[client] # "away"
    /\ \A c \in Range(backlog) : link[c] # "away"

(* There is one accept; before it nothing is read or written.              *)
Unused ==
    /\ accepting => client = None
    /\ reading => client # None
    /\ client = None => /\ writes = <<>> /\ finished = <<>>
                        /\ replies = <<>> /\ toClient = <<>>

(* Replies are of bytes read.                                              *)
Fresh ==
    /\ RepliesAreFresh
    /\ \A i \in DOMAIN replies : \A j \in 2 .. Len(replies[i]) : replies[i][j] \in 1 .. taken

Open == client # None /\ link[client] = "open"

(* What was received and what is left to send is as long as the replies.   *)
Count ==
    Open => \E k, l \in Nat : /\ LeftIs(writes, k) /\ LeftIs(finished, l)
                              /\ Len(toClient) + k + l = Len(Answered)

(* Until a reply is assigned over another one, at most the last piece is   *)
(* not sent, and it is what the client lacks.                              *)
AllSent == writes = <<>> /\ AllDone(finished) /\ toClient = Answered

Lacks(w) == w.live /\ Sound(w) /\ toClient \o RestOf(w) = Answered

Posted == \E w \in Piece : writes = <<w>> /\ AllDone(finished) /\ Lacks(w)

Underway ==
    \E q \in Seq(Piece), w \in Piece :
        writes = <<>> /\ finished = Append(q, w) /\ AllDone(q) /\ Lacks(w)

Exact == Open /\ ~overwritten => AllSent \/ Posted \/ Underway

Sounds == AllSound(writes) /\ AllSound(finished) /\ Waiting(writes)

Typed ==
    /\ main \in {"running", "returned", "aborted"}
    /\ accepting \in BOOLEAN /\ reading \in BOOLEAN /\ overwritten \in BOOLEAN
    /\ client \in Clients \cup {None}
    /\ m_ReceiveBuffer \in [1 .. BufferSize -> Unit]
    /\ m_WriteMessage \in Seq(Unit) /\ Len(m_WriteMessage) <= MaxText + 1
    /\ writes \in Seq(Piece) /\ finished \in Seq(Piece)
    /\ Sounds
    /\ backlog \in Seq(Clients)
    /\ link \in [Clients -> {"away", "open", "closed"}]
    /\ sent \in 0 .. MaxBytes /\ taken \in 0 .. sent
    /\ toClient \in Seq(Unit \cup {Junk})
    /\ replies \in Seq(Seq(Unit))

IInv == Typed /\ NotAway /\ Unused /\ Fresh /\ Count /\ Exact

LEMMA PiecesAre ==
  ASSUME writes \in Seq(Piece), finished \in Seq(Piece)
  PROVE  /\ Pieces = Range(writes) \cup Range(finished)
         /\ Pieces = {} => writes = <<>> /\ finished = <<>>
<1> DEFINE a == writes
           b == finished
           c == a \o b
<1> HIDE DEF a, b
<1>0. a \in Seq(Piece) /\ b \in Seq(Piece)
  BY DEF a, b
<1>1. Range(c) = Range(a) \cup Range(b)
  BY <1>0, RangeConcatenation
<1>2. Pieces = Range(c)
  BY DEF Pieces, ToSet, Range, a, b
<1>3. Range(a) = {} => a = <<>>
  <2>1. a # <<>> => 1 \in DOMAIN a
    BY <1>0, EmptySeq, LenProperties
  <2>2. QED  BY <2>1 DEF Range
<1>4. Range(b) = {} => b = <<>>
  <2>1. b # <<>> => 1 \in DOMAIN b
    BY <1>0, EmptySeq, LenProperties
  <2>2. QED  BY <2>1 DEF Range
<1> HIDE DEF c
<1>5. QED  BY <1>1, <1>2, <1>3, <1>4 DEF a, b

LEMMA TypedIsTypeOK == Typed => TypeOK
<1> SUFFICES ASSUME Typed
             PROVE  TypeOK
  OBVIOUS
<1>1. \A w \in Pieces : w.done <= Len(w.text)
  BY PiecesAre DEF Typed, Sounds, AllSound, Range
<1>2. QED  BY <1>1 DEF Typed, TypeOK

-----------------------------------------------------------------------------
LEMMA SeqMonotone ==
  ASSUME NEW S, NEW T, S \subseteq T, NEW q \in Seq(S)
  PROVE  q \in Seq(T)
<1>1. Len(q) \in Nat /\ q \in [1 .. Len(q) -> S]
  BY LenProperties
<1>2. q \in [1 .. Len(q) -> T]
  BY <1>1
<1>3. QED  BY <1>1, <1>2, SeqDef

LEMMA AnsweredType ==
  ASSUME Typed
  PROVE  Answered \in Seq(Unit) /\ Len(Answered) \in Nat
<1>1. Answered \in Seq(Unit)
  BY FlattenType DEF Typed, Answered
<1>2. QED  BY <1>1, LenProperties

LEMMA InitOK == Init => IInv
<1> SUFFICES ASSUME Init
             PROVE  IInv
  OBVIOUS
<1>1. /\ writes = <<>> /\ finished = <<>> /\ replies = <<>> /\ backlog = <<>>
      /\ client = None /\ reading = FALSE /\ taken = 0 /\ toClient = <<>>
      /\ m_WriteMessage = <<>> /\ sent = 0
  BY DEF Init
<1>2. /\ <<>> \in Seq(Piece) /\ <<>> \in Seq(Unit) /\ <<>> \in Seq(Clients)
      /\ <<>> \in Seq(Unit \cup {Junk}) /\ <<>> \in Seq(Seq(Unit))
      /\ Len(<<>>) = 0 /\ DOMAIN <<>> = {}
  OBVIOUS
<1>3. Typed
  <2>1. Sounds
    BY <1>1, <1>2 DEF Sounds, AllSound, Waiting
  <2>2. m_ReceiveBuffer \in [1 .. BufferSize -> Unit]
    BY DEF Init, Unit
  <2>3. MaxText \in Nat /\ MaxBytes \in Nat
    BY BufferAssumption, StreamAssumption
  <2>4. 0 <= MaxText + 1 /\ 0 \in 0 .. MaxBytes /\ 0 \in 0 .. 0
    BY <2>3
  <2>5. /\ main = "running" /\ accepting \in BOOLEAN /\ overwritten \in BOOLEAN
        /\ link \in [Clients -> {"away", "open", "closed"}]
    BY DEF Init
  <2>6. QED  BY <1>1, <1>2, <2>1, <2>2, <2>4, <2>5 DEF Typed
<1>4. NotAway
  BY <1>1, <1>2 DEF NotAway, Range
<1>5. Unused
  BY <1>1 DEF Unused, Init
<1>6. Fresh
  BY <1>1, <1>2 DEF Fresh, RepliesAreFresh
<1>7. Count /\ Exact
  BY <1>1 DEF Count, Exact, Open
<1>8. QED  BY <1>3, <1>4, <1>5, <1>6, <1>7 DEF IInv

-----------------------------------------------------------------------------
(* What HandleReceive, Write and Transmit do, for the steps below.         *)
LEMMA ReceiveIs ==
  ASSUME Typed, HandleReceive
  PROVE  \E n \in 1 .. BufferSize, text \in Seq(Unit) :
            /\ taken + n <= sent /\ taken' = taken + n
            /\ m_ReceiveBuffer' \in [1 .. BufferSize -> Unit]
            /\ \A j \in 1 .. Len(text) : text[j] = taken + j
            /\ Len(text) <= n
            /\ \/ Len(text) <= MaxText /\ Write(<<RE>> \o text) /\ UNCHANGED main
               \/ main' = "aborted" /\ UNCHANGED writeVars
            /\ UNCHANGED <<reading, accepting, client, netVars, toClient>>
<1>1. PICK n \in 1 .. BufferSize :
         n <= sent - taken /\ taken' = taken + n /\ m_ReceiveBuffer' = Filled(n)
  BY DEF HandleReceive
<1>2. PICK text : text = CString(Filled(n))
  OBVIOUS
<1>3. /\ taken \in Nat /\ sent \in Nat /\ n \in Nat /\ sent <= MaxBytes
      /\ taken + n <= sent /\ taken + n <= MaxBytes
  <2>1. BufferSize \in Nat /\ MaxBytes \in Nat
    BY BufferAssumption, StreamAssumption
  <2>2. QED  BY <1>1, <2>1 DEF Typed
<1>4. /\ Filled(n) \in [1 .. BufferSize -> Unit]
      /\ text \in Seq(Unit)
      /\ Len(text) <= n
      /\ \A j \in 1 .. Len(text) : text[j] = taken + j
  BY <1>2, <1>3, TextIs
<1>5. CString(m_ReceiveBuffer') = text
  BY <1>1, <1>2
<1>6. \/ Fits(text) /\ Write(<<RE>> \o text) /\ UNCHANGED main
      \/ main' = "aborted" /\ UNCHANGED writeVars
  BY <1>5 DEF HandleReceive
<1>7. UNCHANGED <<reading, accepting, client, netVars, toClient>>
  BY DEF HandleReceive
<1>8. QED  BY <1>1, <1>3, <1>4, <1>6, <1>7 DEF Fits

LEMMA OutdatedSound ==
  ASSUME NEW q \in Seq(Piece)
  PROVE  /\ Outdated(q) \in Seq(Piece)
         /\ AllSound(q) => AllSound(Outdated(q))
         /\ Waiting(q) => Waiting(Outdated(q))
<1>1. /\ Outdated(q) \in Seq(Piece) /\ DOMAIN Outdated(q) = DOMAIN q
      /\ \A i \in DOMAIN q : /\ Outdated(q)[i].text = q[i].text
                             /\ Outdated(q)[i].done = q[i].done
  BY OutdatedIs
<1>2. QED  BY <1>1 DEF AllSound, Waiting

NewPiece(r) == [text |-> r, done |-> 0, live |-> TRUE]

LEMMA WriteIs ==
  ASSUME Typed, NEW r \in Seq(Unit), Len(r) \in Nat \ {0}, Write(r)
  PROVE  /\ NewPiece(r) \in Piece /\ Sound(NewPiece(r)) /\ Rem(NewPiece(r)) = Len(r)
         /\ RestOf(NewPiece(r)) = r
         /\ writes' = Append(Outdated(writes), NewPiece(r))
         /\ finished' = Outdated(finished)
         /\ m_WriteMessage' = r /\ replies' = Append(replies, r)
         /\ overwritten' = (overwritten \/ \E w \in Pieces : w.done < Len(w.text))
         /\ writes' \in Seq(Piece) /\ finished' \in Seq(Piece)
         /\ Sounds'
         /\ replies' \in Seq(Seq(Unit))
         /\ Answered' = Answered \o r
<1> DEFINE v == NewPiece(r)
<1>1. v \in Piece /\ v.done = 0 /\ v.text = r /\ v.done < Len(v.text)
  BY DEF NewPiece, Piece
<1>2. Sound(v) /\ Rem(v) = Len(r)
  BY <1>1 DEF Sound, Rem
<1>3. RestOf(v) = r
  BY <1>1, <1>2, RestFacts
<1>4. /\ writes' = Append(Outdated(writes), v) /\ finished' = Outdated(finished)
      /\ m_WriteMessage' = r /\ replies' = Append(replies, r)
      /\ overwritten' = (overwritten \/ \E w \in Pieces : w.done < Len(w.text))
  BY DEF Write, NewPiece
<1>5. /\ writes \in Seq(Piece) /\ finished \in Seq(Piece) /\ replies \in Seq(Seq(Unit))
      /\ AllSound(writes) /\ AllSound(finished) /\ Waiting(writes)
  BY DEF Typed, Sounds
<1>6. /\ Outdated(writes) \in Seq(Piece) /\ Outdated(finished) \in Seq(Piece)
      /\ AllSound(Outdated(writes)) /\ Waiting(Outdated(writes))
      /\ AllSound(Outdated(finished))
  BY <1>5, OutdatedSound
<1> HIDE DEF v
<1>7. /\ AllSound(Append(Outdated(writes), v)) /\ Waiting(Append(Outdated(writes), v))
      /\ Append(Outdated(writes), v) \in Seq(Piece)
  <2>1. PICK o \in Seq(Piece) : o = Outdated(writes)
    BY <1>6
  <2>2. v.done <= Len(v.text) /\ AllSound(o) /\ Waiting(o)
    BY <1>2, <1>6, <2>1 DEF Sound
  <2>3. AllSound(Append(o, v)) /\ Waiting(Append(o, v)) /\ Append(o, v) \in Seq(Piece)
    BY <1>1, <2>2, QueueAppend, AppendProperties
  <2>4. QED  BY <2>1, <2>3
<1>8. Sounds'
  BY <1>4, <1>6, <1>7 DEF Sounds
<1>9. Answered' = Answered \o r
  <2>1. FlattenSeq(Append(replies, r)) = FlattenSeq(replies) \o r
    BY <1>5, FlattenAppend
  <2>2. QED  BY <1>4, <2>1 DEF Answered
<1>10. Append(replies, r) \in Seq(Seq(Unit))
  BY <1>5, AppendProperties
<1>11. QED  BY <1>1, <1>2, <1>3, <1>4, <1>6, <1>7, <1>8, <1>9, <1>10 DEF v

LEMMA TransmitIs ==
  ASSUME Typed, Transmit
  PROVE  \E w \in Piece, v \in Piece :
            /\ writes # <<>> /\ w = Head(writes) /\ Sound(w)
            /\ writes' = Tail(writes) /\ finished' = Append(finished, v)
            /\ Sound(v) /\ Sounds' /\ writes' \in Seq(Piece) /\ finished' \in Seq(Piece)
            /\ \/ /\ link[client] = "open"
                  /\ \E n \in 1 .. Rem(w), p \in Seq(Unit \cup {Junk}) :
                        /\ Len(p) = n
                        /\ \A j \in 1 .. n : /\ w.done + j \in 1 .. Len(w.text)
                                             /\ p[j] \in Memory(w, w.done + j)
                        /\ v = [w EXCEPT !.done = @ + n]
                        /\ Rem(w) = Rem(v) + n
                        /\ toClient' = toClient \o p
                        /\ toClient' \in Seq(Unit \cup {Junk})
               \/ link[client] = "closed" /\ UNCHANGED toClient
<1>1. /\ writes \in Seq(Piece) /\ finished \in Seq(Piece) /\ toClient \in Seq(Unit \cup {Junk})
      /\ AllSound(writes) /\ AllSound(finished) /\ Waiting(writes)
      /\ m_WriteMessage \in Seq(Unit) /\ MaxBytes \in Nat
  BY StreamAssumption DEF Typed, Sounds
<1>2. writes # <<>>
  BY DEF Transmit
<1>3. PICK w \in Piece : w = Head(writes)
  BY <1>1, <1>2, QueueTail
<1>4. /\ Sound(w) /\ w.done < Len(w.text) /\ Tail(writes) \in Seq(Piece)
      /\ AllSound(Tail(writes)) /\ Waiting(Tail(writes))
  BY <1>1, <1>2, <1>3, QueueTail DEF Sound
<1>5. /\ w.text \in Seq(Unit) /\ w.done \in Nat /\ Len(w.text) \in Nat /\ w.live \in BOOLEAN
  BY LenProperties DEF Piece
<1>6. writes' = Tail(writes)
  BY DEF Transmit
<1>7. ASSUME NEW v \in Piece, Sound(v), finished' = Append(finished, v)
      PROVE  Sounds' /\ finished' \in Seq(Piece)
  <2>1. AllSound(Append(finished, v)) /\ Append(finished, v) \in Seq(Piece)
    BY <1>1, <1>7, QueueAppend, AppendProperties DEF Sound
  <2>2. QED  BY <1>4, <1>6, <1>7, <2>1 DEF Sounds
<1>8. CASE /\ link[client] = "open"
           /\ \E n \in 1 .. Len(w.text) - w.done :
                 /\ finished' = Append(finished, [w EXCEPT !.done = @ + n])
                 /\ \E piece \in [1 .. n -> -2 .. MaxBytes] :
                       /\ \A j \in 1 .. n : piece[j] \in Memory(w, w.done + j)
                       /\ toClient' = toClient \o piece
  <2>0. PICK n \in 1 .. Len(w.text) - w.done :
           /\ finished' = Append(finished, [w EXCEPT !.done = @ + n])
           /\ \E piece \in [1 .. n -> -2 .. MaxBytes] :
                 /\ \A j \in 1 .. n : piece[j] \in Memory(w, w.done + j)
                 /\ toClient' = toClient \o piece
    BY <1>8
  <2>1. PICK p \in [1 .. n -> -2 .. MaxBytes] :
           /\ finished' = Append(finished, [w EXCEPT !.done = @ + n])
           /\ \A j \in 1 .. n : p[j] \in Memory(w, w.done + j)
           /\ toClient' = toClient \o p
    BY <2>0
  <2>2. n \in Nat /\ \A j \in 1 .. n : w.done + j \in 1 .. Len(w.text)
    BY <1>5
  <2>3. PICK v : v = [w EXCEPT !.done = @ + n]
    OBVIOUS
  <2>4. v \in Piece /\ v.text = w.text /\ v.done = w.done + n
    BY <1>5, <2>2, <2>3 DEF Piece
  <2>5. w.done + n <= Len(w.text) /\ Len(w.text) - w.done = (Len(w.text) - (w.done + n)) + n
    BY <1>5, <2>2
  <2>6. Sound(v) /\ Rem(w) = Rem(v) + n
    BY <2>4, <2>5 DEF Sound, Rem
  <2>7. \A j \in 1 .. n : p[j] \in Unit \cup {Junk}
    <3> TAKE j \in 1 .. n
    <3>1. p[j] \in Memory(w, w.done + j)
      BY <2>1
    <3>2. w.text[w.done + j] \in Unit
      BY <1>5, <2>2, ElementOfSeq
    <3>3. \A i \in DOMAIN m_WriteMessage : m_WriteMessage[i] \in Unit
      BY <1>1, LenProperties, ElementOfSeq
    <3>4. QED  BY <3>1, <3>2, <3>3 DEF Memory
  <2>8. p \in [1 .. n -> Unit \cup {Junk}]
    BY <2>7
  <2>9. p \in Seq(Unit \cup {Junk})
    BY <2>2, <2>8, SeqDef
  <2>10. Len(p) = n
    BY <2>2, <2>8, <2>9, LenProperties
  <2>11. toClient \o p \in Seq(Unit \cup {Junk})
    BY <1>1, <2>9, ConcatProperties
  <2>12. n \in 1 .. Rem(w)
    BY <2>1 DEF Rem
  <2>13. Sounds' /\ finished' \in Seq(Piece) /\ finished' = Append(finished, v)
    BY <1>7, <2>1, <2>3, <2>4, <2>6
  <2>14. QED  BY <1>2, <1>3, <1>4, <1>6, <1>8, <2>1, <2>2, <2>3, <2>4, <2>6, <2>9, <2>10,
                 <2>11, <2>12, <2>13
<1>9. CASE /\ link[client] = "closed"
           /\ finished' = Append(finished, [w EXCEPT !.done = Len(w.text)])
           /\ UNCHANGED toClient
  <2>1. PICK v : v = [w EXCEPT !.done = Len(w.text)]
    OBVIOUS
  <2>2. v \in Piece /\ v.text = w.text /\ v.done = Len(w.text)
    BY <1>5, <2>1 DEF Piece
  <2>3. Sound(v)
    BY <1>5, <2>2 DEF Sound
  <2>4. Sounds' /\ finished' \in Seq(Piece) /\ finished' = Append(finished, v)
    BY <1>7, <1>9, <2>1, <2>2, <2>3
  <2>5. QED  BY <1>2, <1>3, <1>4, <1>6, <1>9, <2>2, <2>3, <2>4
<1>10. QED  BY <1>3, <1>8, <1>9 DEF Transmit

LEMMA HandleWriteIs ==
  ASSUME Typed, HandleWrite
  PROVE  \E w \in Piece :
            /\ finished # <<>> /\ w = Head(finished) /\ Sound(w)
            /\ finished' = Tail(finished)
            /\ \/ w.done < Len(w.text) /\ writes' = Append(writes, w)
               \/ w.done = Len(w.text) /\ writes' = writes
            /\ Sounds' /\ writes' \in Seq(Piece) /\ finished' \in Seq(Piece)
<1>1. /\ writes \in Seq(Piece) /\ finished \in Seq(Piece)
      /\ AllSound(writes) /\ AllSound(finished) /\ Waiting(writes)
  BY DEF Typed, Sounds
<1>2. finished # <<>> /\ finished' = Tail(finished)
  BY DEF HandleWrite
<1>3. PICK w \in Piece : w = Head(finished)
  BY <1>1, <1>2, QueueTail
<1>4. Sound(w) /\ Tail(finished) \in Seq(Piece) /\ AllSound(Tail(finished))
  BY <1>1, <1>2, <1>3, QueueTail DEF Sound
<1>5. writes' = IF w.done < Len(w.text) THEN Append(writes, w) ELSE writes
  BY <1>3 DEF HandleWrite
<1>6. w.done \in Nat /\ Len(w.text) \in Nat /\ w.done <= Len(w.text)
  BY <1>4, LenProperties DEF Sound, Piece
<1>7. CASE w.done < Len(w.text)
  <2>1. Append(writes, w) \in Seq(Piece) /\ AllSound(Append(writes, w)) /\ Waiting(Append(writes, w))
    BY <1>1, <1>6, <1>7, QueueAppend, AppendProperties
  <2>2. Sounds' /\ writes' \in Seq(Piece) /\ finished' \in Seq(Piece)
    BY <1>2, <1>4, <1>5, <1>7, <2>1 DEF Sounds
  <2>3. QED  BY <1>2, <1>3, <1>4, <1>5, <1>7, <2>2
<1>8. CASE ~(w.done < Len(w.text))
  <2>1. w.done = Len(w.text) /\ writes' = writes
    BY <1>5, <1>6, <1>8
  <2>2. Sounds' /\ writes' \in Seq(Piece) /\ finished' \in Seq(Piece)
    BY <1>1, <1>2, <1>4, <2>1 DEF Sounds
  <2>3. QED  BY <1>2, <1>3, <1>4, <2>1, <2>2
<1>9. QED  BY <1>7, <1>8

-----------------------------------------------------------------------------
(* The types, action by action.                                            *)
LEMMA TypeStep == Typed /\ [Next]_vars => Typed'
<1> SUFFICES ASSUME Typed, [Next]_vars
             PROVE  Typed'
  OBVIOUS
<1> USE DEF writeVars, ioVars, netVars
<1>1. ASSUME UNCHANGED <<writes, finished>>
      PROVE  Sounds' /\ writes' \in Seq(Piece) /\ finished' \in Seq(Piece)
  BY <1>1 DEF Typed, Sounds
<1>2. CASE HandleAccept
  <2>1. backlog # <<>> => Head(backlog) \in Clients /\ Tail(backlog) \in Seq(Clients)
    BY HeadTailProperties DEF Typed
  <2>2. [i \in 1 .. BufferSize |-> NUL] \in [1 .. BufferSize -> Unit]
    BY DEF Unit
  <2>3. UNCHANGED <<main, link, sent, writeVars, taken, toClient>>
    BY <1>2 DEF HandleAccept
  <2>4. /\ accepting' \in BOOLEAN /\ reading' \in BOOLEAN
        /\ client' \in Clients \cup {None} /\ backlog' \in Seq(Clients)
        /\ m_ReceiveBuffer' \in [1 .. BufferSize -> Unit]
    BY <1>2, <2>1, <2>2 DEF HandleAccept, Typed
  <2>5. QED  BY <1>1, <2>3, <2>4 DEF Typed
<1>3. CASE HandleReceive
  <2>1. PICK n \in 1 .. BufferSize, text \in Seq(Unit) :
            /\ taken + n <= sent /\ taken' = taken + n
            /\ m_ReceiveBuffer' \in [1 .. BufferSize -> Unit]
            /\ \/ Len(text) <= MaxText /\ Write(<<RE>> \o text) /\ UNCHANGED main
               \/ main' = "aborted" /\ UNCHANGED writeVars
            /\ UNCHANGED <<reading, accepting, client, netVars, toClient>>
    BY <1>3, ReceiveIs
  <2>2. taken' \in 0 .. sent'
    BY <2>1, BufferAssumption DEF Typed
  <2>3. CASE Len(text) <= MaxText /\ Write(<<RE>> \o text) /\ UNCHANGED main
    <3>1. PICK r : r = <<RE>> \o text
      OBVIOUS
    <3>2. r \in Seq(Unit) /\ Len(r) = Len(text) + 1 /\ Len(text) \in Nat
      BY <3>1, ReplyIs
    <3>3. Len(r) \in Nat \ {0} /\ Len(r) <= MaxText + 1
      BY <2>3, <3>2, BufferAssumption
    <3>4. /\ m_WriteMessage' = r
          /\ overwritten' = (overwritten \/ \E w \in Pieces : w.done < Len(w.text))
          /\ writes' \in Seq(Piece) /\ finished' \in Seq(Piece)
          /\ Sounds' /\ replies' \in Seq(Seq(Unit))
      BY <2>3, <3>1, <3>2, <3>3, WriteIs
    <3>5. overwritten' \in BOOLEAN
      BY <3>4
    <3>6. m_WriteMessage' \in Seq(Unit) /\ Len(m_WriteMessage') <= MaxText + 1
      BY <3>2, <3>3, <3>4
    <3>7. QED  BY <2>1, <2>2, <2>3, <3>4, <3>5, <3>6 DEF Typed
  <2>4. CASE main' = "aborted" /\ UNCHANGED writeVars
    BY <1>1, <2>1, <2>2, <2>4 DEF Typed
  <2>5. QED  BY <2>1, <2>3, <2>4
<1>4. CASE HandleReceiveError
  BY <1>1, <1>4 DEF HandleReceiveError, Typed
<1>5. CASE HandleWrite
  <2>1. Sounds' /\ writes' \in Seq(Piece) /\ finished' \in Seq(Piece)
    BY <1>5, HandleWriteIs
  <2>2. UNCHANGED <<ioVars, m_WriteMessage, replies, overwritten, netVars, taken, toClient>>
    BY <1>5 DEF HandleWrite
  <2>3. QED  BY <2>1, <2>2 DEF Typed
<1>6. CASE RunReturns
  BY <1>1, <1>6 DEF RunReturns, Typed
<1>7. CASE Transmit
  <2>1. Sounds' /\ writes' \in Seq(Piece) /\ finished' \in Seq(Piece)
    BY <1>7, TransmitIs
  <2>2. toClient' \in Seq(Unit \cup {Junk})
    <3>1. toClient' \in Seq(Unit \cup {Junk}) \/ UNCHANGED toClient
      BY <1>7, TransmitIs
    <3>2. QED  BY <3>1 DEF Typed
  <2>3. UNCHANGED <<ioVars, m_WriteMessage, replies, overwritten, netVars, taken>>
    BY <1>7 DEF Transmit
  <2>4. QED  BY <2>1, <2>2, <2>3 DEF Typed
<1>8. ASSUME NEW c \in Clients, ClientConnect(c)
      PROVE  Typed'
  <2>1. Append(backlog, c) \in Seq(Clients)
    BY AppendProperties DEF Typed
  <2>2. QED  BY <1>1, <1>8, <2>1 DEF ClientConnect, Typed
<1>9. ASSUME NEW c \in Clients, ClientClose(c)
      PROVE  Typed'
  BY <1>1, <1>9 DEF ClientClose, Typed
<1>10. CASE ClientSend
  <2>1. sent' \in 0 .. MaxBytes /\ taken' \in 0 .. sent'
    BY <1>10, StreamAssumption DEF ClientSend, Typed
  <2>2. UNCHANGED <<ioVars, writeVars, backlog, link, taken, toClient>>
    BY <1>10 DEF ClientSend
  <2>3. QED  BY <1>1, <2>1, <2>2 DEF Typed
<1>11. CASE UNCHANGED vars
  BY <1>1, <1>11 DEF vars, Typed
<1>12. QED  BY <1>2, <1>3, <1>4, <1>5, <1>6, <1>7, <1>8, <1>9, <1>10, <1>11 DEF Next

-----------------------------------------------------------------------------
LEMMA NotAwayStep == Typed /\ NotAway /\ [Next]_vars => NotAway'
<1> SUFFICES ASSUME Typed, NotAway, [Next]_vars
             PROVE  NotAway'
  OBVIOUS
<1> USE DEF writeVars, ioVars, netVars
<1>0. backlog \in Seq(Clients) /\ client \in Clients \cup {None}
      /\ link \in [Clients -> {"away", "open", "closed"}]
  BY DEF Typed
<1>1. ASSUME UNCHANGED <<client, backlog, link>>
      PROVE  NotAway'
  BY <1>1 DEF NotAway
<1>2. CASE HandleAccept
  <2>1. CASE backlog # <<>> /\ client' = Head(backlog) /\ backlog' = Tail(backlog)
    <3>1. Range(backlog) = Range(Tail(backlog)) \cup {Head(backlog)}
      BY <1>0, <2>1, TailContents
    <3>2. QED  BY <1>2, <2>1, <3>1 DEF HandleAccept, NotAway
  <2>2. CASE UNCHANGED <<client, backlog>>
    BY <1>1, <1>2, <2>2 DEF HandleAccept
  <2>3. QED  BY <1>2, <2>1, <2>2 DEF HandleAccept
<1>3. CASE HandleReceive
  BY <1>1, <1>3 DEF HandleReceive
<1>4. CASE HandleReceiveError
  BY <1>1, <1>4 DEF HandleReceiveError
<1>5. CASE HandleWrite
  BY <1>1, <1>5 DEF HandleWrite
<1>6. CASE RunReturns
  BY <1>1, <1>6 DEF RunReturns
<1>7. CASE Transmit
  BY <1>1, <1>7 DEF Transmit
<1>8. ASSUME NEW c \in Clients, ClientConnect(c)
      PROVE  NotAway'
  <2>1. /\ UNCHANGED client /\ link' = [link EXCEPT ![c] = "open"]
        /\ backlog' = Append(backlog, c)
    BY <1>8 DEF ClientConnect
  <2>2. Range(backlog') = Range(backlog) \cup {c} /\ Range(backlog) \subseteq Clients
    BY <1>0, <2>1, AppendContents, RangeType
  <2>3. \A d \in Clients : link[d] # "away" \/ d = c => link'[d] # "away"
    BY <1>0, <2>1
  <2>4. QED  BY <1>0, <2>1, <2>2, <2>3 DEF NotAway
<1>9. ASSUME NEW c \in Clients, ClientClose(c)
      PROVE  NotAway'
  <2>1. UNCHANGED <<client, backlog>> /\ link' = [link EXCEPT ![c] = "closed"]
    BY <1>9 DEF ClientClose
  <2>2. \A d \in Clients : link[d] # "away" => link'[d] # "away"
    BY <1>0, <2>1
  <2>3. Range(backlog) \subseteq Clients
    BY <1>0, RangeType
  <2>4. QED  BY <1>0, <2>1, <2>2, <2>3 DEF NotAway
<1>10. CASE ClientSend
  BY <1>1, <1>10 DEF ClientSend
<1>11. CASE UNCHANGED vars
  BY <1>1, <1>11 DEF vars
<1>12. QED  BY <1>2, <1>3, <1>4, <1>5, <1>6, <1>7, <1>8, <1>9, <1>10, <1>11 DEF Next

LEMMA UnusedStep == Typed /\ Unused /\ [Next]_vars => Unused'
<1> SUFFICES ASSUME Typed, Unused, [Next]_vars
             PROVE  Unused'
  OBVIOUS
<1> USE DEF writeVars, ioVars, netVars
<1>1. ASSUME UNCHANGED <<accepting, client, reading, writes, finished, replies, toClient>>
      PROVE  Unused'
  BY <1>1 DEF Unused
<1>2. ASSUME UNCHANGED <<accepting, client, reading>>, client # None
      PROVE  Unused'
  BY <1>2 DEF Unused
<1>3. CASE HandleAccept
  <2>1. backlog # <<>> => Head(backlog) \in Clients
    BY HeadTailProperties DEF Typed
  <2>2. UNCHANGED writeVars /\ UNCHANGED toClient /\ accepting' = FALSE
    BY <1>3 DEF HandleAccept
  <2>3. CASE backlog # <<>> /\ client' = Head(backlog)
    <3>1. client' # None
      BY <2>1, <2>3, NoneAssumption
    <3>2. QED  BY <2>2, <3>1 DEF Unused
  <2>4. CASE UNCHANGED <<client, reading>>
    BY <2>2, <2>4 DEF Unused
  <2>5. QED  BY <1>3, <2>3, <2>4 DEF HandleAccept
<1>4. CASE HandleReceive
  BY <1>2, <1>4 DEF HandleReceive, Unused
<1>5. CASE HandleReceiveError
  BY <1>5 DEF HandleReceiveError, Unused
<1>6. CASE HandleWrite
  BY <1>2, <1>6 DEF HandleWrite, Unused
<1>7. CASE RunReturns
  BY <1>1, <1>7 DEF RunReturns
<1>8. CASE Transmit
  BY <1>2, <1>8 DEF Transmit, Unused
<1>9. ASSUME NEW c \in Clients, ClientConnect(c)
      PROVE  Unused'
  BY <1>1, <1>9 DEF ClientConnect
<1>10. ASSUME NEW c \in Clients, ClientClose(c)
      PROVE  Unused'
  BY <1>1, <1>10 DEF ClientClose
<1>11. CASE ClientSend
  BY <1>1, <1>11 DEF ClientSend
<1>12. CASE UNCHANGED vars
  BY <1>1, <1>12 DEF vars
<1>13. QED  BY <1>3, <1>4, <1>5, <1>6, <1>7, <1>8, <1>9, <1>10, <1>11, <1>12 DEF Next

-----------------------------------------------------------------------------
(* Replies are of later and later bytes.                                   *)
LEMMA FreshStep == Typed /\ Fresh /\ [Next]_vars => Fresh'
<1> SUFFICES ASSUME Typed, Fresh, [Next]_vars
             PROVE  Fresh'
  OBVIOUS
<1> USE DEF writeVars, ioVars, netVars
<1>1. ASSUME UNCHANGED <<replies, taken>>
      PROVE  Fresh'
  BY <1>1 DEF Fresh, RepliesAreFresh
<1>2. CASE HandleReceive
  <2>1. PICK n \in 1 .. BufferSize, text \in Seq(Unit) :
            /\ taken' = taken + n
            /\ \A j \in 1 .. Len(text) : text[j] = taken + j
            /\ Len(text) <= n
            /\ Write(<<RE>> \o text) \/ UNCHANGED writeVars
    BY <1>2, ReceiveIs
  <2>2. taken \in Nat /\ n \in Nat /\ replies \in Seq(Seq(Unit)) /\ Len(text) \in Nat
    BY BufferAssumption, LenProperties DEF Typed
  <2>3. \A x \in 1 .. taken : x \in 1 .. taken'
    BY <2>1, <2>2
  <2>4. CASE UNCHANGED writeVars
    BY <2>3, <2>4 DEF Fresh, RepliesAreFresh
  <2>5. CASE Write(<<RE>> \o text)
    <3>1. PICK r : r = <<RE>> \o text
      OBVIOUS
    <3>2. /\ r \in Seq(Unit) /\ Len(r) = Len(text) + 1
          /\ \A j \in 2 .. Len(r) : j - 1 \in 1 .. Len(text) /\ r[j] = text[j - 1]
      BY <3>1, ReplyIs
    <3>3. replies' = Append(replies, r)
      BY <2>5, <3>1 DEF Write
    <3>4. \A j \in 2 .. Len(r) : r[j] = taken + (j - 1) /\ r[j] \in taken + 1 .. taken'
      <4> TAKE j \in 2 .. Len(r)
      <4>1. r[j] = text[j - 1] /\ j - 1 \in 1 .. Len(text)
        BY <3>2
      <4>2. text[j - 1] = taken + (j - 1)
        BY <2>1, <4>1
      <4>3. taken + (j - 1) \in taken + 1 .. taken'
        BY <2>1, <2>2, <4>1
      <4>4. QED  BY <4>1, <4>2, <4>3
    <3>5. \A j \in 3 .. Len(r) : r[j] = r[j - 1] + 1
      <4> TAKE j \in 3 .. Len(r)
      <4>1. j \in 2 .. Len(r) /\ j - 1 \in 2 .. Len(r)
        BY <2>2, <3>2
      <4>2. r[j] = taken + (j - 1) /\ r[j - 1] = taken + ((j - 1) - 1)
        BY <3>4, <4>1
      <4>3. QED  BY <2>2, <4>1, <4>2
    <3> DEFINE m == Len(replies)
               a == replies'
    <3>6. /\ m \in Nat /\ DOMAIN replies = 1 .. m /\ DOMAIN a = 1 .. m + 1
          /\ \A i \in 1 .. m : a[i] = replies[i]
          /\ a[m + 1] = r
      BY <2>2, <3>2, <3>3, AppendProperties, LenProperties
    <3>7. /\ \A i \in 1 .. m : \A j \in 3 .. Len(replies[i]) :
                replies[i][j] = replies[i][j - 1] + 1
          /\ \A i \in 1 .. m : \A k \in 1 .. i - 1 : \A b \in 2 .. Len(replies[k]) :
                \A d \in 2 .. Len(replies[i]) : replies[k][b] < replies[i][d]
          /\ \A i \in 1 .. m : \A j \in 2 .. Len(replies[i]) : replies[i][j] \in 1 .. taken
      BY <3>6 DEF Fresh, RepliesAreFresh
    <3> HIDE DEF m, a
    <3>8. \A i \in 1 .. m + 1 : (i \in 1 .. m /\ a[i] = replies[i]) \/ (i = m + 1 /\ a[i] = r)
      BY <3>6
    <3>9. \A i \in 1 .. m + 1 : \A j \in 3 .. Len(a[i]) : a[i][j] = a[i][j - 1] + 1
      BY <3>5, <3>7, <3>8
    <3>10. \A i \in 1 .. m + 1 : \A j \in 2 .. Len(a[i]) : a[i][j] \in 1 .. taken'
      <4> TAKE i \in 1 .. m + 1
      <4>1. CASE a[i] = replies[i] /\ i \in 1 .. m
        BY <2>3, <3>7, <4>1
      <4>2. CASE a[i] = r
        <5>1. \A x \in taken + 1 .. taken' : x \in 1 .. taken'
          BY <2>1, <2>2
        <5>2. QED  BY <3>4, <4>2, <5>1
      <4>3. QED  BY <3>8, <4>1, <4>2
    <3>11. \A i \in 1 .. m + 1 : \A k \in 1 .. i - 1 : \A b \in 2 .. Len(a[k]) :
              \A d \in 2 .. Len(a[i]) : a[k][b] < a[i][d]
      <4> TAKE i \in 1 .. m + 1
      <4> TAKE k \in 1 .. i - 1
      <4> TAKE b \in 2 .. Len(a[k])
      <4> TAKE d \in 2 .. Len(a[i])
      <4>1. k \in 1 .. m /\ a[k] = replies[k]
        BY <3>6
      <4>2. CASE i \in 1 .. m /\ a[i] = replies[i]
        BY <3>7, <4>1, <4>2
      <4>3. CASE a[i] = r
        <5>1. a[k][b] \in 1 .. taken
          BY <3>7, <4>1
        <5>2. a[i][d] \in taken + 1 .. taken'
          BY <3>4, <4>3
        <5>3. taken \in Nat /\ taken' \in Nat
          BY <2>1, <2>2
        <5>4. \A x \in 1 .. taken : \A y \in taken + 1 .. taken' : x < y
          BY <5>3
        <5>5. QED  BY <5>1, <5>2, <5>4
      <4>4. QED  BY <3>8, <4>2, <4>3
    <3>12. QED  BY <3>6, <3>9, <3>10, <3>11 DEF Fresh, RepliesAreFresh, a
  <2>6. QED  BY <2>1, <2>4, <2>5
<1>3. CASE HandleAccept
  BY <1>1, <1>3 DEF HandleAccept
<1>4. CASE HandleReceiveError
  BY <1>1, <1>4 DEF HandleReceiveError
<1>5. CASE HandleWrite
  BY <1>1, <1>5 DEF HandleWrite
<1>6. CASE RunReturns
  BY <1>1, <1>6 DEF RunReturns
<1>7. CASE Transmit
  BY <1>1, <1>7 DEF Transmit
<1>8. ASSUME NEW c \in Clients, ClientConnect(c) \/ ClientClose(c)
      PROVE  Fresh'
  BY <1>1, <1>8 DEF ClientConnect, ClientClose
<1>9. CASE ClientSend
  BY <1>1, <1>9 DEF ClientSend
<1>10. CASE UNCHANGED vars
  BY <1>1, <1>10 DEF vars
<1>11. QED  BY <1>2, <1>3, <1>4, <1>5, <1>6, <1>7, <1>8, <1>9, <1>10 DEF Next

-----------------------------------------------------------------------------
(* Steps that send, receive and reply to nothing, to the client there was. *)
LEMMA QuietStep ==
  ASSUME Typed, Count, Exact, UNCHANGED <<writeVars, toClient>>, Open' => Open
  PROVE  Count' /\ Exact'
<1>1. UNCHANGED <<writes, finished, replies, overwritten, toClient>>
  BY DEF writeVars
<1>2. Answered' = Answered
  BY <1>1 DEF Answered
<1>3. Count'
  BY <1>1, <1>2 DEF Count
<1>4. \A w : Lacks(w)' = Lacks(w)
  BY <1>1, <1>2 DEF Lacks
<1>5. Exact'
  BY <1>1, <1>2, <1>4 DEF Exact, AllSent, Posted, Underway
<1>6. QED  BY <1>3, <1>5

LEMMA AcceptStep ==
  ASSUME IInv, HandleAccept
  PROVE  Count' /\ Exact'
<1>1. UNCHANGED <<writeVars, toClient, link>> /\ accepting
  BY DEF HandleAccept
<1>2. /\ writes = <<>> /\ finished = <<>> /\ replies = <<>> /\ toClient = <<>>
  BY <1>1 DEF IInv, Unused
<1>3. Answered = <<>>
  <2>1. Len(<<>>) = 0
    OBVIOUS
  <2>2. QED  BY <1>2, <2>1, FlattenIs DEF Answered
<1>4. UNCHANGED <<writes, finished, replies, toClient>>
  BY <1>1 DEF writeVars
<1>5. Answered' = Answered
  BY <1>4 DEF Answered
<1>6. Count'
  <2>1. 0 \in Nat /\ Len(<<>>) + 0 + 0 = Len(<<>>)
    OBVIOUS
  <2>2. QED  BY <1>2, <1>3, <1>4, <1>5, <2>1, LeftEmpty DEF Count
<1>7. Exact'
  <2>1. DOMAIN <<>> = {}
    OBVIOUS
  <2>2. AllSent'
    BY <1>2, <1>3, <1>4, <1>5, <2>1 DEF AllSent, AllDone
  <2>3. QED  BY <2>2 DEF Exact
<1>8. QED  BY <1>6, <1>7

(* A reply written.                                                        *)
LEMMA WriteStep ==
  ASSUME IInv, NEW r \in Seq(Unit), Len(r) \in Nat \ {0}, Write(r),
         UNCHANGED <<client, link, toClient>>
  PROVE  Count' /\ Exact'
<1>1. PICK v \in Piece : v = NewPiece(r)
  BY WriteIs DEF IInv
<1>2. /\ Sound(v) /\ Rem(v) = Len(r) /\ RestOf(v) = r
      /\ writes' = Append(Outdated(writes), v)
      /\ finished' = Outdated(finished)
      /\ overwritten' = (overwritten \/ \E w \in Pieces : w.done < Len(w.text))
      /\ Answered' = Answered \o r
  BY <1>1, WriteIs DEF IInv
<1>3. /\ writes \in Seq(Piece) /\ finished \in Seq(Piece)
      /\ AllSound(finished) /\ Waiting(writes) /\ toClient \in Seq(Unit \cup {Junk})
  BY DEF IInv, Typed, Sounds
<1>4. Answered \in Seq(Unit) /\ Len(Answered) \in Nat
  BY AnsweredType DEF IInv
<1>5. Open' = Open
  BY DEF Open
<1>6. Len(Answered') = Len(Answered) + Len(r)
  BY <1>2, <1>4, ConcatProperties
<1>7. PICK o \in Seq(Piece), f \in Seq(Piece) : o = Outdated(writes) /\ f = Outdated(finished)
  BY <1>3, OutdatedIs
<1>8. Count'
  <2> SUFFICES ASSUME Open'
               PROVE  \E k, l \in Nat : /\ LeftIs(writes', k) /\ LeftIs(finished', l)
                                        /\ Len(toClient') + k + l = Len(Answered')
    BY DEF Count
  <2>1. PICK k \in Nat, l \in Nat : /\ LeftIs(writes, k) /\ LeftIs(finished, l)
                                    /\ Len(toClient) + k + l = Len(Answered)
    BY <1>5 DEF IInv, Count
  <2>2. LeftIs(o, k) /\ LeftIs(f, l)
    BY <1>3, <1>7, <2>1, OutdatedIs
  <2>3. LeftIs(Append(o, v), k + Rem(v))
    BY <1>2, <2>2, LeftAppend
  <2>4. Len(toClient) \in Nat
    BY <1>3, LenProperties
  <2>5. k + Len(r) \in Nat /\ Len(toClient) + (k + Len(r)) + l = Len(Answered) + Len(r)
    BY <2>1, <2>4
  <2>6. LeftIs(writes', k + Len(r)) /\ LeftIs(finished', l)
    BY <1>2, <1>7, <2>2, <2>3
  <2>7. QED  BY <1>6, <2>5, <2>6
<1>9. Exact'
  <2> SUFFICES ASSUME Open', ~overwritten'
               PROVE  Posted'
    BY DEF Exact
  <2>1. Open /\ ~overwritten /\ \A w \in Pieces : ~(w.done < Len(w.text))
    BY <1>2, <1>5
  <2>2. Pieces = Range(writes) \cup Range(finished)
    BY <1>3, PiecesAre
  <2>3. writes = <<>>
    <3>1. writes # <<>> => 1 \in DOMAIN writes
      BY <1>3, EmptySeq, LenProperties
    <3>2. 1 \in DOMAIN writes => writes[1] \in Pieces /\ writes[1].done < Len(writes[1].text)
      BY <1>3, <2>2 DEF Waiting, Range
    <3>3. QED  BY <2>1, <3>1, <3>2
  <2>4. AllDone(finished)
    <3> SUFFICES ASSUME NEW i \in DOMAIN finished
                 PROVE  finished[i].done = Len(finished[i].text)
      BY DEF AllDone
    <3>1. finished[i] \in Pieces /\ finished[i].done <= Len(finished[i].text)
      BY <1>3, <2>2 DEF AllSound, Range
    <3>2. finished[i] \in Piece
      BY <1>3, LenProperties, ElementOfSeq
    <3>3. finished[i].done \in Nat /\ Len(finished[i].text) \in Nat
      BY <3>2, LenProperties DEF Piece
    <3>4. ~(finished[i].done < Len(finished[i].text))
      BY <2>1, <3>1
    <3>5. QED  BY <3>1, <3>3, <3>4
  <2>5. toClient = Answered
    <3>1. CASE AllSent
      BY <3>1 DEF AllSent
    <3>2. CASE Posted
      BY <2>3, <3>2 DEF Posted
    <3>3. CASE Underway
      <4>1. PICK q \in Seq(Piece), w \in Piece :
               finished = Append(q, w) /\ AllDone(q) /\ Lacks(w)
        BY <3>3 DEF Underway
      <4>2. w.done = Len(w.text)
        BY <2>4, <4>1, QueueAppend
      <4>3. RestOf(w) = <<>>
        BY <4>1, <4>2, RestFacts DEF Lacks
      <4>4. toClient \o <<>> = toClient
        BY <1>3, ConcatEmptySeq
      <4>5. QED  BY <4>1, <4>3, <4>4 DEF Lacks
    <3>4. QED  BY <2>1, <3>1, <3>2, <3>3 DEF IInv, Exact
  <2>6. writes' = <<v>>
    <3>1. Outdated(writes) = <<>>
      BY <1>3, <2>3, OutdatedIs
    <3>2. Append(<<>>, v) = <<v>>
      BY Singleton
    <3>3. QED  BY <1>2, <3>1, <3>2
  <2>7. AllDone(finished')
    <3>1. /\ DOMAIN f = DOMAIN finished
          /\ \A i \in DOMAIN finished : /\ f[i].text = finished[i].text
                                         /\ f[i].done = finished[i].done
      BY <1>3, <1>7, OutdatedIs
    <3>2. AllDone(f)
      BY <2>4, <3>1 DEF AllDone
    <3>3. QED  BY <1>2, <1>7, <3>2
  <2>8. Lacks(v)'
    <3>1. v.live
      BY <1>1 DEF NewPiece
    <3>2. toClient' \o RestOf(v) = Answered'
      BY <1>2, <2>5
    <3>3. QED  BY <1>2, <3>1, <3>2 DEF Lacks
  <2>9. QED  BY <2>6, <2>7, <2>8 DEF Posted
<1>10. QED  BY <1>8, <1>9

(* A piece's handler run.                                                  *)
LEMMA HandleWriteStep ==
  ASSUME IInv, HandleWrite
  PROVE  Count' /\ Exact'
<1>1. PICK w \in Piece :
            /\ finished # <<>> /\ w = Head(finished) /\ Sound(w)
            /\ finished' = Tail(finished)
            /\ \/ w.done < Len(w.text) /\ writes' = Append(writes, w)
               \/ w.done = Len(w.text) /\ writes' = writes
  BY HandleWriteIs DEF IInv
<1>2. UNCHANGED <<client, link, toClient, replies, overwritten>>
  BY DEF HandleWrite, ioVars, netVars
<1>3. Answered' = Answered /\ Open' = Open
  BY <1>2 DEF Answered, Open
<1>4. writes \in Seq(Piece) /\ finished \in Seq(Piece) /\ toClient \in Seq(Unit \cup {Junk})
  BY DEF IInv, Typed
<1>5. w.text \in Seq(Unit) /\ w.done \in Nat /\ Len(w.text) \in Nat
  BY LenProperties DEF Piece
<1>6. Count'
  <2> SUFFICES ASSUME Open
               PROVE  \E k, l \in Nat : /\ LeftIs(writes', k) /\ LeftIs(finished', l)
                                        /\ Len(toClient') + k + l = Len(Answered')
    BY <1>3 DEF Count
  <2>1. PICK k \in Nat, l \in Nat : /\ LeftIs(writes, k) /\ LeftIs(finished, l)
                                    /\ Len(toClient) + k + l = Len(Answered)
    BY DEF IInv, Count
  <2>2. /\ Rem(w) \in Nat
        /\ \E m \in Nat : l = m + Rem(w) /\ LeftIs(Tail(finished), m)
    BY <1>1, <1>4, <2>1, LeftTail
  <2>3. PICK m \in Nat : l = m + Rem(w) /\ LeftIs(finished', m)
    BY <1>1, <2>2
  <2>4. Len(toClient) \in Nat
    BY <1>4, LenProperties
  <2>5. CASE writes' = Append(writes, w)
    <3>1. LeftIs(writes', k + Rem(w))
      BY <1>1, <1>4, <2>1, <2>5, LeftAppend
    <3>2. k + Rem(w) \in Nat /\ Len(toClient) + (k + Rem(w)) + m = Len(Answered)
      BY <2>1, <2>2, <2>3, <2>4
    <3>3. QED  BY <1>2, <1>3, <2>3, <3>1, <3>2
  <2>6. CASE w.done = Len(w.text) /\ writes' = writes
    <3>1. Rem(w) = 0
      BY <1>5, <2>6 DEF Rem
    <3>2. l = m
      BY <2>3, <3>1
    <3>3. QED  BY <1>2, <1>3, <2>1, <2>3, <2>6, <3>2
  <2>7. QED  BY <1>1, <2>5, <2>6
<1>7. Exact'
  <2> SUFFICES ASSUME Open, ~overwritten
               PROVE  AllSent' \/ Posted' \/ Underway'
    BY <1>2, <1>3 DEF Exact
  <2>1. \A x : Lacks(x)' = Lacks(x)
    BY <1>2, <1>3 DEF Lacks
  <2>2. AllDone(finished) => AllDone(finished') /\ writes' = writes
    <3>1. AllDone(finished) => AllDone(Tail(finished)) /\ w.done = Len(w.text)
      BY <1>1, <1>4, QueueTail
    <3>2. w.done = Len(w.text) => writes' = writes
      BY <1>1, <1>5
    <3>3. QED  BY <1>1, <3>1, <3>2
  <2>3. CASE AllSent
    BY <1>2, <1>3, <2>2, <2>3 DEF AllSent
  <2>4. CASE Posted
    BY <2>1, <2>2, <2>4 DEF Posted
  <2>5. CASE Underway
    <3>1. PICK q \in Seq(Piece), u \in Piece :
             writes = <<>> /\ finished = Append(q, u) /\ AllDone(q) /\ Lacks(u)
      BY <2>5 DEF Underway
    <3>2. CASE q = <<>>
      <4>1. finished' = <<>> /\ w = u
        BY <1>1, <3>1, <3>2, TailAppend
      <4>2. AllDone(finished')
        BY <4>1 DEF AllDone
      <4>3. CASE w.done < Len(w.text) /\ writes' = Append(writes, w)
        <5>1. writes' = <<u>>
          BY <3>1, <4>1, <4>3, Singleton
        <5>2. QED  BY <2>1, <3>1, <4>2, <5>1 DEF Posted
      <4>4. CASE w.done = Len(w.text) /\ writes' = writes
        <5>1. RestOf(u) = <<>>
          BY <1>1, <4>1, <4>4, RestFacts
        <5>2. toClient \o <<>> = toClient
          BY <1>4, ConcatEmptySeq
        <5>3. toClient = Answered
          BY <3>1, <5>1, <5>2 DEF Lacks
        <5>4. QED  BY <1>2, <1>3, <3>1, <4>2, <4>4, <5>3 DEF AllSent
      <4>5. QED  BY <1>1, <4>3, <4>4
    <3>3. CASE q # <<>>
      <4>1. finished' = Append(Tail(q), u) /\ w = Head(q)
        BY <1>1, <3>1, <3>3, TailAppend
      <4>2. Tail(q) \in Seq(Piece) /\ AllDone(Tail(q)) /\ w.done = Len(w.text)
        BY <3>1, <3>3, <4>1, QueueTail
      <4>3. writes' = <<>>
        BY <1>1, <1>5, <3>1, <4>2
      <4>4. Underway'
        BY <2>1, <3>1, <4>1, <4>2, <4>3 DEF Underway
      <4>5. QED  BY <4>4
    <3>4. QED  BY <3>2, <3>3
  <2>6. QED  BY <2>3, <2>4, <2>5 DEF IInv, Exact
<1>8. QED  BY <1>6, <1>7

(* Units of the first piece sent.                                          *)
LEMMA TransmitStep ==
  ASSUME IInv, Transmit
  PROVE  Count' /\ Exact'
<1>1. UNCHANGED <<client, link, replies, overwritten>>
  BY DEF Transmit, ioVars, netVars
<1>2. Answered' = Answered /\ Open' = Open
  BY <1>1 DEF Answered, Open
<1>3. /\ writes \in Seq(Piece) /\ finished \in Seq(Piece) /\ toClient \in Seq(Unit \cup {Junk})
      /\ Len(toClient) \in Nat
  BY LenProperties DEF IInv, Typed
<1>4. CASE ~Open
  BY <1>2, <1>4 DEF Count, Exact
<1>5. CASE Open
  <2>1. link[client] = "open" /\ link[client] # "closed"
    BY <1>5 DEF Open
  <2>2. PICK w \in Piece, v \in Piece :
            /\ writes # <<>> /\ w = Head(writes) /\ Sound(w)
            /\ writes' = Tail(writes) /\ finished' = Append(finished, v)
            /\ Sound(v) /\ writes' \in Seq(Piece) /\ finished' \in Seq(Piece)
            /\ \E n \in 1 .. Rem(w), p \in Seq(Unit \cup {Junk}) :
                  /\ Len(p) = n
                  /\ \A j \in 1 .. n : /\ w.done + j \in 1 .. Len(w.text)
                                       /\ p[j] \in Memory(w, w.done + j)
                  /\ v = [w EXCEPT !.done = @ + n]
                  /\ Rem(w) = Rem(v) + n
                  /\ toClient' = toClient \o p
                  /\ toClient' \in Seq(Unit \cup {Junk})
    BY <2>1, TransmitIs DEF IInv
  <2>3. PICK n \in 1 .. Rem(w), p \in Seq(Unit \cup {Junk}) :
            /\ Len(p) = n
            /\ \A j \in 1 .. n : /\ w.done + j \in 1 .. Len(w.text)
                                 /\ p[j] \in Memory(w, w.done + j)
            /\ v = [w EXCEPT !.done = @ + n]
            /\ Rem(w) = Rem(v) + n
            /\ toClient' = toClient \o p
            /\ toClient' \in Seq(Unit \cup {Junk})
    BY <2>2
  <2>4. Rem(w) \in Nat /\ Rem(v) \in Nat /\ n \in Nat
    BY <2>2, RemType
  <2>5. Count'
    <3>1. PICK k \in Nat, l \in Nat : /\ LeftIs(writes, k) /\ LeftIs(finished, l)
                                      /\ Len(toClient) + k + l = Len(Answered)
      BY <1>5 DEF IInv, Count
    <3>2. \E m \in Nat : k = m + Rem(w) /\ LeftIs(Tail(writes), m)
      BY <1>3, <2>2, <3>1, LeftTail
    <3>3. PICK m \in Nat : k = m + Rem(w) /\ LeftIs(writes', m)
      BY <2>2, <3>2
    <3>4. LeftIs(finished', l + Rem(v))
      BY <1>3, <2>2, <3>1, LeftAppend
    <3>5. Len(toClient') = Len(toClient) + n
      BY <1>3, <2>3, ConcatProperties
    <3>6. /\ l + Rem(v) \in Nat
          /\ (Len(toClient) + n) + m + (l + Rem(v)) = Len(Answered)
      <4> DEFINE a == Len(toClient)
                 b == Len(Answered)
                 rw == Rem(w)
                 rv == Rem(v)
      <4>1. a \in Nat /\ rw \in Nat /\ rv \in Nat /\ n \in Nat /\ rw = rv + n
        BY <1>3, <2>3, <2>4
      <4>2. a + k + l = b /\ k = m + rw
        BY <3>1, <3>3
      <4> HIDE DEF a, b, rw, rv
      <4>3. l + rv \in Nat /\ (a + n) + m + (l + rv) = b
        BY <4>1, <4>2
      <4>4. QED  BY <4>3 DEF a, b, rv
    <3>7. QED  BY <1>2, <3>3, <3>4, <3>5, <3>6 DEF Count
  <2>6. Exact'
    <3> SUFFICES ASSUME ~overwritten
                 PROVE  Underway'
      BY <1>1 DEF Exact
    <3>1. AllSent \/ Posted \/ Underway
      BY <1>5 DEF IInv, Exact
    <3>2. Posted
      BY <2>2, <3>1 DEF AllSent, Underway
    <3>3. PICK u \in Piece : writes = <<u>> /\ AllDone(finished) /\ Lacks(u)
      BY <3>2 DEF Posted
    <3>4. w = u /\ writes' = <<>>
      <4>1. Head(<<u>>) = u /\ Tail(<<u>>) = <<>>
        OBVIOUS
      <4>2. QED  BY <2>2, <3>3, <4>1
    <3>5. \A j \in 1 .. n : p[j] = w.text[w.done + j]
      BY <2>3, <3>3, <3>4 DEF Lacks, Memory
    <3>6. p \in Seq(Unit)
      <4>1. w.text \in Seq(Unit)
        BY DEF Piece
      <4>2. \A j \in 1 .. n : p[j] \in Unit
        BY <2>3, <3>5, <4>1, ElementOfSeq
      <4>3. p \in [1 .. n -> Unit]
        <5>1. p = [j \in 1 .. n |-> p[j]]
          BY <2>3, LenProperties
        <5>2. QED  BY <4>2, <5>1
      <4>4. QED  BY <2>4, <4>3, SeqDef
    <3>7. v.live = w.live /\ p \o RestOf(v) = RestOf(w)
      <4>1. /\ Sound(w) /\ Len(p) = n /\ v = [w EXCEPT !.done = @ + n]
            /\ \A i \in 1 .. n : p[i] = w.text[w.done + i]
        BY <2>2, <2>3, <3>5
      <4>2. QED  BY <3>6, <4>1, RestSplit
    <3>8. RestOf(v) \in Seq(Unit \cup {Junk})
      <4>1. RestOf(v) \in Seq(Unit)
        BY <2>2, RestFacts
      <4>2. Unit \subseteq Unit \cup {Junk}
        OBVIOUS
      <4>3. QED  BY <4>1, <4>2, SeqMonotone
    <3>9. toClient' \o RestOf(v) = Answered'
      <4> DEFINE t == RestOf(v)
      <4>1. t \in Seq(Unit \cup {Junk})
        BY <3>8
      <4> HIDE DEF t
      <4>2. (toClient \o p) \o t = toClient \o (p \o t)
        BY <1>3, <4>1, ConcatAssociative
      <4>3. p \o t = RestOf(w)
        BY <3>7 DEF t
      <4>4. toClient \o RestOf(w) = Answered
        BY <3>3, <3>4 DEF Lacks
      <4>5. QED  BY <1>2, <2>3, <4>2, <4>3, <4>4 DEF t
    <3>10. Lacks(v)'
      BY <2>2, <3>3, <3>4, <3>7, <3>9 DEF Lacks
    <3>11. QED  BY <1>3, <2>2, <3>3, <3>4, <3>10 DEF Underway
  <2>7. QED  BY <2>5, <2>6
<1>6. QED  BY <1>4, <1>5

LEMMA ContentStep == IInv /\ [Next]_vars => Count' /\ Exact'
<1> SUFFICES ASSUME IInv, [Next]_vars
             PROVE  Count' /\ Exact'
  OBVIOUS
<1> USE DEF ioVars, netVars
<1>1. ASSUME UNCHANGED <<writeVars, toClient>>, Open' => Open
      PROVE  Count' /\ Exact'
  BY <1>1, QuietStep DEF IInv
<1>2. CASE HandleAccept
  BY <1>2, AcceptStep
<1>3. CASE HandleReceive
  <2>1. PICK n \in 1 .. BufferSize, text \in Seq(Unit) :
            /\ Write(<<RE>> \o text) \/ UNCHANGED writeVars
            /\ UNCHANGED <<client, link, toClient>>
    BY <1>3, ReceiveIs DEF IInv
  <2>2. CASE UNCHANGED writeVars
    BY <1>1, <2>1, <2>2 DEF Open
  <2>3. CASE Write(<<RE>> \o text)
    <3>1. PICK r : r = <<RE>> \o text
      OBVIOUS
    <3>2. r \in Seq(Unit) /\ Len(r) = Len(text) + 1 /\ Len(text) \in Nat
      BY <3>1, ReplyIs
    <3>3. Len(r) \in Nat \ {0}
      BY <3>2
    <3>4. QED  BY <2>1, <2>3, <3>1, <3>2, <3>3, WriteStep
  <2>4. QED  BY <2>1, <2>2, <2>3
<1>4. CASE HandleReceiveError
  BY <1>1, <1>4 DEF HandleReceiveError, Open
<1>5. CASE HandleWrite
  BY <1>5, HandleWriteStep
<1>6. CASE RunReturns
  BY <1>1, <1>6 DEF RunReturns, Open
<1>7. CASE Transmit
  BY <1>7, TransmitStep
<1>8. ASSUME NEW c \in Clients, ClientConnect(c)
      PROVE  Count' /\ Exact'
  <2>1. Open' => Open
    <3>1. link \in [Clients -> {"away", "open", "closed"}] /\ client \in Clients \cup {None}
      BY DEF IInv, Typed
    <3>2. link[c] = "away" /\ link' = [link EXCEPT ![c] = "open"] /\ client' = client
      BY <1>8 DEF ClientConnect
    <3>3. client # None => client \in Clients /\ client # c
      BY <3>1, <3>2 DEF IInv, NotAway
    <3>4. QED  BY <3>1, <3>2, <3>3 DEF Open
  <2>2. QED  BY <1>1, <1>8, <2>1 DEF ClientConnect
<1>9. ASSUME NEW c \in Clients, ClientClose(c)
      PROVE  Count' /\ Exact'
  <2>1. Open' => Open
    <3>1. link \in [Clients -> {"away", "open", "closed"}] /\ client \in Clients \cup {None}
      BY DEF IInv, Typed
    <3>2. link' = [link EXCEPT ![c] = "closed"] /\ client' = client
      BY <1>9 DEF ClientClose
    <3>3. QED  BY <3>1, <3>2 DEF Open
  <2>2. QED  BY <1>1, <1>9, <2>1 DEF ClientClose
<1>10. CASE ClientSend
  BY <1>1, <1>10 DEF ClientSend, Open
<1>11. CASE UNCHANGED vars
  BY <1>1, <1>11 DEF vars, Open
<1>12. QED  BY <1>2, <1>3, <1>4, <1>5, <1>6, <1>7, <1>8, <1>9, <1>10, <1>11 DEF Next

LEMMA Step == IInv /\ [Next]_vars => IInv'
BY TypeStep, NotAwayStep, UnusedStep, FreshStep, ContentStep DEF IInv

LEMMA Invariance == Spec => []IInv
<1>1. QED  BY InitOK, Step, PTL DEF Spec

-----------------------------------------------------------------------------
(* The variables have their types, and no piece is sent beyond its end.    *)
THEOREM TypeCorrect == Spec => []TypeOK
<1>1. IInv => TypeOK
  BY TypedIsTypeOK DEF IInv
<1>2. QED  BY <1>1, Invariance, PTL

(* Each reply is of bytes of its own; until one is assigned over another   *)
(* that is being sent, the client receives them one after another; and     *)
(* always as many units as are replied.  (PostReceive's memset,            *)
(* handle_receive, async_write)                                            *)
THEOREM RepliesCorrect == Spec => []RepliesExact
<1>1. IInv => RepliesExact
  <2> SUFFICES ASSUME IInv
               PROVE  RepliesExact
    OBVIOUS
  <2>1. RepliesAreFresh
    BY DEF IInv, Fresh
  <2>2. /\ toClient \in Seq(Unit \cup {Junk}) /\ Len(toClient) \in Nat
        /\ Answered \in Seq(Unit) /\ Len(Answered) \in Nat
        /\ writes \in Seq(Piece) /\ finished \in Seq(Piece)
    BY AnsweredType, LenProperties DEF IInv, Typed
  <2>3. ASSUME NEW t \in Seq(Unit), toClient \o t = Answered
        PROVE  IsPrefix(toClient, Answered)
    <3> DEFINE a == Answered
               s == toClient
               n == Len(s)
    <3>1. t \in Seq(Unit \cup {Junk})
      <4>1. Unit \subseteq Unit \cup {Junk}
        OBVIOUS
      <4>2. QED  BY <4>1, SeqMonotone
    <3>2. /\ s \in Seq(Unit \cup {Junk}) /\ a = s \o t
      BY <2>2, <2>3
    <3> HIDE DEF s, a
    <3>3. /\ n \in Nat /\ Len(t) \in Nat
          /\ a \in Seq(Unit \cup {Junk}) /\ Len(a) = n + Len(t)
          /\ \A i \in 1 .. n + Len(t) : a[i] = IF i <= n THEN s[i] ELSE t[i - n]
      BY <3>1, <3>2, ConcatProperties, LenProperties
    <3>4. n <= Len(a) /\ \A i \in 1 .. n : i \in 1 .. n + Len(t) /\ i <= n /\ i \in 1 .. Len(a)
      BY <3>3
    <3>5. \A i \in 1 .. n : a[i] = s[i] /\ s[i] \in Unit \cup {Junk} /\ a[i] \in Unit \cup {Junk}
      BY <3>2, <3>3, <3>4, ElementOfSeq
    <3>6. 1 \in Int /\ n \in Int
      BY <3>3
    <3>7. /\ SubSeq(s, 1, n) \in Seq(Unit \cup {Junk})
          /\ Len(SubSeq(s, 1, n)) = IF 1 <= n THEN n - 1 + 1 ELSE 0
          /\ \A i \in 1 .. n - 1 + 1 : SubSeq(s, 1, n)[i] = s[1 + i - 1]
      BY <3>5, <3>6, SubSeqProperties
    <3>8. /\ SubSeq(a, 1, n) \in Seq(Unit \cup {Junk})
          /\ Len(SubSeq(a, 1, n)) = IF 1 <= n THEN n - 1 + 1 ELSE 0
          /\ \A i \in 1 .. n - 1 + 1 : SubSeq(a, 1, n)[i] = a[1 + i - 1]
      BY <3>5, <3>6, SubSeqProperties
    <3>9. /\ (IF 1 <= n THEN n - 1 + 1 ELSE 0) = n
          /\ \A i \in 1 .. n : i \in 1 .. n - 1 + 1 /\ 1 + i - 1 = i
      BY <3>3
    <3>10. \A i \in 1 .. n : SubSeq(s, 1, n)[i] = SubSeq(a, 1, n)[i]
      BY <3>5, <3>7, <3>8, <3>9
    <3>11. SubSeq(s, 1, n) = SubSeq(a, 1, n)
      BY <3>7, <3>8, <3>9, <3>10, SeqEqual
    <3>12. QED  BY <3>4, <3>11 DEF IsPrefix, s, a
  <2>4. Open /\ ~overwritten => IsPrefix(toClient, Answered)
    <3> SUFFICES ASSUME Open, ~overwritten
                 PROVE  IsPrefix(toClient, Answered)
      OBVIOUS
    <3>1. ASSUME NEW w, Lacks(w)
          PROVE  IsPrefix(toClient, Answered)
      BY <2>3, <3>1, RestFacts DEF Lacks
    <3>2. CASE AllSent
      <4>1. toClient \o <<>> = Answered /\ <<>> \in Seq(Unit)
        BY <2>2, <3>2, ConcatEmptySeq DEF AllSent
      <4>2. QED  BY <2>3, <4>1
    <3>3. QED  BY <3>1, <3>2 DEF IInv, Exact, Posted, Underway
  <2>5. Open => Len(toClient) <= Len(Answered)
    BY <2>2 DEF IInv, Count
  <2>6. Open /\ Pieces = {} => Len(toClient) = Len(Answered)
    <3> SUFFICES ASSUME Open, Pieces = {}
                 PROVE  Len(toClient) = Len(Answered)
      OBVIOUS
    <3>1. writes = <<>> /\ finished = <<>>
      BY <2>2, PiecesAre
    <3>2. PICK k \in Nat, l \in Nat : /\ LeftIs(writes, k) /\ LeftIs(finished, l)
                                      /\ Len(toClient) + k + l = Len(Answered)
      BY DEF IInv, Count
    <3>3. k = 0 /\ l = 0
      BY <3>1, <3>2, LeftEmpty
    <3>4. QED  BY <2>2, <3>2, <3>3
  <2>7. QED  BY <2>1, <2>4, <2>5, <2>6 DEF RepliesExact, Open
<1>2. QED  BY <1>1, Invariance, PTL
=============================================================================
