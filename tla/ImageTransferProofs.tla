------------------------- MODULE ImageTransferProofs -------------------------
(***************************************************************************)
(* Proofs about ImageTransfer for every buffer size, every set of image    *)
(* sizes and any number of images.                                         *)
(*                                                                         *)
(* Nothing in the byte stream says where an image starts, so the argument  *)
(* counts: the stream has positions 1, 2, ...; im is the images begun so   *)
(* far, S[i] the position of the size of image i, S[Len(im) + 1] the first *)
(* position after them all, and b what the server has read.                *)
(***************************************************************************)
EXTENDS ImageTransfer, SequenceLemmas

Item == {Size(n) : n \in Nat} \cup {Byte(i, k) : i \in Nat, k \in Nat}

Layout(im, S) ==
    /\ S \in [1 .. Len(im) + 1 -> Nat]
    /\ S[1] = 1
    /\ \A i \in 1 .. Len(im) : S[i + 1] = S[i] + 1 + im[i]
    /\ \A i \in 1 .. Len(im), j \in 1 .. Len(im) + 1 : i < j => S[i] + im[i] < S[j]

(* Position p belongs to image i, and what is at that position.            *)
Within(im, S, i, p) == S[i] <= p /\ p <= S[i] + im[i]
ItemAt(im, S, i, p) == IF p = S[i] THEN Size(im[i]) ELSE Byte(i, p - S[i])

(* w is what the client writes from position b + 1 on.                     *)
OnWire(im, S, w, b) ==
    \A k \in 1 .. Len(w) :
        \E i \in 1 .. Len(im) : Within(im, S, i, b + k) /\ w[k] = ItemAt(im, S, i, b + k)

(* d is what belongs to image i after position p.                          *)
Follows(im, S, i, d, p) ==
    \A k \in 1 .. Len(d) : Within(im, S, i, p + k) /\ d[k] = ItemAt(im, S, i, p + k)

-----------------------------------------------------------------------------
LEMMA Items ==
  /\ \A n \in Nat : /\ Size(n) \in Item
                    /\ Size(n).size = n
                    /\ "size" \in DOMAIN Size(n)
  /\ \A i, k \in Nat : /\ Byte(i, k) \in Item
                       /\ "image" \in DOMAIN Byte(i, k)
<1>1. \A n \in Nat : Size(n) \in Item
  BY DEF Item
<1>2. \A i, k \in Nat : Byte(i, k) \in Item
  BY DEF Item
<1>3. \A n \in Nat : Size(n).size = n /\ "size" \in DOMAIN Size(n)
  BY DEF Size
<1>4. \A i, k \in Nat : "image" \in DOMAIN Byte(i, k)
  BY DEF Byte
<1>5. QED  BY <1>1, <1>2, <1>3, <1>4

(* No position belongs to two images, and that of the next size to none.   *)
LEMMA OneOwner ==
  ASSUME NEW im \in Seq(Nat), NEW S, Layout(im, S), NEW p \in Nat,
         NEW i \in 1 .. Len(im), Within(im, S, i, p),
         NEW j \in 1 .. Len(im) + 1, S[j] <= p, j <= Len(im) => p <= S[j] + im[j]
  PROVE  i = j
<1>1. Len(im) \in Nat /\ \A k \in 1 .. Len(im) : im[k] \in Nat
  BY LenProperties, ElementOfSeq
<1>2. i \in 1 .. Len(im) + 1 /\ im[i] \in Nat /\ (j <= Len(im) => j \in 1 .. Len(im))
  BY <1>1
<1>3. S[i] \in Nat /\ S[j] \in Nat
  BY <1>2 DEF Layout
<1>4. ~(i < j)
  <2> SUFFICES ASSUME i < j PROVE FALSE
    OBVIOUS
  <2>1. S[i] + im[i] < S[j]
    BY DEF Layout
  <2>2. QED  BY <1>2, <1>3, <2>1 DEF Within
<1>5. ~(j < i)
  <2> SUFFICES ASSUME j < i PROVE FALSE
    OBVIOUS
  <2>1. j \in 1 .. Len(im) /\ im[j] \in Nat /\ p <= S[j] + im[j]
    BY <1>1, <1>2
  <2>2. S[j] + im[j] < S[i]
    BY <1>2, <2>1 DEF Layout
  <2>3. QED  BY <1>3, <2>1, <2>2 DEF Within
<1>6. QED  BY <1>1, <1>4, <1>5

(* What is read next when it is known whose it is.                         *)
LEMMA WhatIsRead ==
  ASSUME NEW im \in Seq(Nat), NEW S, Layout(im, S), NEW b \in Nat,
         NEW w \in Seq(Item), OnWire(im, S, w, b), NEW k \in 1 .. Len(w),
         NEW j \in 1 .. Len(im) + 1, S[j] <= b + k, j <= Len(im) => b + k <= S[j] + im[j]
  PROVE  j \in 1 .. Len(im) /\ w[k] = ItemAt(im, S, j, b + k)
<1>1. PICK i \in 1 .. Len(im) : Within(im, S, i, b + k) /\ w[k] = ItemAt(im, S, i, b + k)
  BY DEF OnWire
<1>2. b + k \in Nat
  BY LenProperties
<1>3. i = j
  BY <1>1, <1>2, OneOwner
<1>4. QED  BY <1>1, <1>3

(* Reading from the front of the stream, and writing at its end.           *)
LEMMA ReadStream ==
  ASSUME NEW im, NEW S, NEW b \in Nat, NEW w \in Seq(Item), OnWire(im, S, w, b),
         NEW n \in 0 .. Len(w)
  PROVE  /\ OnWire(im, S, Suffix(w, n), b + n)
         /\ Suffix(w, n) \in Seq(Item)
         /\ Len(Suffix(w, n)) = Len(w) - n
<1> DEFINE v == Suffix(w, n)
<1>1. /\ v \in Seq(Item) /\ Len(v) = Len(w) - n /\ Len(w) \in Nat
      /\ \A k \in 1 .. Len(w) - n : v[k] = w[n + k]
  BY SuffixFacts, LenProperties DEF Suffix
<1> HIDE DEF v
<1>2. ASSUME NEW k \in 1 .. Len(v)
      PROVE  n + k \in 1 .. Len(w) /\ b + (n + k) = (b + n) + k /\ v[k] = w[n + k]
  BY <1>1
<1>3. OnWire(im, S, v, b + n)
  BY <1>2 DEF OnWire
<1>4. QED  BY <1>1, <1>3 DEF v

LEMMA WriteStream ==
  ASSUME NEW im, NEW S, NEW b \in Nat, NEW w \in Seq(Item), OnWire(im, S, w, b),
         NEW d \in Seq(Item), NEW i \in 1 .. Len(im),
         Follows(im, S, i, d, b + Len(w))
  PROVE  /\ OnWire(im, S, w \o d, b)
         /\ w \o d \in Seq(Item)
         /\ Len(w \o d) = Len(w) + Len(d)
<1> DEFINE v == w \o d
<1>1. /\ v \in Seq(Item) /\ Len(v) = Len(w) + Len(d)
      /\ Len(w) \in Nat /\ Len(d) \in Nat
      /\ \A k \in 1 .. Len(w) + Len(d) :
            v[k] = IF k <= Len(w) THEN w[k] ELSE d[k - Len(w)]
  BY ConcatProperties, LenProperties
<1> HIDE DEF v
<1>2. ASSUME NEW k \in 1 .. Len(v)
      PROVE  \E h \in 1 .. Len(im) : Within(im, S, h, b + k) /\ v[k] = ItemAt(im, S, h, b + k)
  <2>1. CASE k <= Len(w)
    <3>1. k \in 1 .. Len(w) /\ v[k] = w[k]
      BY <1>1, <2>1
    <3>2. QED  BY <3>1 DEF OnWire
  <2>2. CASE ~(k <= Len(w))
    <3>1. /\ k - Len(w) \in 1 .. Len(d) /\ v[k] = d[k - Len(w)]
          /\ b + Len(w) + (k - Len(w)) = b + k
      BY <1>1, <2>2
    <3>2. /\ Within(im, S, i, b + Len(w) + (k - Len(w)))
          /\ d[k - Len(w)] = ItemAt(im, S, i, b + Len(w) + (k - Len(w)))
      BY <3>1 DEF Follows
    <3>3. QED  BY <3>1, <3>2
  <2>3. QED  BY <2>1, <2>2
<1>3. QED  BY <1>1, <1>2 DEF OnWire, v

(* One more image is begun.                                                *)
LEMMA ExtendLayout ==
  ASSUME NEW im \in Seq(Nat), NEW S, Layout(im, S), NEW n \in Nat
  PROVE  \E T : /\ Layout(Append(im, n), T)
                /\ \A i \in 1 .. Len(im) + 1 : T[i] = S[i]
                /\ \A w, b : OnWire(im, S, w, b) => OnWire(Append(im, n), T, w, b)
<1> DEFINE L == Len(im)
           jm == Append(im, n)
           T == [i \in 1 .. L + 2 |-> IF i = L + 2 THEN S[L + 1] + 1 + n ELSE S[i]]
<1>1. /\ L \in Nat /\ \A i \in 1 .. L : im[i] \in Nat
      /\ jm \in Seq(Nat) /\ Len(jm) = L + 1
      /\ \A i \in 1 .. L : jm[i] = im[i]
      /\ jm[L + 1] = n
  BY LenProperties, ElementOfSeq, AppendProperties
<1> HIDE DEF jm, L
<1>2. /\ S \in [1 .. L + 1 -> Nat]
      /\ S[1] = 1
      /\ \A i \in 1 .. L : S[i + 1] = S[i] + 1 + im[i]
      /\ \A i \in 1 .. L, j \in 1 .. L + 1 : i < j => S[i] + im[i] < S[j]
  BY DEF Layout, L
<1>3. \A i \in 1 .. L + 1 : i \in 1 .. L + 2 /\ i # L + 2 /\ T[i] = S[i]
  BY <1>1
<1>4. L + 2 \in 1 .. L + 2 /\ T[L + 2] = S[L + 1] + 1 + n
  BY <1>1
<1>5. L + 1 \in 1 .. L + 1 /\ 1 \in 1 .. L + 1
  BY <1>1
<1>6. T \in [1 .. L + 2 -> Nat]
  <2>1. \A i \in 1 .. L + 2 : i = L + 2 \/ i \in 1 .. L + 1
    BY <1>1
  <2>2. S[L + 1] \in Nat /\ \A i \in 1 .. L + 1 : S[i] \in Nat
    BY <1>2, <1>5
  <2>3. S[L + 1] + 1 + n \in Nat
    BY <2>2
  <2>4. QED  BY <2>1, <2>2, <2>3
<1> HIDE DEF T
<1>7. T[1] = 1
  BY <1>2, <1>3, <1>5
<1>8. ASSUME NEW i \in 1 .. L + 1
      PROVE  T[i + 1] = T[i] + 1 + jm[i]
  <2>1. CASE i = L + 1
    <3>1. i + 1 = L + 2
      BY <1>1, <2>1
    <3>2. T[i + 1] = S[L + 1] + 1 + n /\ T[i] = S[L + 1] /\ jm[i] = n
      BY <1>1, <1>3, <1>4, <2>1, <3>1
    <3>3. QED  BY <3>2
  <2>2. CASE i # L + 1
    <3>1. i \in 1 .. L /\ i + 1 \in 1 .. L + 1
      BY <1>1, <2>2
    <3>2. QED  BY <1>1, <1>2, <1>3, <3>1
  <2>3. QED  BY <2>1, <2>2
<1>9. ASSUME NEW i \in 1 .. L + 1, NEW j \in 1 .. L + 2, i < j
      PROVE  T[i] + jm[i] < T[j]
  <2>1. CASE j # L + 2
    <3>1. i \in 1 .. L /\ j \in 1 .. L + 1
      BY <1>1, <1>9, <2>1
    <3>2. S[i] + im[i] < S[j]
      BY <1>2, <1>9, <3>1
    <3>3. QED  BY <1>1, <1>3, <3>1, <3>2
  <2>2. CASE j = L + 2 /\ i = L + 1
    <3>1. T[i] \in Nat /\ T[j] = T[i] + 1 + n /\ jm[i] = n
      BY <1>1, <1>2, <1>3, <1>4, <1>5, <2>2
    <3>2. QED  BY <3>1
  <2>3. CASE j = L + 2 /\ i # L + 1
    <3>1. i \in 1 .. L /\ i < L + 1
      BY <1>1, <2>3
    <3>2. S[i] + im[i] < S[L + 1]
      BY <1>2, <1>5, <3>1
    <3>3. S[i] \in Nat /\ S[L + 1] \in Nat /\ im[i] \in Nat
      BY <1>1, <1>2, <1>5, <3>1
    <3>4. T[i] = S[i] /\ jm[i] = im[i] /\ T[j] = S[L + 1] + 1 + n
      BY <1>1, <1>3, <1>4, <2>3, <3>1
    <3>5. QED  BY <3>2, <3>3, <3>4
  <2>4. QED  BY <2>1, <2>2, <2>3
<1>10. Len(jm) + 1 = L + 2
  BY <1>1
<1>11. Layout(jm, T)
  BY <1>1, <1>6, <1>7, <1>8, <1>9, <1>10 DEF Layout
<1>12. ASSUME NEW w, NEW b, OnWire(im, S, w, b)
       PROVE  OnWire(jm, T, w, b)
  <2> SUFFICES ASSUME NEW k \in 1 .. Len(w)
               PROVE  \E i \in 1 .. Len(jm) :
                         Within(jm, T, i, b + k) /\ w[k] = ItemAt(jm, T, i, b + k)
    BY DEF OnWire
  <2>1. PICK i \in 1 .. L : Within(im, S, i, b + k) /\ w[k] = ItemAt(im, S, i, b + k)
    BY <1>12 DEF OnWire, L
  <2>2. i \in 1 .. L + 1
    BY <1>1
  <2>3. T[i] = S[i] /\ jm[i] = im[i]
    BY <1>1, <1>3, <2>2
  <2>4. Within(jm, T, i, b + k) /\ w[k] = ItemAt(jm, T, i, b + k)
    BY <2>1, <2>3 DEF Within, ItemAt
  <2>5. QED  BY <1>1, <2>2, <2>4
<1>13. QED  BY <1>3, <1>11, <1>12 DEF L, jm

-----------------------------------------------------------------------------
(* The inductive invariant.                                                *)

Types ==
    /\ TypeOK
    /\ wire \in Seq(Item)
    /\ file \in Seq(Item)
    /\ received \in Seq(Seq(Item))
    /\ clientPc \in {"size", "chunks"} => images # <<>>
    /\ clientPc = "size" => offset = 0
    /\ clientPc = "gone" => ended # "no"
    /\ ended = "eof" => clientPc = "gone"
    /\ ended = "reset" => wire = <<>>

(* The connection has ended and everything was read: what the server does  *)
(* from now on has nothing to do with the stream.                          *)
Dead == ended # "no" /\ wire = <<>>

Current == Len(received) + 1    \* the image the server is at

ClientAt(S, b) == ended = "no" =>
    /\ clientPc = "input"  => b + Len(wire) + 1 = S[Len(images) + 1]
    /\ clientPc = "size"   => b + Len(wire) + 1 = S[Len(images)]
    /\ clientPc = "chunks" => b + Len(wire) + 1 = S[Len(images)] + 1 + offset

ServerAt(S, b) ==
    /\ serverPc = "size"  => Current <= Len(images) + 1 /\ b + 1 = S[Current]
    /\ serverPc = "open"  => /\ Current <= Len(images)
                             /\ b = S[Current] /\ fileSize = images[Current]
    /\ serverPc = "bytes" => /\ Current <= Len(images)
                             /\ b + fileSize = S[Current] + images[Current]

(* Both ends know where in the stream they are.                            *)
Sync == \E S, b : /\ b \in Nat
                  /\ Layout(images, S)
                  /\ OnWire(images, S, wire, b)
                  /\ ClientAt(S, b)
                  /\ Dead \/ ServerAt(S, b)

(* The file is what has been read of the image so far, or nothing at all.  *)
Begun(f, n) == /\ Current <= Len(images)
               /\ Len(f) + n = images[Current]
               /\ \A k \in 1 .. Len(f) : f[k] = Byte(Current, k)
FileOK == serverPc = "bytes" => \/ Dead /\ file = <<>>
                                \/ Begun(file, fileSize)

IInv == /\ Types
        /\ Sync
        /\ FileOK
        /\ ReceivedWhole

LEMMA Basics ==
  ASSUME Types
  PROVE  /\ images \in Seq(Nat) /\ Len(images) \in Nat
         /\ \A i \in 1 .. Len(images) : images[i] \in Nat
         /\ wire \in Seq(Item) /\ Len(wire) \in Nat
         /\ Current \in Nat /\ 1 <= Current
         /\ Current <= Len(images) + 1 => Current \in 1 .. Len(images) + 1
         /\ Current <= Len(images) => Current \in 1 .. Len(images)
         /\ images # <<>> => /\ Len(images) \in 1 .. Len(images)
                             /\ offset \in Nat /\ offset <= images[Len(images)]
         /\ fileSize \in Nat
<1>1. images \in Seq(Nat)
  <2>1. images \in Seq(FileSizes) /\ FileSizes \subseteq Nat
    BY BoundAssumption DEF Types, TypeOK
  <2>2. /\ images \in [1 .. Len(images) -> FileSizes] /\ Len(images) \in Nat
        /\ \A i \in 1 .. Len(images) : images[i] \in FileSizes
    BY <2>1, LenProperties, ElementOfSeq
  <2>3. images \in [1 .. Len(images) -> Nat]
    BY <2>1, <2>2
  <2>4. QED  BY <2>2, <2>3, SeqDef
<1>2. Len(images) \in Nat /\ \A i \in 1 .. Len(images) : images[i] \in Nat
  BY <1>1, LenProperties, ElementOfSeq
<1>3. wire \in Seq(Item) /\ Len(wire) \in Nat
  BY LenProperties DEF Types
<1>4. Len(received) \in Nat
  BY LenProperties DEF Types
<1>5. images # <<>> => Len(images) \in 1 .. Len(images)
  <2>1. images # <<>> => Len(images) # 0
    BY <1>1, LenZero
  <2>2. QED  BY <1>2, <2>1
<1>6. images # <<>> => offset \in Nat /\ offset <= images[Len(images)]
  BY <1>2, <1>5 DEF Types, TypeOK
<1>7. fileSize \in Nat
  BY DEF Types, TypeOK
<1>8. /\ Current \in Nat /\ 1 <= Current
      /\ Current <= Len(images) + 1 => Current \in 1 .. Len(images) + 1
      /\ Current <= Len(images) => Current \in 1 .. Len(images)
  BY <1>2, <1>4 DEF Current
<1>9. QED  BY <1>1, <1>2, <1>3, <1>5, <1>6, <1>7, <1>8

(* What a step that leaves the images alone says of the received ones.     *)
LEMMA ReceivedSame ==
  ASSUME ReceivedWhole, UNCHANGED <<images, received>>
  PROVE  ReceivedWhole'
BY DEF ReceivedWhole, Image

LEMMA FileSame ==
  ASSUME FileOK, Dead => Dead', UNCHANGED <<images, received, serverPc, file, fileSize>>
  PROVE  FileOK'
BY DEF FileOK, Begun, Current

(* A step of the client or the network leaves the server where it was.     *)
LEMMA ServerSame ==
  ASSUME NEW S, NEW b, ServerAt(S, b), UNCHANGED <<images, received, serverPc, fileSize>>
  PROVE  ServerAt(S, b)'
BY DEF ServerAt, Current

LEMMA ClientSame ==
  ASSUME NEW S, NEW b, ClientAt(S, b), UNCHANGED <<images, clientPc, offset, wire>>,
         ended' = "no" => ended = "no"
  PROVE  ClientAt(S, b)'
BY DEF ClientAt

-----------------------------------------------------------------------------
(* The client and the network.                                             *)

LEMMA BeginImageStep == IInv /\ BeginImage => IInv'
<1> SUFFICES ASSUME IInv, BeginImage PROVE IInv'
  OBVIOUS
<1> USE DEF serverVars
<1> DEFINE L == Len(images)
<1>1. PICK n \in FileSizes :
         /\ clientPc = "input" /\ clientPc' = "size"
         /\ L < MaxImages
         /\ images' = Append(images, n) /\ offset' = 0
         /\ UNCHANGED <<wire, ended, serverPc, fileSize, file, received>>
  BY DEF BeginImage
<1>2. /\ images \in Seq(Nat) /\ L \in Nat /\ n \in Nat /\ Len(wire) \in Nat
      /\ Current \in Nat
      /\ Current <= L + 1 => Current \in 1 .. L + 1
      /\ Current <= L => Current \in 1 .. L
  BY Basics, BoundAssumption DEF IInv
<1>3. /\ images' \in Seq(Nat) /\ Len(images') = L + 1 /\ images' # <<>>
      /\ \A i \in 1 .. L : images'[i] = images[i]
      /\ images'[L + 1] = n
  BY <1>1, <1>2, AppendProperties
<1>4. images' \in Seq(FileSizes)
  BY <1>1, AppendProperties DEF IInv, Types, TypeOK
<1>5. Types'
  <2>1. Len(images') <= MaxImages
    BY <1>1, <1>2, <1>3, BoundAssumption
  <2>2. offset' \in 0 .. images'[Len(images')]
    BY <1>1, <1>2, <1>3
  <2>3. TypeOK'
    BY <1>1, <1>4, <2>1, <2>2 DEF IInv, Types, TypeOK
  <2>4. QED  BY <1>1, <1>3, <2>3 DEF IInv, Types
<1>6. PICK S, b : /\ b \in Nat
                  /\ Layout(images, S)
                  /\ OnWire(images, S, wire, b)
                  /\ ClientAt(S, b)
                  /\ Dead \/ ServerAt(S, b)
  BY DEF IInv, Sync
<1>7. PICK T : /\ Layout(images', T)
               /\ \A i \in 1 .. L + 1 : T[i] = S[i]
               /\ OnWire(images', T, wire, b)
  BY <1>1, <1>2, <1>6, ExtendLayout
<1> HIDE DEF L
<1>8. Sync'
  <2>1. OnWire(images', T, wire', b)
    BY <1>1, <1>7
  <2>2. ClientAt(T, b)'
    <3>1. L + 1 \in 1 .. L + 1
      BY <1>2
    <3>2. ended = "no" => b + Len(wire) + 1 = S[L + 1]
      BY <1>1, <1>6 DEF ClientAt, L
    <3>3. ended' = "no" => b + Len(wire') + 1 = T[Len(images')]
      BY <1>1, <1>3, <1>7, <3>1, <3>2
    <3>4. QED  BY <1>1, <3>3 DEF ClientAt
  <2>3. Dead => Dead'
    BY <1>1 DEF Dead
  <2>4. ASSUME ServerAt(S, b)
        PROVE  ServerAt(T, b)'
    <3>1. Current' = Current
      BY <1>1 DEF Current
    <3>2. Current <= L + 1 => Current <= Len(images') + 1 /\ T[Current] = S[Current]
      BY <1>2, <1>3, <1>7
    <3>3. Current <= L => /\ Current <= Len(images') /\ Current <= L + 1
                         /\ images'[Current] = images[Current]
      BY <1>2, <1>3
    <3>4. QED  BY <1>1, <2>4, <3>1, <3>2, <3>3 DEF ServerAt, L
  <2>5. QED  BY <1>6, <1>7, <2>1, <2>2, <2>3, <2>4 DEF Sync
<1>9. FileOK'
  <2>1. Current' = Current /\ (Dead => Dead')
    BY <1>1 DEF Current, Dead
  <2>2. ASSUME Begun(file, fileSize)
        PROVE  Begun(file, fileSize)'
    <3>1. Current <= L
      BY <2>2 DEF Begun, L
    <3>2. Current <= Len(images') /\ images'[Current] = images[Current]
      BY <1>2, <1>3, <3>1
    <3>3. QED  BY <1>1, <2>1, <2>2, <3>2 DEF Begun
  <2>3. QED  BY <1>1, <2>1, <2>2 DEF IInv, FileOK
<1>10. ReceivedWhole'
  <2> SUFFICES ASSUME NEW j \in DOMAIN received', received'[j] # <<>>
               PROVE  j <= Len(images') /\ received'[j] = Image(j)'
    BY DEF ReceivedWhole
  <2>1. j \in 1 .. Len(received) /\ Len(received) \in Nat
    BY <1>1, LenProperties DEF IInv, Types
  <2>2. j <= L /\ received[j] = Image(j)
    BY <1>1 DEF IInv, ReceivedWhole, L
  <2>3. j \in 1 .. L
    BY <1>2, <2>1, <2>2
  <2>4. images'[j] = images[j] /\ j <= Len(images')
    BY <1>2, <1>3, <2>3
  <2>5. QED  BY <1>1, <2>2, <2>4 DEF Image
<1>11. QED  BY <1>5, <1>8, <1>9, <1>10 DEF IInv

LEMMA WriteSizeStep == IInv /\ WriteSize => IInv'
<1> SUFFICES ASSUME IInv, WriteSize PROVE IInv'
  OBVIOUS
<1> USE DEF serverVars
<1> DEFINE L == Len(images)
           d == <<Size(images[L])>>
<1>1. /\ clientPc = "size" /\ clientPc' = "chunks"
      /\ wire' = IF ended = "no" THEN wire \o d ELSE wire
      /\ UNCHANGED <<images, offset, ended, serverPc, fileSize, file, received>>
  BY DEF WriteSize, Written
<1>2. /\ images # <<>> /\ L \in Nat /\ L \in 1 .. L /\ images[L] \in Nat
      /\ wire \in Seq(Item) /\ Len(wire) \in Nat
  BY <1>1, Basics DEF IInv, Types
<1>3. d \in Seq(Item) /\ Len(d) = 1 /\ d[1] = Size(images[L])
  <2>1. Size(images[L]) \in Item
    BY <1>2, Items
  <2>2. QED  BY <2>1
<1>4. PICK S, b : /\ b \in Nat
                  /\ Layout(images, S)
                  /\ OnWire(images, S, wire, b)
                  /\ ClientAt(S, b)
                  /\ Dead \/ ServerAt(S, b)
  BY DEF IInv, Sync
<1> HIDE DEF d
<1>5. S[L] \in Nat
  BY <1>2, <1>4 DEF Layout
<1> HIDE DEF L
<1>6. Dead => Dead'
  BY <1>1 DEF Dead
<1>7. CASE ended = "no"
  <2>1. b + Len(wire) + 1 = S[L] /\ offset = 0
    BY <1>1, <1>4, <1>7 DEF ClientAt, L, IInv, Types
  <2>2. Follows(images, S, L, d, b + Len(wire))
    <3> SUFFICES ASSUME NEW k \in 1 .. Len(d)
                 PROVE  /\ Within(images, S, L, b + Len(wire) + k)
                        /\ d[k] = ItemAt(images, S, L, b + Len(wire) + k)
      BY DEF Follows
    <3>1. k = 1
      BY <1>3
    <3>2. b + Len(wire) + k = S[L] /\ S[L] <= S[L] + images[L]
      BY <1>2, <1>5, <2>1, <3>1
    <3>3. QED  BY <1>3, <1>5, <3>1, <3>2 DEF Within, ItemAt
  <2>3. L \in 1 .. Len(images)
    BY <1>2 DEF L
  <2>4. /\ OnWire(images, S, wire \o d, b)
        /\ wire \o d \in Seq(Item)
        /\ Len(wire \o d) = Len(wire) + Len(d)
    <3>1. wire \in Seq(Item) /\ d \in Seq(Item)
      BY <1>2, <1>3
    <3>2. b \in Nat /\ OnWire(images, S, wire, b)
      BY <1>4
    <3>3. QED  BY <2>2, <2>3, <3>1, <3>2, WriteStream
  <2>5. wire' = wire \o d
    BY <1>1, <1>7
  <2>6. Types'
    BY <1>1, <1>2, <1>7, <2>4, <2>5 DEF IInv, Types, TypeOK
  <2>7. ClientAt(S, b)'
    <3>1. b + Len(wire') + 1 = S[L] + 1
      <4>1. Len(wire') = Len(wire) + 1
        BY <1>3, <2>4, <2>5
      <4>2. b \in Nat /\ Len(wire) \in Nat
        BY <1>2, <1>4
      <4>3. QED  BY <1>5, <2>1, <4>1, <4>2
    <3>2. b + Len(wire') + 1 = S[L] + 1 + offset
      BY <1>5, <2>1, <3>1
    <3>3. QED  BY <1>1, <3>2 DEF ClientAt, L
  <2>8. ServerAt(S, b) => ServerAt(S, b)'
    BY <1>1, ServerSame
  <2>9. Sync'
    BY <1>1, <1>4, <1>6, <2>4, <2>5, <2>7, <2>8 DEF Sync
  <2>10. FileOK' /\ ReceivedWhole'
    BY <1>1, <1>6, FileSame, ReceivedSame DEF IInv
  <2>11. QED  BY <2>6, <2>9, <2>10 DEF IInv
<1>8. CASE ended # "no"
  <2>1. wire' = wire
    BY <1>1, <1>8
  <2>2. Types'
    BY <1>1, <1>2, <1>8, <2>1 DEF IInv, Types, TypeOK
  <2>3. ClientAt(S, b)'
    BY <1>1, <1>8 DEF ClientAt
  <2>4. ServerAt(S, b) => ServerAt(S, b)'
    BY <1>1, ServerSame
  <2>5. Sync'
    BY <1>1, <1>4, <1>6, <2>1, <2>3, <2>4 DEF Sync
  <2>6. FileOK' /\ ReceivedWhole'
    BY <1>1, <1>6, FileSame, ReceivedSame DEF IInv
  <2>7. QED  BY <2>2, <2>5, <2>6 DEF IInv
<1>9. QED  BY <1>7, <1>8

LEMMA WriteChunkStep == IInv /\ WriteChunk => IInv'
<1> SUFFICES ASSUME IInv, WriteChunk PROVE IInv'
  OBVIOUS
<1> USE DEF serverVars
<1> DEFINE L == Len(images)
           n == Smaller(Left, BufferSize)
           d == Chunk(n)
<1>1. /\ clientPc = "chunks"
      /\ clientPc' = IF Left < BufferSize THEN "input" ELSE "chunks"
      /\ wire' = IF ended = "no" THEN wire \o d ELSE wire
      /\ offset' = offset + n
      /\ UNCHANGED <<images, ended, serverPc, fileSize, file, received>>
  BY DEF WriteChunk, Written
<1>2. /\ images # <<>> /\ L \in Nat /\ L \in 1 .. L /\ images[L] \in Nat
      /\ wire \in Seq(Item) /\ Len(wire) \in Nat
      /\ offset \in Nat /\ offset <= images[L]
  BY <1>1, Basics DEF IInv, Types
<1>3. /\ n \in Nat /\ offset + n <= images[L]
      /\ Left < BufferSize => offset + n = images[L]
  BY <1>2, BufferAssumption DEF Left, Smaller
<1> HIDE DEF n
<1>4. d \in Seq(Item) /\ Len(d) = n /\ \A k \in 1 .. n : d[k] = Byte(L, offset + k)
  <2>1. \A k \in 1 .. n : Byte(L, offset + k) \in Item
    BY <1>2, <1>3, Items
  <2>2. d \in [1 .. n -> Item] /\ \A k \in 1 .. n : d[k] = Byte(L, offset + k)
    BY <2>1 DEF Chunk
  <2>3. d \in Seq(Item)
    BY <1>3, <2>2, SeqDef
  <2>4. QED  BY <1>3, <2>2, <2>3, LenProperties
<1>5. PICK S, b : /\ b \in Nat
                  /\ Layout(images, S)
                  /\ OnWire(images, S, wire, b)
                  /\ ClientAt(S, b)
                  /\ Dead \/ ServerAt(S, b)
  BY DEF IInv, Sync
<1> HIDE DEF d
<1>6. S[L] \in Nat /\ S[L + 1] = S[L] + 1 + images[L]
  BY <1>2, <1>5 DEF Layout
<1> HIDE DEF L
<1>7. Dead => Dead'
  BY <1>1 DEF Dead
<1>8. TypeOK' /\ clientPc' \in {"input", "chunks"}
  <2>1. offset' \in 0 .. images[L]
    BY <1>1, <1>2, <1>3
  <2>2. QED  BY <1>1, <2>1 DEF IInv, Types, TypeOK, L
<1>9. CASE ended = "no"
  <2>1. b + Len(wire) + 1 = S[L] + 1 + offset
    BY <1>1, <1>5, <1>9 DEF ClientAt, L
  <2>2. Follows(images, S, L, d, b + Len(wire))
    <3> SUFFICES ASSUME NEW k \in 1 .. Len(d)
                 PROVE  /\ Within(images, S, L, b + Len(wire) + k)
                        /\ d[k] = ItemAt(images, S, L, b + Len(wire) + k)
      BY DEF Follows
    <3>1. k \in 1 .. n /\ b \in Nat
      BY <1>4, <1>5
    <3>2. b + Len(wire) + k = S[L] + (offset + k)
      BY <1>2, <1>6, <2>1, <3>1
    <3> DEFINE p == b + Len(wire) + k
    <3>3. p = S[L] + (offset + k)
      BY <3>2
    <3> HIDE DEF p
    <3>4. S[L] <= p /\ p <= S[L] + images[L] /\ p # S[L] /\ p - S[L] = offset + k
      BY <1>2, <1>3, <1>6, <3>1, <3>3
    <3>5. d[k] = Byte(L, p - S[L])
      BY <1>4, <3>1, <3>4
    <3>6. Within(images, S, L, p) /\ d[k] = ItemAt(images, S, L, p)
      BY <3>4, <3>5 DEF Within, ItemAt
    <3>7. QED  BY <3>6 DEF p
  <2>3. L \in 1 .. Len(images)
    BY <1>2 DEF L
  <2>4. /\ OnWire(images, S, wire \o d, b)
        /\ wire \o d \in Seq(Item)
        /\ Len(wire \o d) = Len(wire) + Len(d)
    <3>1. wire \in Seq(Item) /\ d \in Seq(Item)
      BY <1>2, <1>4
    <3>2. b \in Nat /\ OnWire(images, S, wire, b)
      BY <1>5
    <3>3. QED  BY <2>2, <2>3, <3>1, <3>2, WriteStream
  <2>5. wire' = wire \o d
    BY <1>1, <1>9
  <2>6. Types'
    BY <1>1, <1>8, <1>9, <2>4, <2>5 DEF IInv, Types
  <2>7. ClientAt(S, b)'
    <3>1. Len(wire') = Len(wire) + n
      BY <1>4, <2>4, <2>5
    <3>2. b \in Nat
      BY <1>5
    <3>3. b + Len(wire') + 1 = S[L] + 1 + offset'
      <4>1. offset' = offset + n
        BY <1>1
      <4>2. offset \in Nat /\ n \in Nat /\ Len(wire) \in Nat /\ S[L] \in Nat
        BY <1>2, <1>3, <1>6
      <4>3. QED  BY <2>1, <3>1, <3>2, <4>1, <4>2
    <3>4. Left < BufferSize => S[L] + 1 + offset' = S[L + 1]
      BY <1>1, <1>2, <1>3, <1>6
    <3>5. QED  BY <1>1, <3>3, <3>4 DEF ClientAt, L
  <2>8. ServerAt(S, b) => ServerAt(S, b)'
    BY <1>1, ServerSame
  <2>9. Sync'
    BY <1>1, <1>5, <1>7, <2>4, <2>5, <2>7, <2>8 DEF Sync
  <2>10. FileOK' /\ ReceivedWhole'
    BY <1>1, <1>7, FileSame, ReceivedSame DEF IInv
  <2>11. QED  BY <2>6, <2>9, <2>10 DEF IInv
<1>10. CASE ended # "no"
  <2>1. wire' = wire
    BY <1>1, <1>10
  <2>2. Types'
    BY <1>1, <1>8, <1>10, <2>1 DEF IInv, Types
  <2>3. ClientAt(S, b)'
    BY <1>1, <1>10 DEF ClientAt
  <2>4. ServerAt(S, b) => ServerAt(S, b)'
    BY <1>1, ServerSame
  <2>5. Sync'
    BY <1>1, <1>5, <1>7, <2>1, <2>3, <2>4 DEF Sync
  <2>6. FileOK' /\ ReceivedWhole'
    BY <1>1, <1>7, FileSame, ReceivedSame DEF IInv
  <2>7. QED  BY <2>2, <2>5, <2>6 DEF IInv
<1>11. QED  BY <1>9, <1>10

(* The client leaves or the connection is reset.                           *)
LEMMA ConnectionStep == IInv /\ (ClientLeaves \/ ConnectionResets) => IInv'
<1> SUFFICES ASSUME IInv, ClientLeaves \/ ConnectionResets PROVE IInv'
  OBVIOUS
<1> USE DEF serverVars, clientVars
<1>1. PICK S, b : /\ b \in Nat
                  /\ Layout(images, S)
                  /\ OnWire(images, S, wire, b)
                  /\ ClientAt(S, b)
                  /\ Dead \/ ServerAt(S, b)
  BY DEF IInv, Sync
<1>2. /\ UNCHANGED <<images, serverPc, fileSize, file, received>>
      /\ ended' # "no"
      /\ Dead => Dead'
  BY DEF ClientLeaves, ConnectionResets, Dead
<1>3. Types' /\ OnWire(images, S, wire', b)
  <2>1. CASE ClientLeaves
    BY <1>1, <2>1 DEF ClientLeaves, IInv, Types, TypeOK
  <2>2. CASE ConnectionResets
    <3>1. wire' = <<>> /\ Len(wire') = 0 /\ wire' \in Seq(Item)
      BY <2>2, EmptySeq DEF ConnectionResets
    <3>2. Types'
      BY <2>2, <3>1 DEF ConnectionResets, IInv, Types, TypeOK
    <3>3. OnWire(images, S, wire', b)
      BY <3>1 DEF OnWire
    <3>4. QED  BY <3>2, <3>3
  <2>3. QED  BY <2>1, <2>2
<1>4. ClientAt(S, b)'
  BY <1>2 DEF ClientAt
<1>5. ServerAt(S, b) => ServerAt(S, b)'
  BY <1>2, ServerSame
<1>6. Sync'
  BY <1>1, <1>2, <1>3, <1>4, <1>5 DEF Sync
<1>7. FileOK' /\ ReceivedWhole'
  BY <1>2, FileSame, ReceivedSame DEF IInv
<1>8. QED  BY <1>3, <1>6, <1>7 DEF IInv

-----------------------------------------------------------------------------
(* The server.                                                             *)

(* What the server reads moves the wire, not the client.                   *)
LEMMA ClientAfterRead ==
  ASSUME NEW S, NEW b \in Nat, NEW n \in Nat, ClientAt(S, b),
         UNCHANGED <<images, clientPc, offset, ended>>,
         Len(wire) \in Nat, Len(wire') = Len(wire) - n
  PROVE  ClientAt(S, b + n)'
<1>1. (b + n) + Len(wire') + 1 = b + Len(wire) + 1
  OBVIOUS
<1>2. QED  BY <1>1 DEF ClientAt

LEMMA ReadSizeStep == IInv /\ ReadSize => IInv'
<1> SUFFICES ASSUME IInv, ReadSize PROVE IInv'
  OBVIOUS
<1> USE DEF clientVars
<1> DEFINE j == Current
<1>1. /\ serverPc = "size" /\ serverPc' = "open"
      /\ UNCHANGED <<clientPc, images, offset, ended, file, received>>
  BY DEF ReadSize
<1>2. PICK S, b : /\ b \in Nat
                  /\ Layout(images, S)
                  /\ OnWire(images, S, wire, b)
                  /\ ClientAt(S, b)
                  /\ Dead \/ ServerAt(S, b)
  BY DEF IInv, Sync
<1>3. FileOK' /\ ReceivedWhole'
  BY <1>1, ReceivedSame DEF IInv, FileOK
<1>4. CASE wire = <<>>
  <2>1. Dead /\ UNCHANGED wire /\ fileSize' \in Nat
    <3>1. ended # "no" /\ fileSize' \in FileSizes \cup {0} /\ UNCHANGED wire
      BY <1>4 DEF ReadSize
    <3>2. QED  BY <1>4, <3>1, BoundAssumption DEF Dead
  <2>2. Types'
    BY <1>1, <2>1 DEF IInv, Types, TypeOK
  <2>3. ClientAt(S, b)' /\ Dead'
    BY <1>1, <1>2, <2>1, ClientSame DEF Dead
  <2>4. Sync'
    BY <1>1, <1>2, <2>1, <2>3 DEF Sync
  <2>5. QED  BY <1>3, <2>2, <2>4 DEF IInv
<1>5. CASE wire # <<>>
  <2>1. fileSize' = Head(wire).size /\ wire' = Tail(wire)
    BY <1>5 DEF ReadSize
  <2>2. ServerAt(S, b)
    BY <1>2, <1>5 DEF Dead
  <2>3. j <= Len(images) + 1 /\ b + 1 = S[j]
    BY <1>1, <2>2 DEF ServerAt
  <2>4. /\ images \in Seq(Nat) /\ Len(images) \in Nat
        /\ wire \in Seq(Item) /\ Len(wire) \in Nat
        /\ j \in 1 .. Len(images) + 1
        /\ \A i \in 1 .. Len(images) : images[i] \in Nat
    BY <2>3, Basics DEF IInv
  <2>5. /\ Tail(wire) \in Seq(Item) /\ Head(wire) = wire[1]
        /\ Tail(wire) = Suffix(wire, 1)
        /\ Len(wire) >= 1
    <3>1. Len(wire) # 0
      BY <1>5, <2>4, LenZero
    <3>2. Len(wire) >= 1
      BY <2>4, <3>1
    <3>3. Tail(wire) = SubSeq(wire, 2, Len(wire))
      BY <1>5, <2>4, TailIsSubSeq
    <3>4. 1 + 1 = 2
      OBVIOUS
    <3>5. Tail(wire) = Suffix(wire, 1)
      BY <3>3, <3>4 DEF Suffix
    <3>6. QED  BY <1>5, <2>4, <3>2, <3>5, HeadTailProperties
  <2>6. j \in 1 .. Len(images) /\ wire[1] = ItemAt(images, S, j, b + 1)
    <3>1. S[j] <= b + 1 /\ (j <= Len(images) => b + 1 <= S[j] + images[j])
      <4>1. b + 1 \in Nat /\ (j <= Len(images) => images[j] \in Nat)
        BY <1>2, <2>4
      <4>2. QED  BY <2>3, <4>1
    <3>2. 1 \in 1 .. Len(wire)
      BY <2>4, <2>5
    <3>3. b \in Nat /\ Layout(images, S) /\ OnWire(images, S, wire, b)
      BY <1>2
    <3>4. images \in Seq(Nat) /\ wire \in Seq(Item) /\ j \in 1 .. Len(images) + 1
      BY <2>4
    <3> HIDE DEF j
    <3>5. QED  BY <3>1, <3>2, <3>3, <3>4, WhatIsRead
  <2>7. fileSize' = images[j] /\ fileSize' \in Nat
    <3>1. wire[1] = Size(images[j])
      BY <2>3, <2>6 DEF ItemAt
    <3>2. images[j] \in Nat
      BY <2>4, <2>6
    <3>3. QED  BY <2>1, <2>5, <3>1, <3>2, Items
  <2>8. /\ OnWire(images, S, wire', b + 1)
        /\ wire' \in Seq(Item)
        /\ Len(wire') = Len(wire) - 1
    <3>1. 1 \in 0 .. Len(wire)
      BY <2>4, <2>5
    <3>2. b \in Nat /\ OnWire(images, S, wire, b) /\ wire \in Seq(Item)
      BY <1>2, <2>4
    <3>3. /\ OnWire(images, S, Suffix(wire, 1), b + 1)
          /\ Suffix(wire, 1) \in Seq(Item)
          /\ Len(Suffix(wire, 1)) = Len(wire) - 1
      BY <3>1, <3>2, ReadStream
    <3>4. wire' = Suffix(wire, 1)
      BY <2>1, <2>5
    <3>5. QED  BY <3>3, <3>4
  <2>9. Types'
    <3>1. ended # "reset"
      BY <1>5 DEF IInv, Types
    <3>2. QED  BY <1>1, <2>7, <2>8, <3>1 DEF IInv, Types, TypeOK
  <2>10. ClientAt(S, b + 1)'
    BY <1>1, <1>2, <2>4, <2>8, ClientAfterRead
  <2>11. ServerAt(S, b + 1)'
    BY <1>1, <2>3, <2>4, <2>6, <2>7 DEF ServerAt, Current
  <2>12. b + 1 \in Nat
    BY <1>2
  <2>13. Sync'
    BY <1>1, <1>2, <2>8, <2>10, <2>11, <2>12 DEF Sync
  <2>14. QED  BY <1>3, <2>9, <2>13 DEF IInv
<1>6. QED  BY <1>4, <1>5

LEMMA OpenFileStep == IInv /\ OpenFile => IInv'
<1> SUFFICES ASSUME IInv, OpenFile PROVE IInv'
  OBVIOUS
<1> USE DEF clientVars
<1>1. /\ serverPc = "open"
      /\ UNCHANGED <<clientPc, images, offset, wire, ended, fileSize, received>>
      /\ \/ file' = <<>> /\ serverPc' = "bytes"
         \/ file' = file /\ serverPc' = "exit"
  BY DEF OpenFile
<1>2. PICK S, b : /\ b \in Nat
                  /\ Layout(images, S)
                  /\ OnWire(images, S, wire, b)
                  /\ ClientAt(S, b)
                  /\ Dead \/ ServerAt(S, b)
  BY DEF IInv, Sync
<1>3. Types'
  <2>1. file' \in Seq(Item)
    BY <1>1, EmptySeq DEF IInv, Types
  <2>2. QED  BY <1>1, <2>1 DEF IInv, Types, TypeOK
<1>4. ClientAt(S, b)' /\ (Dead => Dead')
  BY <1>1, <1>2 DEF ClientAt, Dead
<1>5. ASSUME ServerAt(S, b)
      PROVE  /\ Current <= Len(images) /\ b = S[Current]
             /\ fileSize = images[Current]
             /\ ServerAt(S, b)'
  <2>1. Current <= Len(images) /\ b = S[Current] /\ fileSize = images[Current]
    BY <1>1, <1>5 DEF ServerAt
  <2>2. Current' = Current
    BY <1>1 DEF Current
  <2>3. b + fileSize = S[Current] + images[Current]
    BY <2>1
  <2>4. QED  BY <1>1, <2>1, <2>2, <2>3 DEF ServerAt
<1>6. Sync'
  BY <1>1, <1>2, <1>4, <1>5 DEF Sync
<1>7. FileOK'
  <2>1. CASE serverPc' = "exit"
    BY <2>1 DEF FileOK
  <2>2. CASE Dead /\ serverPc' = "bytes"
    BY <1>1, <1>4, <2>2 DEF FileOK
  <2>3. CASE ServerAt(S, b) /\ serverPc' = "bytes"
    <3>1. file' = <<>> /\ Len(file') = 0
      BY <1>1, <2>3, EmptySeq
    <3>2. Current' = Current /\ fileSize \in Nat
      BY <1>1, Basics DEF IInv, Current
    <3>3. Current <= Len(images) /\ fileSize = images[Current]
      BY <1>5, <2>3
    <3>4. Len(file') + fileSize' = images'[Current']
      BY <1>1, <3>1, <3>2, <3>3
    <3>5. \A k \in 1 .. Len(file') : FALSE
      BY <3>1
    <3>6. Begun(file, fileSize)'
      BY <1>1, <3>2, <3>3, <3>4, <3>5 DEF Begun
    <3>7. QED  BY <3>6 DEF FileOK
  <2>4. QED  BY <1>1, <1>2, <2>1, <2>2, <2>3
<1>8. ReceivedWhole'
  BY <1>1, ReceivedSame DEF IInv
<1>9. QED  BY <1>3, <1>6, <1>7, <1>8 DEF IInv

(* One read returns n items of the image at most.                          *)
LEMMA ReadBytesStep == IInv /\ ReadBytes => IInv'
<1> SUFFICES ASSUME IInv, ReadBytes PROVE IInv'
  OBVIOUS
<1> USE DEF clientVars
<1> DEFINE want == Smaller(fileSize, BufferSize)
           j == Current
<1>1. /\ serverPc = "bytes" /\ fileSize > 0
      /\ UNCHANGED <<clientPc, images, offset, ended, serverPc, received>>
  BY DEF ReadBytes
<1>2. /\ images \in Seq(Nat) /\ Len(images) \in Nat
      /\ \A i \in 1 .. Len(images) : images[i] \in Nat
      /\ wire \in Seq(Item) /\ Len(wire) \in Nat /\ file \in Seq(Item)
      /\ fileSize \in Nat
      /\ j <= Len(images) => j \in 1 .. Len(images)
  BY Basics DEF IInv, Types
<1>3. PICK n \in 0 .. Len(wire) :
         /\ n = IF Len(wire) >= want THEN want ELSE Len(wire)
         /\ n <= fileSize /\ n \in Nat /\ 0 < want
  <2>1. want \in Nat /\ 0 < want /\ want <= fileSize
    BY <1>1, <1>2, BufferAssumption DEF Smaller
  <2> HIDE DEF want
  <2>2. QED  BY <1>2, <2>1
<1>4. /\ file' = file \o SubSeq(wire, 1, n)
      /\ wire' = Suffix(wire, n)
      /\ fileSize' = fileSize - n
      /\ Len(wire) < want => ended # "no"
  <2>1. CASE Len(wire) >= want
    <3>1. n = want /\ ~(Len(wire) < want)
      BY <1>2, <1>3, <2>1
    <3>2. /\ file' = file \o SubSeq(wire, 1, want)
          /\ wire' = SubSeq(wire, want + 1, Len(wire))
          /\ fileSize' = fileSize - want
      BY <3>1 DEF ReadBytes
    <3>3. QED  BY <3>1, <3>2 DEF Suffix
  <2>2. CASE ~(Len(wire) >= want)
    <3>1. n = Len(wire)
      BY <1>3, <2>2
    <3>2. /\ ended # "no"
          /\ file' = file \o wire
          /\ wire' = <<>>
          /\ fileSize' = fileSize - Len(wire)
      BY <2>2 DEF ReadBytes
    <3>3. SubSeq(wire, 1, Len(wire)) = wire
      BY <1>2, SubSeqFull
    <3>4. Suffix(wire, Len(wire)) = <<>>
      BY <1>2, SubSeqEmpty DEF Suffix
    <3>5. QED  BY <3>1, <3>2, <3>3, <3>4
  <2>3. QED  BY <2>1, <2>2
<1> DEFINE u == SubSeq(wire, 1, n)
<1>5. /\ u \in Seq(Item) /\ Len(u) = n
      /\ \A k \in 1 .. n : u[k] = wire[k] /\ k \in 1 .. Len(wire)
  <2>1. \A k \in 1 .. n : k \in 1 .. Len(wire) /\ wire[k] \in Item
    BY <1>2, <1>3, ElementOfSeq
  <2>2. /\ u \in Seq(Item)
        /\ Len(u) = IF 1 <= n THEN n - 1 + 1 ELSE 0
        /\ \A k \in 1 .. n - 1 + 1 : u[k] = wire[1 + k - 1]
    BY <1>3, <2>1, SubSeqProperties
  <2>3. (IF 1 <= n THEN n - 1 + 1 ELSE 0) = n
    BY <1>3
  <2>4. \A k \in 1 .. n : k \in 1 .. n - 1 + 1 /\ 1 + k - 1 = k
    BY <1>3
  <2>5. QED  BY <2>1, <2>2, <2>3, <2>4
<1>6. /\ file' \in Seq(Item) /\ Len(file') = Len(file) + n /\ Len(file) \in Nat
      /\ \A k \in 1 .. Len(file) + n :
            file'[k] = IF k <= Len(file) THEN file[k] ELSE u[k - Len(file)]
  BY <1>2, <1>4, <1>5, ConcatProperties, LenProperties
<1> HIDE DEF u
<1>7. PICK S, b : /\ b \in Nat
                  /\ Layout(images, S)
                  /\ OnWire(images, S, wire, b)
                  /\ ClientAt(S, b)
                  /\ Dead \/ ServerAt(S, b)
  BY DEF IInv, Sync
<1>8. /\ OnWire(images, S, wire', b + n)
      /\ wire' \in Seq(Item) /\ Len(wire') = Len(wire) - n
  <2>1. b \in Nat /\ OnWire(images, S, wire, b) /\ wire \in Seq(Item)
    BY <1>2, <1>7
  <2>2. /\ OnWire(images, S, Suffix(wire, n), b + n)
        /\ Suffix(wire, n) \in Seq(Item) /\ Len(Suffix(wire, n)) = Len(wire) - n
    <3>1. n \in 0 .. Len(wire)
      OBVIOUS
    <3>2. QED  BY <2>1, <3>1, ReadStream
  <2>3. QED  BY <1>4, <2>2
<1>9. fileSize' \in Nat /\ fileSize' + n = fileSize
  BY <1>2, <1>3, <1>4
<1>10. Dead => n = 0 /\ wire' = <<>> /\ Dead'
  <2>1. Dead => n = 0 /\ Len(wire') = 0
    BY <1>2, <1>3, <1>8, EmptySeq DEF Dead
  <2>2. QED  BY <1>1, <1>8, <2>1, LenZero DEF Dead
<1>11. Types'
  <2>1. ended = "reset" => wire' = <<>>
    BY <1>10 DEF IInv, Types, Dead
  <2>2. QED  BY <1>1, <1>6, <1>8, <1>9, <2>1 DEF IInv, Types, TypeOK
<1> HIDE DEF want
<1>12. ClientAt(S, b + n)'
  <2>1. b \in Nat /\ n \in Nat /\ ClientAt(S, b)
    BY <1>3, <1>7
  <2>2. UNCHANGED <<images, clientPc, offset, ended>>
    BY <1>1
  <2>3. Len(wire) \in Nat /\ Len(wire') = Len(wire) - n
    BY <1>2, <1>8
  <2>4. QED  BY <2>1, <2>2, <2>3, ClientAfterRead
<1>13. ServerAt(S, b) => ServerAt(S, b + n)'
  <2> SUFFICES ASSUME ServerAt(S, b) PROVE ServerAt(S, b + n)'
    OBVIOUS
  <2>1. j <= Len(images) /\ b + fileSize = S[j] + images[j]
    BY <1>1 DEF ServerAt
  <2>2. (b + n) + fileSize' = b + fileSize
    BY <1>3, <1>7, <1>9
  <2>3. Current' = j
    BY <1>1 DEF Current
  <2>4. QED  BY <1>1, <2>1, <2>2, <2>3 DEF ServerAt
<1>14. Sync'
  <2>1. b + n \in Nat
    BY <1>3, <1>7
  <2>2. QED  BY <1>1, <1>7, <1>8, <1>10, <1>12, <1>13, <2>1 DEF Sync
<1>15. FileOK'
  <2>1. CASE Dead /\ file = <<>>
    <3>1. n = 0 /\ Len(file') = 0
      BY <1>6, <1>10, <2>1, EmptySeq
    <3>2. file' = <<>>
      BY <1>6, <3>1, LenZero
    <3>3. QED  BY <1>10, <2>1, <3>2 DEF FileOK
  <2>2. CASE Begun(file, fileSize)
    <3>1. /\ j <= Len(images) /\ j \in 1 .. Len(images)
          /\ Len(file) + fileSize = images[j]
          /\ \A k \in 1 .. Len(file) : file[k] = Byte(j, k)
      BY <1>2, <2>2 DEF Begun
    <3>2. Len(file') + fileSize' = images[j]
      <4>1. Len(file') = Len(file) + n /\ fileSize' + n = fileSize
        BY <1>6, <1>9
      <4>2. Len(file) \in Nat /\ n \in Nat /\ fileSize' \in Nat /\ fileSize \in Nat
        BY <1>2, <1>3, <1>6, <1>9
      <4>3. Len(file) + fileSize = images[j]
        BY <3>1
      <4> DEFINE f == Len(file)
                 i == images[j]
      <4>4. (f + n) + fileSize' = i
        <5>1. f \in Nat /\ f + fileSize = i
          BY <4>2, <4>3
        <5>2. n \in Nat /\ fileSize' \in Nat /\ fileSize = fileSize' + n
          BY <4>1, <4>2
        <5> HIDE DEF f, i
        <5>3. f + (fileSize' + n) = i
          BY <5>1, <5>2
        <5>4. QED  BY <5>1, <5>2, <5>3
      <4>5. QED  BY <4>1, <4>4
    <3>3. ASSUME NEW k \in 1 .. n
          PROVE  u[k] = Byte(j, Len(file) + k)
      <4>1. ServerAt(S, b)
        <5>1. n # 0
          BY <1>3
        <5>2. QED  BY <1>7, <1>10, <5>1
      <4>2. b + fileSize = S[j] + images[j]
        BY <1>1, <4>1 DEF ServerAt
      <4>3. S[j] \in Nat /\ images[j] \in Nat /\ b \in Nat
        <5>1. j \in 1 .. Len(images) + 1 /\ S \in [1 .. Len(images) + 1 -> Nat]
          BY <1>2, <1>7, <3>1 DEF Layout
        <5>2. images[j] \in Nat /\ b \in Nat
          BY <1>2, <1>7, <3>1
        <5> HIDE DEF j
        <5>3. QED  BY <5>1, <5>2
      <4>4. b + k = S[j] + (Len(file) + k)
        <5>1. Len(file) \in Nat /\ fileSize \in Nat /\ k \in Nat
          BY <1>2, <1>6
        <5>2. Len(file) + fileSize = images[j]
          BY <3>1
        <5> DEFINE f == Len(file)
                   i == images[j]
                   h == S[j]
        <5>3. /\ f \in Nat /\ i \in Nat /\ h \in Nat /\ b \in Nat
              /\ f + fileSize = i /\ b + fileSize = h + i
          BY <4>2, <4>3, <5>1, <5>2
        <5> HIDE DEF f, i, h
        <5>4. b + k = h + (f + k)
          BY <5>1, <5>3
        <5>5. QED  BY <5>4 DEF f, h
      <4>5. Len(file) + k <= images[j] /\ 1 <= Len(file) + k
        BY <1>2, <1>3, <1>6, <3>1, <4>3
      <4> DEFINE p == b + k
      <4>6. p = S[j] + (Len(file) + k)
        BY <4>4
      <4> HIDE DEF p
      <4>7. /\ S[j] <= p /\ p <= S[j] + images[j] /\ p # S[j]
            /\ p - S[j] = Len(file) + k
        BY <1>6, <4>3, <4>5, <4>6
      <4>8. j \in 1 .. Len(images) + 1
        BY <1>2, <3>1
      <4>9. wire[k] = ItemAt(images, S, j, p)
        <5>1. k \in 1 .. Len(wire)
          BY <1>5
        <5>2. images \in Seq(Nat) /\ wire \in Seq(Item)
          BY <1>2
        <5>3. Layout(images, S) /\ OnWire(images, S, wire, b) /\ b \in Nat
          BY <1>7
        <5>4. S[j] <= b + k /\ (j <= Len(images) => b + k <= S[j] + images[j])
          BY <4>7 DEF p
        <5> HIDE DEF j
        <5>5. QED  BY <4>8, <5>1, <5>2, <5>3, <5>4, WhatIsRead DEF p
      <4>10. u[k] = wire[k]
        BY <1>5 DEF u
      <4>11. QED  BY <4>7, <4>9, <4>10 DEF ItemAt
    <3>4. ASSUME NEW k \in 1 .. Len(file')
          PROVE  file'[k] = Byte(j, k)
      <4>1. k \in 1 .. Len(file) + n
        BY <1>6
      <4>2. CASE k <= Len(file)
        <5>1. k \in 1 .. Len(file)
          BY <1>6, <4>1, <4>2
        <5>2. QED  BY <1>6, <3>1, <4>1, <4>2, <5>1
      <4>3. CASE ~(k <= Len(file))
        <5>1. k - Len(file) \in 1 .. n /\ Len(file) + (k - Len(file)) = k
          BY <1>3, <1>6, <4>1, <4>3
        <5>2. file'[k] = u[k - Len(file)]
          BY <1>6, <4>1, <4>3
        <5>3. u[k - Len(file)] = Byte(j, Len(file) + (k - Len(file)))
          BY <3>3, <5>1
        <5>4. QED  BY <5>1, <5>2, <5>3
      <4>4. QED  BY <4>2, <4>3
    <3>5. Current' = j
      BY <1>1 DEF Current
    <3>6. Begun(file, fileSize)'
      BY <1>1, <3>1, <3>2, <3>4, <3>5 DEF Begun
    <3>7. QED  BY <3>6 DEF FileOK
  <2>3. QED  BY <1>1, <2>1, <2>2 DEF IInv, FileOK
<1>16. ReceivedWhole'
  BY <1>1, ReceivedSame DEF IInv
<1>17. QED  BY <1>11, <1>14, <1>15, <1>16 DEF IInv

LEMMA ImageReceivedStep == IInv /\ ImageReceived => IInv'
<1> SUFFICES ASSUME IInv, ImageReceived PROVE IInv'
  OBVIOUS
<1> USE DEF clientVars
<1> DEFINE n == Len(received)
<1>1. /\ serverPc = "bytes" /\ fileSize = 0 /\ serverPc' = "size"
      /\ received' = IF n <= MaxImages THEN Append(received, file) ELSE received
      /\ UNCHANGED <<clientPc, images, offset, wire, ended, fileSize, file>>
  BY DEF ImageReceived
<1>2. /\ images \in Seq(Nat) /\ Len(images) \in Nat
      /\ \A i \in 1 .. Len(images) : images[i] \in Nat
      /\ received \in Seq(Seq(Item)) /\ n \in Nat
      /\ file \in Seq(Item)
      /\ Len(images) <= MaxImages
      /\ Current = n + 1
  BY Basics, LenProperties DEF IInv, Types, TypeOK, Current
<1>3. PICK S, b : /\ b \in Nat
                  /\ Layout(images, S)
                  /\ OnWire(images, S, wire, b)
                  /\ ClientAt(S, b)
                  /\ Dead \/ ServerAt(S, b)
  BY DEF IInv, Sync
<1> DEFINE r == Append(received, file)
<1>4. /\ r \in Seq(Seq(Item)) /\ Len(r) = n + 1
      /\ \A i \in 1 .. n : r[i] = received[i]
      /\ r[n + 1] = file
  BY <1>2, AppendProperties
<1>5. DOMAIN received = 1 .. n /\ DOMAIN r = 1 .. n + 1
  BY <1>2, <1>4, LenProperties
<1>6. received' = IF n <= MaxImages THEN r ELSE received
  BY <1>1
<1> HIDE DEF r, n
<1>7. Types'
  <2>1. received' \in Seq(Seq(Item))
    BY <1>2, <1>4, <1>6
  <2>2. QED  BY <1>1, <2>1 DEF IInv, Types, TypeOK
<1>8. ClientAt(S, b)' /\ (Dead => Dead')
  BY <1>1, <1>3 DEF ClientAt, Dead
<1>9. ServerAt(S, b) => ServerAt(S, b)'
  <2> SUFFICES ASSUME ServerAt(S, b) PROVE ServerAt(S, b)'
    OBVIOUS
  <2>1. n + 1 <= Len(images) /\ b + fileSize = S[n + 1] + images[n + 1]
    BY <1>1, <1>2 DEF ServerAt
  <2>2. n + 1 \in 1 .. Len(images) /\ n <= MaxImages
    BY <1>2, <2>1, BoundAssumption
  <2>3. received' = r /\ Current' = (n + 1) + 1
    BY <1>4, <1>6, <2>2 DEF Current
  <2>4. S[(n + 1) + 1] = S[n + 1] + 1 + images[n + 1]
    BY <1>3, <2>2 DEF Layout
  <2>5. S[n + 1] \in Nat /\ images[n + 1] \in Nat
    <3>1. n + 1 \in 1 .. Len(images) + 1
      BY <1>2, <2>2
    <3>2. QED  BY <1>2, <1>3, <2>2, <3>1 DEF Layout
  <2>6. b + 1 = S[(n + 1) + 1]
    BY <1>1, <1>3, <2>1, <2>4, <2>5
  <2>7. (n + 1) + 1 <= Len(images) + 1
    BY <1>2, <2>2
  <2>8. QED  BY <1>1, <2>3, <2>6, <2>7 DEF ServerAt
<1>10. Sync'
  BY <1>1, <1>3, <1>8, <1>9 DEF Sync
<1>11. FileOK'
  BY <1>1 DEF FileOK
<1>12. ReceivedWhole'
  <2>1. ASSUME NEW j \in 1 .. n, received[j] # <<>>
        PROVE  j <= Len(images) /\ received[j] = Image(j)
    BY <1>5, <2>1 DEF IInv, ReceivedWhole
  <2>2. ASSUME file # <<>>
        PROVE  n + 1 <= Len(images) /\ file = Image(n + 1)
    <3>1. Begun(file, fileSize)
      BY <1>1, <2>2 DEF IInv, FileOK
    <3>2. /\ n + 1 <= Len(images)
          /\ Len(file) + fileSize = images[n + 1]
          /\ \A k \in 1 .. Len(file) : file[k] = Byte(n + 1, k)
      BY <1>2, <3>1 DEF Begun
    <3>3. DOMAIN file = 1 .. Len(file) /\ Len(file) \in Nat
          /\ file = [k \in 1 .. Len(file) |-> file[k]]
      BY <1>2, LenProperties
    <3>4. Len(file) = images[n + 1]
      BY <1>1, <3>2, <3>3
    <3>5. QED  BY <3>2, <3>3, <3>4 DEF Image
  <2>3. \A i \in 1 .. n + 1 : i \in 1 .. n \/ i = n + 1
    BY <1>2
  <2>4. ASSUME NEW j \in DOMAIN received', received'[j] # <<>>
        PROVE  j <= Len(images) /\ received'[j] = Image(j)
    <3>1. CASE n <= MaxImages
      <4>1. received' = r /\ j \in 1 .. n + 1
        BY <1>5, <1>6, <3>1
      <4>2. QED  BY <1>4, <2>1, <2>2, <2>3, <2>4, <4>1
    <3>2. CASE ~(n <= MaxImages)
      BY <1>5, <1>6, <2>1, <2>4, <3>2
    <3>3. QED  BY <3>1, <3>2
  <2>5. QED  BY <1>1, <2>4 DEF ReceivedWhole, Image
<1>13. QED  BY <1>7, <1>10, <1>11, <1>12 DEF IInv

-----------------------------------------------------------------------------
LEMMA InitInv == Init => IInv
<1> SUFFICES ASSUME Init PROVE IInv
  OBVIOUS
<1>1. /\ images = <<>> /\ wire = <<>> /\ file = <<>> /\ received = <<>>
      /\ clientPc = "input" /\ serverPc = "size" /\ ended = "no"
      /\ offset = 0 /\ fileSize = 0
  BY DEF Init
<1>2. /\ \A T : <<>> \in Seq(T)
      /\ Len(<<>>) = 0
  BY EmptySeq
<1>3. Types
  BY <1>1, <1>2, BoundAssumption DEF Types, TypeOK
<1>4. Sync
  <2> DEFINE S == [i \in 1 .. 1 |-> 1]
  <2>1. S[1] = 1 /\ S \in [1 .. 1 -> Nat]
    OBVIOUS
  <2> HIDE DEF S
  <2>2. Len(images) = 0 /\ Len(wire) = 0 /\ Len(received) = 0
    BY <1>1, <1>2
  <2>3. Layout(images, S)
    <3>1. Len(images) + 1 = 1
      BY <2>2
    <3>2. \A i \in 1 .. Len(images) : FALSE
      BY <2>2
    <3>3. QED  BY <2>1, <3>1, <3>2 DEF Layout
  <2>4. OnWire(images, S, wire, 0)
    BY <2>2 DEF OnWire
  <2>5. ClientAt(S, 0)
    BY <1>1, <2>1, <2>2 DEF ClientAt
  <2>6. ServerAt(S, 0)
    BY <1>1, <2>1, <2>2 DEF ServerAt, Current
  <2>7. QED  BY <2>3, <2>4, <2>5, <2>6 DEF Sync
<1>5. FileOK
  BY <1>1 DEF FileOK
<1>6. ReceivedWhole
  <2>1. DOMAIN received = {}
    BY <1>1, EmptySeq
  <2>2. QED  BY <2>1 DEF ReceivedWhole
<1>7. QED  BY <1>3, <1>4, <1>5, <1>6 DEF IInv

LEMMA Invariance == Spec => []IInv
<1>1. IInv /\ UNCHANGED vars => IInv'
  <2> SUFFICES ASSUME IInv, UNCHANGED vars PROVE IInv'
    OBVIOUS
  <2>1. UNCHANGED <<clientPc, images, offset, wire, ended, serverPc, fileSize,
                    file, received>>
    BY DEF vars, clientVars, serverVars
  <2>2. Types' /\ FileOK' /\ ReceivedWhole'
    BY <2>1 DEF IInv, Types, TypeOK, FileOK, Begun, Dead, Current, ReceivedWhole, Image
  <2>3. Sync'
    BY <2>1 DEF IInv, Sync, ClientAt, ServerAt, Dead, Current
  <2>4. QED  BY <2>2, <2>3 DEF IInv
<1>2. IInv /\ [Next]_vars => IInv'
  BY <1>1, BeginImageStep, WriteSizeStep, WriteChunkStep, ConnectionStep,
     ReadSizeStep, OpenFileStep, ReadBytesStep, ImageReceivedStep
     DEF Next, ClientStep, ServerStep
<1>3. QED  BY InitInv, <1>2, PTL DEF Spec

(* Every variable keeps its type: the unsigned fileSize never goes below 0,*)
(* and the client never writes past the end of its file.                   *)
THEOREM TypeCorrect == Spec => []TypeOK
<1>1. IInv => TypeOK
  BY DEF IInv, Types
<1>2. QED  BY Invariance, <1>1, PTL

(* The server looks for a size exactly where the client wrote one, and     *)
(* takes nothing but an image's bytes for its bytes, whatever the sizes are*)
(* modulo the buffers and wherever its reads and the end of the connection *)
(* cut the stream.                                                         *)
THEOREM InStepCorrect == Spec => []InStep
<1>1. IInv => InStep
  <2> SUFFICES ASSUME IInv PROVE InStep
    OBVIOUS
  <2>1. /\ images \in Seq(Nat) /\ Len(images) \in Nat
        /\ \A i \in 1 .. Len(images) : images[i] \in Nat
        /\ wire \in Seq(Item) /\ Len(wire) \in Nat /\ fileSize \in Nat
        /\ Current <= Len(images) + 1 => Current \in 1 .. Len(images) + 1
        /\ Current <= Len(images) => Current \in 1 .. Len(images)
    BY Basics DEF IInv
  <2>2. PICK S, b : /\ b \in Nat
                    /\ Layout(images, S)
                    /\ OnWire(images, S, wire, b)
                    /\ Dead \/ ServerAt(S, b)
    BY DEF IInv, Sync
  <2> DEFINE j == Current
  <2>3. \A i \in 1 .. Len(images) + 1 : S[i] \in Nat
    BY <2>2 DEF Layout
  <2>4. ASSUME wire # <<>>
        PROVE  ServerAt(S, b) /\ 1 \in 1 .. Len(wire) /\ Head(wire) = wire[1]
    <3>1. Len(wire) # 0
      BY <2>1, <2>4, LenZero
    <3>2. QED  BY <2>1, <2>2, <2>4, <3>1, HeadTailProperties DEF Dead
  <2>5. ASSUME NEW k \in 1 .. Len(wire), j \in 1 .. Len(images) + 1, S[j] <= b + k,
               j <= Len(images) => b + k <= S[j] + images[j]
        PROVE  j \in 1 .. Len(images) /\ wire[k] = ItemAt(images, S, j, b + k)
    <3>1. b \in Nat /\ Layout(images, S) /\ OnWire(images, S, wire, b)
      BY <2>2
    <3>2. images \in Seq(Nat) /\ wire \in Seq(Item)
      BY <2>1
    <3> HIDE DEF j
    <3>3. QED  BY <2>5, <3>1, <3>2, WhatIsRead
  <2>6. ASSUME serverPc = "size", wire # <<>>
        PROVE  "size" \in DOMAIN Head(wire)
    <3>1. j <= Len(images) + 1 /\ b + 1 = S[j]
      BY <2>4, <2>6 DEF ServerAt
    <3>2. j \in 1 .. Len(images) + 1 /\ S[j] \in Nat
      BY <2>1, <2>3, <3>1
    <3>3. S[j] <= b + 1 /\ (j <= Len(images) => b + 1 <= S[j] + images[j])
      BY <2>1, <3>1, <3>2
    <3>4. j \in 1 .. Len(images) /\ wire[1] = ItemAt(images, S, j, b + 1)
      BY <2>4, <2>5, <2>6, <3>2, <3>3
    <3>5. Head(wire) = Size(images[j]) /\ images[j] \in Nat
      BY <2>1, <2>4, <2>6, <3>1, <3>4 DEF ItemAt
    <3>6. QED  BY <3>5, Items
  <2>7. ASSUME serverPc \in {"open", "bytes"}, NEW k \in 1 .. Smaller(fileSize, Len(wire))
        PROVE  "image" \in DOMAIN wire[k]
    <3>1. k \in 1 .. Len(wire) /\ k <= fileSize
      BY <2>1 DEF Smaller
    <3>2. wire # <<>>
      BY <3>1, EmptySeq
    <3>3. /\ j <= Len(images)
          /\ \/ b = S[j] /\ fileSize = images[j]
             \/ b + fileSize = S[j] + images[j]
      BY <2>4, <2>7, <3>2 DEF ServerAt
    <3>4. j \in 1 .. Len(images) /\ j \in 1 .. Len(images) + 1
      BY <2>1, <3>3
    <3> DEFINE h == S[j]
               i == images[j]
    <3>5. h \in Nat /\ i \in Nat /\ b + fileSize = h + i
      BY <2>1, <2>3, <3>3, <3>4
    <3>6. fileSize <= i
      <4>1. CASE serverPc = "open"
        BY <2>4, <2>7, <3>2, <3>5, <4>1 DEF ServerAt
      <4>2. CASE serverPc = "bytes"
        <5>1. \/ Dead
              \/ Begun(file, fileSize)
          BY <4>2 DEF IInv, FileOK
        <5>2. Len(file) + fileSize = i /\ Len(file) \in Nat
          BY <3>2, <5>1, LenProperties DEF Dead, Begun, IInv, Types
        <5> DEFINE f == Len(file)
        <5>3. f + fileSize = i /\ f \in Nat
          BY <5>2
        <5> HIDE DEF f, i
        <5>4. QED  BY <2>1, <5>3
      <4>3. QED  BY <2>7, <4>1, <4>2
    <3> HIDE DEF h, i
    <3> DEFINE p == b + k
    <3>7. h <= p /\ p <= h + i /\ p # h /\ p - h \in Nat /\ p = b + k
      BY <2>1, <2>2, <3>1, <3>5, <3>6
    <3> HIDE DEF p
    <3>8. S[j] <= b + k /\ b + k <= S[j] + images[j]
      BY <3>7 DEF h, i
    <3>9. wire[k] = ItemAt(images, S, j, b + k)
      BY <2>5, <3>1, <3>4, <3>8
    <3>10. wire[k] = Byte(j, p - h)
      <4>1. wire[k] = ItemAt(images, S, j, p) /\ p # S[j]
        BY <3>7, <3>9 DEF h
      <4>2. QED  BY <4>1 DEF ItemAt, h
    <3>11. j \in Nat
      BY <3>4
    <3>12. QED  BY <3>7, <3>10, <3>11, Items
  <2>8. QED  BY <2>6, <2>7 DEF InStep
<1>2. QED  BY Invariance, <1>1, PTL

(* What the server calls received is nothing, or the whole of the image    *)
(* sent at that place, also when the connection ends inside an image and   *)
(* both sides ignore it.                                                   *)
THEOREM ReceivedCorrect == Spec => []ReceivedWhole
<1>1. IInv => ReceivedWhole
  BY DEF IInv
<1>2. QED  BY Invariance, <1>1, PTL
=============================================================================
