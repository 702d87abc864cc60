------------------------- MODULE PacketFramingProofs -------------------------
(***************************************************************************)
(* Proofs about PacketFraming for any header, buffer and packet sizes that *)
(* meet SizeAssumption, and any number of packets and connections.         *)
(***************************************************************************)
EXTENDS PacketFraming, SequenceTheorems, TLAPS

(* The first n bytes from pos on are the bytes of the stream that follow   *)
(* the packets already processed.                                          *)
Window(pos, n) ==
    \A i \in 0 .. n - 1 : m_PacketBuffer[pos + i] = cut[Len(processed)] + 1 + i

(* Between handlers the kept bytes are a proper part of the next packet;   *)
(* in the loop they are everything received and not yet processed.         *)
WindowOK ==
    /\ pc = "idle" =>
          /\ received = cut[Len(processed)] + m_nPacketBufferMark
          /\ Window(0, m_nPacketBufferMark)
          /\ m_nPacketBufferMark <= RB
          /\ NoneHeldBack
    /\ pc = "loop" =>
          /\ received = cut[Len(processed)] + nPacketData
          /\ Window(nReadData, nPacketData)
          /\ nReadData + nPacketData <= 2 * RB

IInv == TypeOK /\ PacketsIntact /\ WindowOK

-----------------------------------------------------------------------------
(* What is known of the sizes and of the stream.                           *)
LEMMA StreamFacts ==
  ASSUME TypeOK, PacketsIntact
  PROVE  /\ RB \in Nat \ {0} /\ HeaderLen \in Nat \ {0} /\ HeaderLen <= RB
         /\ NPackets \in Nat
         /\ cut \in [0 .. NPackets -> Nat]
         /\ cut[0] = 0
         /\ \A k \in 1 .. NPackets : cut[k] - cut[k - 1] \in HeaderLen .. RB
         /\ \A j, k \in 0 .. NPackets : j < k => cut[j] < cut[k]
         /\ Len(processed) \in 0 .. NPackets
         /\ received \in Nat /\ received <= cut[NPackets]
         /\ m_nPacketBufferMark \in Nat /\ nPacketData \in Nat /\ nReadData \in Nat
<1>1. RB \in Nat \ {0} /\ HeaderLen \in Nat \ {0} /\ HeaderLen <= RB /\ NPackets \in Nat
  BY SizeAssumption, BoundAssumption DEF RB
<1>2. NPackets * RB \in Nat
  BY <1>1
<1>3. /\ cut \in [0 .. NPackets -> 0 .. NPackets * RB]
      /\ cut[0] = 0
      /\ \A k \in 1 .. NPackets : cut[k] - cut[k - 1] \in HeaderLen .. RB
      /\ \A j, k \in 0 .. NPackets : j < k => cut[j] < cut[k]
  BY DEF TypeOK, Streams
<1>4. 0 .. NPackets * RB \subseteq Nat /\ 0 .. 2 * RB \subseteq Nat
  BY <1>1, <1>2
<1>5. cut \in [0 .. NPackets -> Nat]
  BY <1>3, <1>4
<1>6. Len(processed) \in Nat /\ Len(processed) <= NPackets
  BY LenProperties DEF TypeOK, PacketsIntact
<1>7. cut[NPackets] \in Nat
  BY <1>1, <1>5
<1>8. received \in Nat /\ received <= cut[NPackets]
  BY <1>7 DEF TypeOK
<1>9. m_nPacketBufferMark \in Nat /\ nPacketData \in Nat /\ nReadData \in Nat
  BY <1>4 DEF TypeOK
<1>10. Len(processed) \in 0 .. NPackets
  BY <1>1, <1>6
<1>11. QED  BY <1>1, <1>3, <1>5, <1>8, <1>9, <1>10

(* Where at least a header's worth of unprocessed bytes is left, the next  *)
(* packet exists and its header is what stands there.                      *)
LEMMA NextHeader ==
  ASSUME IInv, pc = "loop", nPacketData >= HeaderLen
  PROVE  /\ Len(processed) + 1 \in 1 .. NPackets
         /\ NSizeAt(nReadData) = {cut[Len(processed) + 1] - cut[Len(processed)]}
<1> DEFINE d == Len(processed)
<1> TypeOK /\ PacketsIntact /\ WindowOK
  BY DEF IInv
<1>1. /\ RB \in Nat \ {0} /\ HeaderLen \in Nat \ {0}
      /\ NPackets \in Nat
      /\ cut \in [0 .. NPackets -> Nat]
      /\ \A j, k \in 0 .. NPackets : j < k => cut[j] < cut[k]
      /\ d \in 0 .. NPackets
      /\ received <= cut[NPackets]
      /\ nPacketData \in Nat /\ nReadData \in Nat
  BY StreamFacts
<1>2. received = cut[d] + nPacketData /\ Window(nReadData, nPacketData)
  BY DEF WindowOK
<1>3. d + 1 \in 1 .. NPackets
  <2>1. cut[d] \in Nat /\ cut[NPackets] \in Nat
    BY <1>1
  <2>2. cut[d] < cut[NPackets]
    BY <1>1, <1>2, <2>1
  <2>3. d # NPackets
    BY <2>1, <2>2
  <2>4. QED  BY <1>1, <2>3
<1>4. \A j \in 0 .. HeaderLen - 1 : m_PacketBuffer[nReadData + j] = cut[d] + 1 + j
  <2>1. \A j \in 0 .. HeaderLen - 1 : j \in 0 .. nPacketData - 1
    BY <1>1
  <2>2. QED  BY <1>2, <2>1 DEF Window
<1>5. IsPacketAt(nReadData, d + 1)
  <2>1. (d + 1) - 1 = d
    BY <1>1
  <2>2. QED  BY <1>4, <2>1 DEF IsPacketAt
<1>6. ASSUME NEW k \in 1 .. NPackets, IsPacketAt(nReadData, k)
      PROVE  k = d + 1
  <2>1. 0 \in 0 .. HeaderLen - 1
    BY <1>1
  <2>2. m_PacketBuffer[nReadData + 0] = cut[k - 1] + 1 + 0
    BY <1>6, <2>1 DEF IsPacketAt
  <2>3. m_PacketBuffer[nReadData + 0] = cut[d] + 1 + 0
    BY <1>4, <2>1
  <2>4. k - 1 \in 0 .. NPackets /\ d \in 0 .. NPackets
    BY <1>1
  <2>5. cut[k - 1] \in Nat /\ cut[d] \in Nat
    BY <1>1, <2>4
  <2>6. cut[k - 1] = cut[d]
    BY <2>2, <2>3, <2>5
  <2>7. ~(k - 1 < d) /\ ~(d < k - 1)
    BY <1>1, <2>4, <2>5, <2>6
  <2>8. QED  BY <1>1, <2>4, <2>7
<1>7. {k \in 1 .. NPackets : IsPacketAt(nReadData, k)} = {d + 1}
  BY <1>3, <1>5, <1>6
<1>8. NSizeAt(nReadData) = {cut[d + 1] - cut[(d + 1) - 1]}
  BY <1>7 DEF NSizeAt
<1>9. (d + 1) - 1 = d
  BY <1>1
<1>10. QED  BY <1>3, <1>8, <1>9

-----------------------------------------------------------------------------
LEMMA InitInv == Init => IInv
<1> SUFFICES ASSUME Init PROVE IInv
  OBVIOUS
<1>1. RB \in Nat \ {0} /\ NPackets \in Nat
  BY SizeAssumption, BoundAssumption DEF RB
<1>2. NPackets * RB \in Nat
  BY <1>1
<1>3. /\ cut \in [0 .. NPackets -> 0 .. NPackets * RB]
      /\ cut[0] = 0
      /\ \A j, k \in 0 .. NPackets : j < k => cut[j] < cut[k]
  BY DEF Init, Streams
<1>4. processed = <<>> /\ Len(processed) = 0 /\ DOMAIN processed = {}
  BY DEF Init
<1>5. TypeOK
  BY <1>1, <1>2, <1>3, <1>4, BoundAssumption DEF Init, TypeOK, Stale, Slots
<1>6. PacketsIntact
  BY <1>1, <1>4 DEF PacketsIntact
<1>7. NoneHeldBack
  <2> SUFFICES ASSUME NEW k \in 1 .. NPackets, cut[k] <= received
               PROVE  FALSE
    BY DEF NoneHeldBack
  <2>1. cut[0] < cut[k] /\ cut[k] \in Nat
    BY <1>1, <1>2, <1>3
  <2>2. QED  BY <1>3, <2>1 DEF Init
<1>8. WindowOK
  BY <1>1, <1>3, <1>4, <1>7 DEF Init, WindowOK, Window
<1>9. QED  BY <1>5, <1>6, <1>8 DEF IInv

LEMMA ReceiveStep ==
  ASSUME IInv, NEW n \in 1 .. RB, HandleReceive(n)
  PROVE  IInv'
<1> TypeOK /\ PacketsIntact /\ WindowOK
  BY DEF IInv
<1>1. /\ RB \in Nat \ {0}
      /\ NPackets \in Nat
      /\ cut \in [0 .. NPackets -> Nat]
      /\ Len(processed) \in 0 .. NPackets
      /\ received \in Nat /\ received <= cut[NPackets]
      /\ m_nPacketBufferMark \in Nat
      /\ n \in Nat /\ 1 <= n /\ n <= RB
  BY StreamFacts
<1>2. /\ cut[Len(processed)] \in Nat /\ cut[NPackets] \in Nat
      /\ received = cut[Len(processed)] + m_nPacketBufferMark
      /\ Window(0, m_nPacketBufferMark)
      /\ m_nPacketBufferMark <= RB
  BY <1>1 DEF HandleReceive, WindowOK
<1>3. m_PacketBuffer' =
         [i \in Slots |-> IF i \in m_nPacketBufferMark .. m_nPacketBufferMark + n - 1
                          THEN received + 1 + (i - m_nPacketBufferMark)
                          ELSE m_PacketBuffer[i]]
  BY DEF HandleReceive
<1>4. /\ received' = received + n /\ received + n <= cut[NPackets]
      /\ nPacketData' = m_nPacketBufferMark + n /\ nReadData' = 0
      /\ pc' = "loop"
      /\ UNCHANGED <<cut, m_nPacketBufferMark, processed, connections>>
  BY DEF HandleReceive
<1>5. m_nPacketBufferMark + n \in 0 .. 2 * RB
  BY <1>1, <1>2
<1>6. m_PacketBuffer' \in [Slots -> Nat]
  <2> SUFFICES ASSUME NEW i \in Slots
               PROVE  (IF i \in m_nPacketBufferMark .. m_nPacketBufferMark + n - 1
                       THEN received + 1 + (i - m_nPacketBufferMark)
                       ELSE m_PacketBuffer[i]) \in Nat
    BY <1>3
  <2>1. i \in Int
    BY <1>1 DEF Slots
  <2>2. CASE i \in m_nPacketBufferMark .. m_nPacketBufferMark + n - 1
    BY <1>1, <2>1, <2>2
  <2>3. CASE i \notin m_nPacketBufferMark .. m_nPacketBufferMark + n - 1
    BY <2>3 DEF TypeOK
  <2>4. QED  BY <2>2, <2>3
<1>7. TypeOK'
  BY <1>1, <1>2, <1>4, <1>5, <1>6 DEF TypeOK
<1>8. PacketsIntact'
  BY <1>4 DEF PacketsIntact
<1>9. Window(nReadData, nPacketData)'
  <2> SUFFICES ASSUME NEW i \in 0 .. nPacketData' - 1
               PROVE  m_PacketBuffer'[nReadData' + i] = cut'[Len(processed')] + 1 + i
    BY DEF Window
  <2>0. i \in 0 .. m_nPacketBufferMark + n - 1 /\ nReadData' + i = 0 + i
    <3>1. nPacketData' = m_nPacketBufferMark + n /\ nReadData' = 0
      BY <1>4
    <3>2. m_nPacketBufferMark \in Nat /\ n \in Nat
      BY <1>1
    <3>3. QED  BY <3>1, <3>2
  <2>1. i \in Int /\ 0 <= i /\ i < m_nPacketBufferMark + n /\ i \in Slots /\ 0 + i = i
    BY <1>1, <1>5, <2>0 DEF Slots
  <2>5. cut'[Len(processed')] = cut[Len(processed)] /\ nReadData' + i = i
    BY <1>4, <2>0, <2>1
  <2>2. CASE i < m_nPacketBufferMark
    <3>1. i \notin m_nPacketBufferMark .. m_nPacketBufferMark + n - 1
      BY <1>1, <2>1, <2>2
    <3>2. i \in 0 .. m_nPacketBufferMark - 1
      BY <1>1, <2>1, <2>2
    <3>3. m_PacketBuffer[0 + i] = cut[Len(processed)] + 1 + i
      BY <1>2, <3>2 DEF Window
    <3>4. QED  BY <1>3, <2>1, <2>5, <3>1, <3>3
  <2>3. CASE ~(i < m_nPacketBufferMark)
    <3>1. i \in m_nPacketBufferMark .. m_nPacketBufferMark + n - 1
      BY <1>1, <2>1, <2>3
    <3>2. m_PacketBuffer'[i] = received + 1 + (i - m_nPacketBufferMark)
      BY <1>3, <2>1, <3>1
    <3>3. received + 1 + (i - m_nPacketBufferMark) = cut[Len(processed)] + 1 + i
      BY <1>1, <1>2, <2>1
    <3>4. QED  BY <2>5, <3>2, <3>3
  <2>4. QED  BY <2>2, <2>3
<1>10. WindowOK'
  BY <1>1, <1>2, <1>4, <1>5, <1>9 DEF WindowOK
<1>11. QED  BY <1>7, <1>8, <1>10 DEF IInv

LEMMA ProcessStep ==
  ASSUME IInv, NEW nSize \in 0 .. 2 * RB, ProcessPacket(nSize)
  PROVE  IInv'
<1> DEFINE d == Len(processed)
           packet == [i \in 1 .. nSize |-> m_PacketBuffer[nReadData + i - 1]]
<1> TypeOK /\ PacketsIntact /\ WindowOK
  BY DEF IInv
<1>1. /\ RB \in Nat \ {0} /\ HeaderLen \in Nat \ {0}
      /\ NPackets \in Nat
      /\ cut \in [0 .. NPackets -> Nat]
      /\ \A k \in 1 .. NPackets : cut[k] - cut[k - 1] \in HeaderLen .. RB
      /\ d \in 0 .. NPackets
      /\ received \in Nat
      /\ nPacketData \in Nat /\ nReadData \in Nat
  BY StreamFacts
<1>2. /\ pc = "loop" /\ nPacketData >= HeaderLen
      /\ nSize \in NSizeAt(nReadData) /\ nSize <= nPacketData
      /\ processed' = Append(processed, packet)
      /\ nPacketData' = nPacketData - nSize
      /\ nReadData' = nReadData + nSize
      /\ UNCHANGED <<cut, received, m_PacketBuffer, m_nPacketBufferMark, pc, connections>>
  BY DEF ProcessPacket
<1>3. /\ d + 1 \in 1 .. NPackets
      /\ nSize = cut[d + 1] - cut[d]
  BY <1>2, NextHeader
<1>4. /\ cut[d] \in Nat /\ cut[d + 1] \in Nat /\ nSize \in Nat
      /\ (d + 1) - 1 = d
  <2>1. (d + 1) - 1 = d
    BY <1>1
  <2>2. cut[d] \in Nat /\ cut[d + 1] \in Nat
    BY <1>1, <1>3
  <2>3. nSize \in HeaderLen .. RB
    BY <1>1, <1>3, <2>1
  <2>4. QED  BY <1>1, <2>1, <2>2, <2>3
<1>5. /\ received = cut[d] + nPacketData
      /\ Window(nReadData, nPacketData)
      /\ nReadData + nPacketData <= 2 * RB
  BY <1>2 DEF WindowOK
<1>6. \A i \in 1 .. nSize : m_PacketBuffer[nReadData + i - 1] = cut[d] + i
  <2> TAKE i \in 1 .. nSize
  <2>1. i - 1 \in 0 .. nPacketData - 1
    BY <1>1, <1>2, <1>4
  <2>2. m_PacketBuffer[nReadData + (i - 1)] = cut[d] + 1 + (i - 1)
    BY <1>5, <2>1 DEF Window
  <2>3. nReadData + (i - 1) = nReadData + i - 1 /\ cut[d] + 1 + (i - 1) = cut[d] + i
    BY <1>1, <1>4
  <2>4. QED  BY <2>2, <2>3
<1>7. packet = [i \in 1 .. nSize |-> cut[d] + i]
  BY <1>6
<1>8. packet \in Seq(Nat)
  <2>1. \A i \in 1 .. nSize : cut[d] + i \in Nat
    BY <1>4
  <2>2. [i \in 1 .. nSize |-> cut[d] + i] \in Seq(Nat)
    BY <1>4, <2>1
  <2>3. QED  BY <1>7, <2>2
<1> HIDE DEF packet
<1>9. /\ processed' \in Seq(Seq(Nat))
      /\ Len(processed') = d + 1
      /\ \A k \in 1 .. d : processed'[k] = processed[k]
      /\ processed'[d + 1] = packet
      /\ DOMAIN processed' = 1 .. d + 1 /\ DOMAIN processed = 1 .. d
  <2>1. processed \in Seq(Seq(Nat))
    BY DEF TypeOK
  <2>2. processed' \in Seq(Seq(Nat)) /\ Len(processed') = d + 1
        /\ (\A k \in 1 .. d : processed'[k] = processed[k])
        /\ processed'[d + 1] = packet
    BY <1>2, <1>8, <2>1, AppendProperties
  <2>3. QED  BY <2>1, <2>2, LenProperties
<1>10. TypeOK'
  <2>1. nPacketData - nSize \in 0 .. 2 * RB /\ nReadData + nSize \in 0 .. 2 * RB
    BY <1>1, <1>2, <1>4, <1>5
  <2>2. QED  BY <1>2, <1>9, <2>1 DEF TypeOK
<1>11. PacketsIntact'
  <2>1. Len(processed') <= NPackets
    BY <1>1, <1>3, <1>9
  <2>2. ASSUME NEW k \in 1 .. d + 1
        PROVE  processed'[k] = [i \in 1 .. cut[k] - cut[k - 1] |-> cut[k - 1] + i]
    <3>1. CASE k = d + 1
      <4>1. [i \in 1 .. cut[k] - cut[k - 1] |-> cut[k - 1] + i]
               = [i \in 1 .. nSize |-> cut[d] + i]
        BY <1>3, <1>4, <3>1
      <4>2. QED  BY <1>7, <1>9, <3>1, <4>1
    <3>2. CASE k # d + 1
      <4>1. k \in 1 .. d
        BY <1>1, <3>2
      <4>2. QED  BY <1>9, <4>1 DEF PacketsIntact
    <3>3. QED  BY <3>1, <3>2
  <2>3. cut' = cut /\ DOMAIN processed' = 1 .. d + 1
    BY <1>2, <1>9
  <2>4. \A k \in DOMAIN processed' :
           processed'[k] = [i \in 1 .. cut'[k] - cut'[k - 1] |-> cut'[k - 1] + i]
    BY <2>2, <2>3
  <2>5. QED  BY <2>1, <2>4 DEF PacketsIntact
<1>12. Window(nReadData, nPacketData)'
  <2> SUFFICES ASSUME NEW i \in 0 .. nPacketData - nSize - 1
               PROVE  m_PacketBuffer[nReadData + nSize + i] = cut[d + 1] + 1 + i
    BY <1>2, <1>9 DEF Window
  <2>1. nSize + i \in 0 .. nPacketData - 1
    BY <1>1, <1>2, <1>4
  <2>2. m_PacketBuffer[nReadData + (nSize + i)] = cut[d] + 1 + (nSize + i)
    BY <1>5, <2>1 DEF Window
  <2>3. nReadData + (nSize + i) = nReadData + nSize + i
    BY <1>1, <1>4
  <2>4. cut[d] + 1 + (nSize + i) = cut[d + 1] + 1 + i
    BY <1>3, <1>4
  <2>5. QED  BY <2>2, <2>3, <2>4
<1>13. WindowOK'
  <2>1. received' = cut'[Len(processed')] + nPacketData'
    <3>1. cut'[Len(processed')] = cut[d + 1] /\ received' = received
      BY <1>2, <1>9
    <3>2. received = cut[d + 1] + (nPacketData - nSize)
      <4>1. nPacketData \in Nat
        BY <1>1
      <4>2. QED  BY <1>3, <1>4, <1>5, <4>1
    <3>3. QED  BY <1>2, <3>1, <3>2
  <2>2. nReadData' + nPacketData' <= 2 * RB
    BY <1>1, <1>2, <1>4, <1>5
  <2>3. pc' = "loop"
    BY <1>2
  <2>4. QED  BY <1>12, <2>1, <2>2, <2>3 DEF WindowOK
<1>14. QED  BY <1>10, <1>11, <1>13 DEF IInv

LEMMA KeepStep ==
  ASSUME IInv, Keep
  PROVE  IInv'
<1> DEFINE d == Len(processed)
<1> TypeOK /\ PacketsIntact /\ WindowOK
  BY DEF IInv
<1>1. /\ RB \in Nat \ {0} /\ HeaderLen \in Nat \ {0} /\ HeaderLen <= RB
      /\ NPackets \in Nat
      /\ cut \in [0 .. NPackets -> Nat]
      /\ \A k \in 1 .. NPackets : cut[k] - cut[k - 1] \in HeaderLen .. RB
      /\ \A j, k \in 0 .. NPackets : j < k => cut[j] < cut[k]
      /\ d \in 0 .. NPackets
      /\ received \in Nat
      /\ nPacketData \in Nat /\ nReadData \in Nat
  BY StreamFacts
<1>2. /\ pc = "loop" /\ NoPacketComplete
      /\ m_PacketBuffer' =
           [i \in Slots |-> IF i < nPacketData THEN m_PacketBuffer[nReadData + i]
                            ELSE m_PacketBuffer[i]]
      /\ m_nPacketBufferMark' = nPacketData
      /\ pc' = "idle" /\ nPacketData' = 0 /\ nReadData' = 0
      /\ UNCHANGED <<cut, received, processed, connections>>
  BY DEF Keep
<1>3. /\ received = cut[d] + nPacketData
      /\ Window(nReadData, nPacketData)
      /\ nReadData + nPacketData <= 2 * RB
  BY <1>2 DEF WindowOK
<1>4. d + 1 \in 1 .. NPackets =>
         nPacketData < cut[d + 1] - cut[d] /\ cut[d + 1] - cut[d] <= RB
  <2> SUFFICES ASSUME d + 1 \in 1 .. NPackets
               PROVE  nPacketData < cut[d + 1] - cut[d] /\ cut[d + 1] - cut[d] <= RB
    OBVIOUS
  <2>1. cut[d + 1] - cut[(d + 1) - 1] \in HeaderLen .. RB /\ (d + 1) - 1 = d
    BY <1>1
  <2>2. cut[d + 1] \in Nat /\ cut[d] \in Nat
    BY <1>1
  <2>3. CASE nPacketData < HeaderLen
    BY <1>1, <2>1, <2>2, <2>3
  <2>4. CASE ~(nPacketData < HeaderLen)
    <3>1. nPacketData >= HeaderLen
      BY <1>1, <2>4
    <3>2. NSizeAt(nReadData) = {cut[d + 1] - cut[d]}
      BY <1>2, <3>1, NextHeader
    <3>3. \E nSize \in NSizeAt(nReadData) : nSize > nPacketData
      BY <1>2, <2>4 DEF NoPacketComplete
    <3>4. cut[d + 1] - cut[d] > nPacketData
      BY <3>2, <3>3
    <3>5. QED  BY <1>1, <2>1, <2>2, <3>4
  <2>5. QED  BY <2>3, <2>4
<1>5. nPacketData <= RB
  <2>1. CASE d + 1 \in 1 .. NPackets
    <3>1. cut[d + 1] \in Nat /\ cut[d] \in Nat
      BY <1>1, <2>1
    <3>2. QED  BY <1>1, <1>4, <2>1, <3>1
  <2>2. CASE d + 1 \notin 1 .. NPackets
    <3>1. nPacketData < HeaderLen
      <4>1. ~(nPacketData >= HeaderLen)
        BY <1>2, <2>2, NextHeader
      <4>2. QED  BY <1>1, <4>1
    <3>2. QED  BY <1>1, <3>1
  <2>3. QED  BY <2>1, <2>2
<1>6. m_PacketBuffer' \in [Slots -> Nat]
  <2> SUFFICES ASSUME NEW i \in Slots
               PROVE  (IF i < nPacketData THEN m_PacketBuffer[nReadData + i]
                       ELSE m_PacketBuffer[i]) \in Nat
    BY <1>2
  <2>1. i < nPacketData => nReadData + i \in Slots
    BY <1>1, <1>3 DEF Slots
  <2>2. QED  BY <2>1 DEF TypeOK
<1>7. TypeOK'
  <2>1. nPacketData \in 0 .. 2 * RB /\ 0 \in 0 .. 2 * RB
    BY <1>1, <1>5
  <2>2. QED  BY <1>2, <1>6, <2>1 DEF TypeOK
<1>8. PacketsIntact'
  BY <1>2 DEF PacketsIntact
<1>9. Window(0, m_nPacketBufferMark)'
  <2> SUFFICES ASSUME NEW i \in 0 .. nPacketData - 1
               PROVE  m_PacketBuffer'[0 + i] = cut[d] + 1 + i
    BY <1>2 DEF Window
  <2>1. i \in Slots /\ i < nPacketData /\ 0 + i = i
    BY <1>1, <1>5 DEF Slots
  <2>2. m_PacketBuffer[nReadData + i] = cut[d] + 1 + i
    BY <1>3 DEF Window
  <2>3. QED  BY <1>2, <2>1, <2>2
<1>10. NoneHeldBack'
  <2> SUFFICES ASSUME NEW k \in 1 .. NPackets, cut[k] <= received, ~(k <= d)
               PROVE  FALSE
    BY <1>2 DEF NoneHeldBack
  <2>0. d \in Nat /\ NPackets \in Nat /\ k \in Nat /\ 1 <= k /\ k <= NPackets
    BY <1>1
  <2>1. d + 1 \in 1 .. NPackets /\ k \in 0 .. NPackets /\ d + 1 <= k
    BY <2>0
  <2>2. cut[d + 1] \in Nat /\ cut[k] \in Nat /\ cut[d] \in Nat
    BY <1>1, <2>1
  <2>3. cut[d + 1] <= cut[k]
    <3>1. CASE k = d + 1
      BY <2>2, <3>1
    <3>2. CASE k # d + 1
      <4>1. d + 1 < k /\ d + 1 \in 0 .. NPackets
        BY <2>0, <2>1, <3>2
      <4>2. cut[d + 1] < cut[k]
        BY <1>1, <2>1, <4>1
      <4>3. QED  BY <2>2, <4>2
    <3>3. QED  BY <3>1, <3>2
  <2>4. received < cut[d + 1]
    <3>1. nPacketData < cut[d + 1] - cut[d] /\ received = cut[d] + nPacketData
      BY <1>3, <1>4, <2>0, <2>1
    <3>2. nPacketData \in Nat /\ received \in Nat
      BY <1>1
    <3>3. QED  BY <2>2, <3>1, <3>2
  <2>5. received \in Nat
    BY <1>1
  <2>6. QED  BY <2>2, <2>3, <2>4, <2>5
<1>11. WindowOK'
  BY <1>2, <1>3, <1>5, <1>9, <1>10 DEF WindowOK
<1>12. QED  BY <1>7, <1>8, <1>11 DEF IInv

LEMMA SessionInitStep ==
  ASSUME IInv, SessionInit
  PROVE  IInv'
<1> TypeOK
  BY DEF IInv
<1>1. /\ pc' = "idle" /\ cut' \in Streams /\ received' = 0
      /\ m_PacketBuffer' = [i \in Slots |-> Stale]
      /\ m_nPacketBufferMark' = 0
      /\ processed' = <<>>
      /\ connections' = connections + 1 /\ connections < MaxConnections
      /\ UNCHANGED <<nPacketData, nReadData>>
  BY DEF SessionInit
<1>2. RB \in Nat \ {0} /\ NPackets \in Nat
  BY SizeAssumption, BoundAssumption DEF RB
<1>3. NPackets * RB \in Nat
  BY <1>2
<1>4. /\ cut' \in [0 .. NPackets -> 0 .. NPackets * RB]
      /\ cut'[0] = 0
      /\ \A j, k \in 0 .. NPackets : j < k => cut'[j] < cut'[k]
  BY <1>1 DEF Streams
<1>5. processed' = <<>> /\ Len(processed') = 0 /\ DOMAIN processed' = {}
  BY <1>1
<1>6. TypeOK'
  <2>1. 0 \in 0 .. cut'[NPackets]
    BY <1>2, <1>3, <1>4
  <2>2. 0 \in 0 .. 2 * RB /\ connections' \in 1 .. MaxConnections
    BY <1>1, <1>2, BoundAssumption DEF TypeOK
  <2>3. m_PacketBuffer' \in [Slots -> Nat]
    BY <1>1 DEF Stale
  <2>4. QED  BY <1>1, <1>5, <2>1, <2>2, <2>3 DEF TypeOK
<1>7. PacketsIntact'
  BY <1>2, <1>5 DEF PacketsIntact
<1>8. NoneHeldBack'
  <2> SUFFICES ASSUME NEW k \in 1 .. NPackets, cut'[k] <= received'
               PROVE  FALSE
    BY DEF NoneHeldBack
  <2>1. cut'[0] < cut'[k] /\ cut'[k] \in Nat
    BY <1>2, <1>3, <1>4
  <2>2. QED  BY <1>1, <1>4, <2>1
<1>9. WindowOK'
  BY <1>1, <1>2, <1>4, <1>5, <1>8 DEF WindowOK, Window
<1>10. QED  BY <1>6, <1>7, <1>9 DEF IInv

-----------------------------------------------------------------------------
(* The inductive invariant: the unprocessed bytes stand in the buffer, in  *)
(* order and without a gap, where the loop, or the next read, expects them.*)
THEOREM Invariance == Spec => []IInv
<1>1. IInv /\ [Next]_vars => IInv'
  <2> SUFFICES ASSUME IInv, [Next]_vars PROVE IInv'
    OBVIOUS
  <2>1. CASE UNCHANGED vars
    BY <2>1 DEF vars, IInv, TypeOK, PacketsIntact, WindowOK, Window, NoneHeldBack
  <2>2. QED  BY <2>1, ReceiveStep, ProcessStep, KeepStep, SessionInitStep
             DEF Next, Loop
<1>2. QED  BY InitInv, <1>1, PTL DEF Spec

(* Marks and counters keep within the buffer, and received within what was *)
(* sent (m_nPacketBufferMark, nPacketData, nReadData).                     *)
THEOREM TypeCorrect == Spec => []TypeOK
<1>1. IInv => TypeOK
  BY DEF IInv
<1>2. QED  BY Invariance, <1>1, PTL

(* handle_receive passes exactly the packets that were sent to             *)
(* ProcessPacket, however TCP cuts the stream and whatever an earlier      *)
(* connection has left in the session's buffer.                            *)
THEOREM Framing == Spec => []PacketsIntact
<1>1. IInv => PacketsIntact
  BY DEF IInv
<1>2. QED  BY Invariance, <1>1, PTL

(* It holds back no packet that has arrived whole.                         *)
THEOREM Prompt == Spec => []NoneHeldBack
<1>1. IInv => NoneHeldBack
  BY DEF IInv, WindowOK, NoneHeldBack
<1>2. QED  BY Invariance, <1>1, PTL

(* Neither m_PacketBuffer nor TempBuffer is ever exceeded.                 *)
THEOREM Buffers == Spec => []BuffersSuffice
<1>1. IInv => BuffersSuffice
  <2> SUFFICES ASSUME IInv PROVE BuffersSuffice
    OBVIOUS
  <2>1. RB \in Nat /\ HeaderLen \in Nat /\ HeaderLen <= RB /\ m_nPacketBufferMark \in Nat
        /\ nPacketData \in Nat /\ cut \in [0 .. NPackets -> Nat] /\ NPackets \in Nat
        /\ (\A k \in 1 .. NPackets : cut[k] - cut[k - 1] \in HeaderLen .. RB)
        /\ Len(processed) \in 0 .. NPackets
    BY StreamFacts DEF IInv
  <2>2. pc = "idle" => m_nPacketBufferMark + RB <= 2 * RB
    BY <2>1 DEF IInv, WindowOK
  <2>3. pc = "loop" => nReadData + nPacketData <= 2 * RB
    BY DEF IInv, WindowOK
  <2>4. ASSUME pc = "loop", NoPacketComplete
        PROVE  nPacketData <= RB
    <3>1. CASE nPacketData < HeaderLen
      BY <2>1, <3>1
    <3>2. CASE nPacketData >= HeaderLen
      <4> DEFINE k == Len(processed) + 1
      <4>1. k \in 1 .. NPackets /\ NSizeAt(nReadData) = {cut[k] - cut[Len(processed)]}
        BY <2>4, <3>2, NextHeader
      <4>2. k - 1 = Len(processed)
        BY <2>1
      <4>3. cut[k] - cut[Len(processed)] \in HeaderLen .. RB
        BY <2>1, <4>1, <4>2
      <4>4. \E nSize \in NSizeAt(nReadData) : nSize > nPacketData
        BY <2>1, <2>4, <3>2 DEF NoPacketComplete
      <4>5. cut[k] - cut[Len(processed)] > nPacketData
        BY <4>1, <4>4
      <4>6. QED  BY <2>1, <4>3, <4>5
    <3>3. QED  BY <2>1, <3>1, <3>2
  <2>5. QED  BY <2>2, <2>3, <2>4 DEF BuffersSuffice
<1>2. QED  BY Invariance, <1>1, PTL
=============================================================================
