-------------------------- MODULE ChatClientProofs --------------------------
(***************************************************************************)
(* Proofs about ChatClient for any number of lines.                        *)
(***************************************************************************)
EXTENDS ChatClient, SequenceLemmas

Write == [data : Packet, st : {"going", "done"}]

(* m_lock is held by the thread inside a critical section, so there is     *)
(* never a thread in each.                                                 *)
LockHeld ==
    /\ m_lock = "main" <=> pc \in {"push", "write"}
    /\ m_lock = "io" <=> ioPc \in {"pop", "front", "send"}

(* What each thread knows where it stands: main, between its push and its  *)
(* size test, that its packet is queued, and alone only if nobody else will*)
(* see to it; the io thread, that there is a packet to write.              *)
Positions ==
    /\ pc \in {"enter", "push", "write"} => SendPkt \in Packet
    /\ pc = "write" =>
          /\ m_SendDataQueue # <<>>
          /\ Len(m_SendDataQueue) = 1 => Head(m_SendDataQueue) = SendPkt
          /\ writes # <<>> \/ ioPc \in {"enter", "enterSend"}
             => Len(m_SendDataQueue) >= 2
    /\ ioPc \in {"enterSend", "send"} => m_SendDataQueue # <<>>
    /\ pc = "end" => ioPc = "done"
    /\ pc \in {"join", "end"} => socket = "closed"

(* The words of OneWriter.                                                 *)
InHandler == ioPc \in {"enter", "pop"}
Owed == \/ ioPc \in {"enterSend", "send"}
        \/ ioPc = "front" /\ m_SendDataQueue # <<>>
        \/ pc = "write" /\ Len(m_SendDataQueue) = 1 /\ ~InHandler

(* FifoWhileConnected, and the same of the packets given up while the      *)
(* connection is not yet up: all of those posted may be.                   *)
FifoFrom(k) == wire \o Unsent = SubSeq(posted, k + 1, Len(posted))
Fifo ==
    /\ socket = "connecting" => wire = <<>>
    /\ socket = "connecting" => \E k \in 0 .. Len(posted) : FifoFrom(k)
    /\ socket = "connected" => \E k \in 0 .. upAt : FifoFrom(k)

IsConfirmed == \E i \in DOMAIN served : served[i] = "RES_IN"

(* No name is posted after a message, and no message before the server has *)
(* sent a RES_IN.                                                          *)
Ordered ==
    /\ \A i, j \in DOMAIN posted :
          i < j /\ posted[i].nID = "REQ_CHAT" => posted[j].nID = "REQ_CHAT"
    /\ \A i \in DOMAIN posted : posted[i].nID = "REQ_CHAT" =>
          m_bIsLogin /\ (pc \in {"enter", "push"} => SendPkt.nID = "REQ_CHAT")
    /\ SendPkt.nID = "REQ_CHAT" => m_bIsLogin
    /\ m_bIsLogin \/ (\E i \in DOMAIN inbox : inbox[i] = "RES_IN") => IsConfirmed

CInv == /\ TypeOK
        /\ LockHeld
        /\ Positions
        /\ OneWriter

-----------------------------------------------------------------------------
LEMMA CancelledFacts ==
  ASSUME TypeOK
  PROVE  /\ Cancelled \in Seq(Write)
         /\ Len(Cancelled) = Len(writes)
         /\ \A i \in 1 .. Len(writes) : /\ Cancelled[i].data = writes[i].data
                                        /\ Cancelled[i].st = "done"
         /\ Cancelled = <<>> <=> writes = <<>>
         /\ writes # <<>> => /\ Head(Cancelled).data = Head(writes).data
                             /\ Head(Cancelled).st = "done"
<1>1. writes \in Seq(Write) /\ DOMAIN writes = 1 .. Len(writes) /\ Len(writes) \in Nat
  BY LenProperties DEF TypeOK, Write
<1>2. \A i \in 1 .. Len(writes) : writes[i] \in Write
  BY <1>1, ElementOfSeq
<1>3. \A i \in 1 .. Len(writes) :
         [writes[i] EXCEPT !.st = "done"] = [data |-> writes[i].data, st |-> "done"]
  BY <1>2 DEF Write
<1>4. \A i \in 1 .. Len(writes) : [data |-> writes[i].data, st |-> "done"] \in Write
  BY <1>2 DEF Write
<1>5. Cancelled = [i \in 1 .. Len(writes) |-> [data |-> writes[i].data, st |-> "done"]]
  BY <1>1, <1>3 DEF Cancelled
<1>6. Cancelled \in [1 .. Len(writes) -> Write]
  BY <1>4, <1>5
<1>7. Cancelled \in Seq(Write)
  BY <1>1, <1>6, SeqDef
<1>8. Len(Cancelled) = Len(writes)
  BY <1>1, <1>6, <1>7, LenProperties
<1>9. \A i \in 1 .. Len(writes) : /\ Cancelled[i].data = writes[i].data
                                  /\ Cancelled[i].st = "done"
  BY <1>5
<1>10. Cancelled = <<>> <=> writes = <<>>
  BY <1>1, <1>7, <1>8, LenZero
<1>11. ASSUME writes # <<>>
       PROVE  Head(Cancelled).data = Head(writes).data /\ Head(Cancelled).st = "done"
  <2>1. Head(Cancelled) = Cancelled[1] /\ Head(writes) = writes[1]
    BY <1>1, <1>7, <1>10, <1>11, HeadTailProperties
  <2>2. 1 \in 1 .. Len(writes)
    BY <1>1, <1>11, EmptySeq
  <2>3. QED  BY <1>9, <2>1, <2>2
<1>12. QED  BY <1>7, <1>8, <1>9, <1>10, <1>11

LEMMA StartedFacts ==
  ASSUME NEW pkt \in Packet
  PROVE  /\ Started(pkt) \in Write
         /\ Started(pkt).data = pkt
         /\ Started(pkt).st = IF socket = "connected" THEN "going" ELSE "done"
BY DEF Started, Write

(* The transmission is of the only write there is.                         *)
LEMMA TransmitFacts ==
  ASSUME CInv, Transmit
  PROVE  /\ socket = "connected" /\ pc # "end"
         /\ writes # <<>> /\ Len(writes) = 1
         /\ Head(writes).st = "going"
         /\ m_SendDataQueue # <<>>
         /\ Head(writes).data = Head(m_SendDataQueue)
         /\ writes' \in Seq(Write) /\ Len(writes') = 1 /\ writes' # <<>>
         /\ Head(writes').data = Head(writes).data
         /\ Head(writes').st = "done"
         /\ wire' = Append(wire, Head(m_SendDataQueue))
         /\ UNCHANGED <<mainVars, ioPc, m_lock, m_SendDataQueue, socket, connecting,
                        reading, stopped, m_bIsLogin, serverVars, posted>>
<1>1. PICK i \in DOMAIN writes :
         /\ writes[i].st = "going"
         /\ writes' = [writes EXCEPT ![i].st = "done"]
         /\ wire' = Append(wire, writes[i].data)
  BY DEF Transmit
<1>2. socket = "connected" /\ pc # "end"
  BY DEF Transmit, CInv, Positions
<1>3. /\ writes \in Seq(Write) /\ DOMAIN writes = 1 .. Len(writes)
      /\ Len(writes) \in Nat /\ Len(writes) <= 1
  BY <1>2, LenProperties DEF CInv, TypeOK, Write, OneWriter
<1>4. i = 1 /\ Len(writes) = 1
  BY <1>1, <1>3
<1>5. writes # <<>>
  BY <1>3, <1>4, LenZero
<1>6. Head(writes) = writes[1] /\ writes[1] \in Write
  BY <1>3, <1>4, <1>5, HeadTailProperties, ElementOfSeq
<1>7. m_SendDataQueue # <<>> /\ Head(writes).data = Head(m_SendDataQueue)
  BY <1>2, <1>5 DEF CInv, OneWriter
<1> DEFINE r == [writes[1] EXCEPT !.st = "done"]
<1>8. r \in Write /\ r.data = writes[1].data /\ r.st = "done"
  BY <1>6 DEF Write
<1>9. writes' = [writes EXCEPT ![1] = r]
  BY <1>1, <1>4
<1> HIDE DEF r
<1>10. writes' \in Seq(Write) /\ Len(writes') = 1 /\ writes'[1] = r
  <2>1. 1 \in 1 .. Len(writes)
    BY <1>4
  <2>2. QED  BY <1>3, <1>4, <1>8, <1>9, <2>1, ExceptSeq
<1>11. writes' # <<>>
  <2>1. Len(writes') # 0
    BY <1>10
  <2>2. QED  BY <1>10, <2>1, LenZero
<1>12. Head(writes') = r
  BY <1>10, <1>11, HeadTailProperties
<1>13. UNCHANGED <<mainVars, ioPc, m_lock, m_SendDataQueue, socket, connecting,
                   reading, stopped, m_bIsLogin, serverVars, posted>>
  BY DEF Transmit
<1>14. wire' = Append(wire, Head(m_SendDataQueue)) /\ Head(writes).st = "going"
  BY <1>1, <1>4, <1>6, <1>7
<1>15. QED  BY <1>2, <1>4, <1>5, <1>6, <1>7, <1>8, <1>10, <1>11, <1>12, <1>13, <1>14

-----------------------------------------------------------------------------
LEMMA TypeStep == CInv /\ [Next]_vars => TypeOK'
<1> SUFFICES ASSUME CInv, [Next]_vars PROVE TypeOK'
  OBVIOUS
<1> USE DEF mainVars, queueVars, serverVars
<1>1. TypeOK
  BY DEF CInv
<1>2. CASE LineRefused
  BY <1>1, <1>2, BoundAssumption DEF LineRefused, TypeOK
<1>3. CASE LineAccepted
  <2>1. typed + 1 \in 1 .. MaxLines
    BY <1>1, <1>3, BoundAssumption DEF LineAccepted, TypeOK
  <2>2. SendPkt' \in Packet
    BY <1>3, <2>1 DEF LineAccepted, Packet
  <2>3. QED  BY <1>1, <1>3, <2>1, <2>2, BoundAssumption DEF LineAccepted, TypeOK
<1>4. CASE Quit \/ PostSendEnter \/ Stop
  BY <1>1, <1>4 DEF Quit, PostSendEnter, Stop, TypeOK
<1>5. CASE PostSendPush
  <2>1. SendPkt \in Packet
    BY <1>5 DEF PostSendPush, CInv, Positions
  <2>2. m_SendDataQueue' \in Seq(Packet) /\ posted' \in Seq(Packet)
    BY <1>1, <1>5, <2>1 DEF PostSendPush, TypeOK
  <2>3. posted \in Seq(Packet) /\ posted' = Append(posted, SendPkt)
    BY <1>1, <1>5 DEF PostSendPush, TypeOK
  <2>4. Len(posted') = Len(posted) + 1 /\ Len(posted) \in Nat
    BY <2>1, <2>3, AppendProperties, LenProperties
  <2>5. upAt' \in 0 .. Len(posted')
    BY <1>1, <1>5, <2>4 DEF PostSendPush, TypeOK
  <2>6. QED  BY <1>1, <1>5, <2>2, <2>5 DEF PostSendPush, TypeOK
<1>6. CASE PostSendWrite
  <2>1. SendPkt \in Packet
    BY <1>6 DEF PostSendWrite, CInv, Positions
  <2>2. writes \in Seq(Write) /\ Append(writes, Started(SendPkt)) \in Seq(Write)
    BY <1>1, <2>1, StartedFacts DEF TypeOK, Write
  <2>3. writes' \in Seq(Write)
    BY <1>6, <2>2 DEF PostSendWrite
  <2>4. QED  BY <1>1, <1>6, <2>3 DEF PostSendWrite, TypeOK, Write
<1>7. CASE MainClose
  BY <1>1, <1>7, CancelledFacts DEF MainClose, TypeOK, Write
<1>8. CASE Join
  BY <1>1, <1>8 DEF Join, TypeOK
<1>9. CASE HandleConnect
  <2>1. reading' \in BOOLEAN /\ connecting' \in BOOLEAN
    <3>1. connecting' = FALSE /\ reading' = (socket \in {"connected", "broken"})
      BY <1>9 DEF HandleConnect
    <3>2. (socket \in {"connected", "broken"}) \in BOOLEAN
      OBVIOUS
    <3>3. QED  BY <3>1, <3>2, Zenon
  <2>2. UNCHANGED <<mainVars, ioPc, queueVars, socket, stopped, m_bIsLogin,
                    serverVars, posted, wire>>
    BY <1>9 DEF HandleConnect
  <2>3. QED  BY <1>1, <2>1, <2>2 DEF TypeOK
<1>10. ASSUME NEW n \in 1 .. MaxReceived, HandleReceive(n)
       PROVE  TypeOK'
  <2>1. inbox \in Seq(ServerPacket) /\ Len(inbox) \in Nat /\ n \in 0 .. Len(inbox)
    BY <1>1, <1>10, LenProperties, BoundAssumption DEF TypeOK, HandleReceive
  <2>2. SubSeq(inbox, n + 1, Len(inbox)) \in Seq(ServerPacket)
    BY <2>1, SuffixFacts
  <2>3. m_bIsLogin' \in BOOLEAN
    BY <1>10 DEF HandleReceive
  <2>4. inbox' \in Seq(ServerPacket)
    BY <1>10, <2>2 DEF HandleReceive
  <2>5. QED  BY <1>1, <1>10, <2>3, <2>4 DEF HandleReceive, TypeOK
<1>11. CASE HandleReceiveError
  <2>1. writes' \in Seq(Write) /\ socket' = "closed" /\ reading' = FALSE
    BY <1>1, <1>11, CancelledFacts DEF HandleReceiveError
  <2>2. UNCHANGED <<mainVars, ioPc, m_lock, m_SendDataQueue, connecting, stopped,
                    m_bIsLogin, serverVars, posted, wire>>
    BY <1>11 DEF HandleReceiveError
  <2>3. QED  BY <1>1, <2>1, <2>2 DEF TypeOK, Write
<1>12. CASE HandleWrite
  <2>1. writes \in Seq(Write) /\ writes # <<>>
    BY <1>1, <1>12 DEF HandleWrite, TypeOK, Write
  <2>2. Tail(writes) \in Seq(Write)
    BY <2>1, HeadTailProperties
  <2>3. QED  BY <1>1, <1>12, <2>2 DEF HandleWrite, TypeOK, Write
<1>13. CASE HandleWriteEnter \/ HandleWriteFront \/ ResendEnter
  BY <1>1, <1>13 DEF HandleWriteEnter, HandleWriteFront, ResendEnter, TypeOK
<1>14. CASE HandleWritePop
  <2>1. m_SendDataQueue # <<>>
    BY <1>14 DEF HandleWritePop, CInv, OneWriter, Positions
  <2>2. Tail(m_SendDataQueue) \in Seq(Packet)
    BY <1>1, <2>1, HeadTailProperties DEF TypeOK
  <2>3. QED  BY <1>1, <1>14, <2>2 DEF HandleWritePop, TypeOK
<1>15. CASE ResendWrite
  <2>1. m_SendDataQueue # <<>> /\ m_SendDataQueue \in Seq(Packet)
    BY <1>1, <1>15 DEF ResendWrite, CInv, Positions, TypeOK
  <2>2. Head(m_SendDataQueue) \in Packet
    BY <2>1, HeadTailProperties
  <2>3. writes \in Seq(Write) /\ Append(writes, Started(Head(m_SendDataQueue))) \in Seq(Write)
    BY <1>1, <2>2, StartedFacts DEF TypeOK, Write
  <2>4. writes' \in Seq(Write)
    BY <1>15, <2>3 DEF ResendWrite
  <2>5. QED  BY <1>1, <1>15, <2>4 DEF ResendWrite, TypeOK, Write
<1>16. CASE RunReturns
  BY <1>1, <1>16 DEF RunReturns, TypeOK
<1>17. CASE ConnectEnds
  <2>1. upAt' \in 0 .. Len(posted)
    <3>1. upAt' = Len(posted) /\ Len(posted) \in Nat
      BY <1>1, <1>17, LenProperties DEF ConnectEnds, TypeOK
    <3>2. QED  BY <3>1
  <2>2. QED  BY <1>1, <1>17, <2>1 DEF ConnectEnds, TypeOK
<1>18. CASE Transmit
  <2>1. /\ m_SendDataQueue # <<>> /\ writes' \in Seq(Write)
        /\ wire' = Append(wire, Head(m_SendDataQueue))
        /\ UNCHANGED <<pc, SendPkt, typed, ioPc, m_lock, m_SendDataQueue, socket,
                       connecting, reading, stopped, m_bIsLogin, serverVars, posted>>
    BY <1>18, TransmitFacts
  <2>2. Head(m_SendDataQueue) \in Packet /\ wire \in Seq(Packet)
    BY <1>1, <2>1, HeadTailProperties DEF TypeOK
  <2>3. wire' \in Seq(Packet)
    BY <2>1, <2>2, AppendProperties
  <2>4. QED  BY <1>1, <2>1, <2>3 DEF TypeOK, Write
<1>19. CASE ServerSends
  <2>1. PICK pkt \in ServerPacket :
           inbox' = Append(inbox, pkt) /\ served' = Append(served, pkt)
    BY <1>19 DEF ServerSends
  <2>2. inbox' \in Seq(ServerPacket) /\ served' \in Seq(ServerPacket)
    BY <1>1, <2>1, AppendProperties DEF TypeOK
  <2>3. QED  BY <1>1, <1>19, <2>2 DEF ServerSends, TypeOK
<1>20. CASE ConnectionBreaks
  BY <1>1, <1>20, CancelledFacts DEF ConnectionBreaks, TypeOK, Write
<1>21. CASE UNCHANGED vars
  BY <1>1, <1>21 DEF vars, TypeOK
<1>22. QED
  BY <1>2, <1>3, <1>4, <1>5, <1>6, <1>7, <1>8, <1>9, <1>10, <1>11, <1>12, <1>13,
     <1>14, <1>15, <1>16, <1>17, <1>18, <1>19, <1>20, <1>21
     DEF Next, PostSendStep, ExitStep, IoStep

LEMMA LockStep == CInv /\ [Next]_vars => LockHeld'
<1> SUFFICES ASSUME CInv, [Next]_vars PROVE LockHeld'
  OBVIOUS
<1> USE DEF CInv, LockHeld, mainVars, queueVars
<1>1. CASE LineRefused \/ LineAccepted \/ Quit \/ PostSendStep
  BY <1>1 DEF LineRefused, LineAccepted, Quit, PostSendStep, PostSendEnter,
              PostSendPush, PostSendWrite
<1>2. CASE ExitStep
  BY <1>2 DEF ExitStep, Stop, MainClose, Join
<1>3. CASE HandleConnect \/ (\E n \in 1 .. MaxReceived : HandleReceive(n))
           \/ HandleReceiveError \/ HandleWrite \/ RunReturns
  BY <1>3 DEF HandleConnect, HandleReceive, HandleReceiveError, HandleWrite,
              RunReturns, Ready
<1>4. CASE HandleWriteEnter \/ HandleWritePop
  BY <1>4 DEF HandleWriteEnter, HandleWritePop
<1>5. CASE HandleWriteFront
  BY <1>5 DEF HandleWriteFront
<1>6. CASE ResendEnter \/ ResendWrite
  BY <1>6 DEF ResendEnter, ResendWrite
<1>7. CASE ConnectEnds \/ Transmit \/ ServerSends \/ ConnectionBreaks
  BY <1>7 DEF ConnectEnds, Transmit, ServerSends, ConnectionBreaks
<1>8. CASE UNCHANGED vars
  BY <1>8 DEF vars
<1>9. QED
  BY <1>1, <1>2, <1>3, <1>4, <1>5, <1>6, <1>7, <1>8 DEF Next, IoStep

-----------------------------------------------------------------------------
(* OneWriter and what the threads know keep each other true.               *)

Writing ==
    pc # "end" =>
        /\ Len(writes) <= 1
        /\ writes # <<>> => /\ m_SendDataQueue # <<>>
                            /\ Head(writes).data = Head(m_SendDataQueue)
                            /\ ~InHandler /\ ~Owed
        /\ InHandler => m_SendDataQueue # <<>> /\ ~Owed
        /\ m_SendDataQueue # <<>> => writes # <<>> \/ InHandler \/ Owed

LEMMA WriterStep == CInv /\ [Next]_vars => Positions' /\ OneWriter'
<1> SUFFICES ASSUME CInv, [Next]_vars PROVE Positions' /\ Writing'
  BY DEF OneWriter, Writing, InHandler, Owed
<1> USE DEF mainVars, queueVars
<1>1. /\ TypeOK /\ LockHeld /\ Positions /\ Writing
      /\ m_SendDataQueue \in Seq(Packet) /\ Len(m_SendDataQueue) \in Nat
      /\ writes \in Seq(Write)
  BY LenProperties DEF CInv, TypeOK, Write, OneWriter, Writing, InHandler, Owed
<1>2. ASSUME UNCHANGED <<pc, SendPkt, ioPc, m_SendDataQueue, socket>>,
             writes' = writes \/ Len(writes') = Len(writes),
             writes' = <<>> <=> writes = <<>>,
             writes # <<>> => Head(writes').data = Head(writes).data
      PROVE  Positions' /\ Writing'
  BY <1>1, <1>2 DEF Positions, Writing, InHandler, Owed
<1>3. CASE LineAccepted
  <2>1. /\ pc = "input" /\ pc' = "enter"
        /\ UNCHANGED <<ioPc, m_SendDataQueue, writes, socket>>
    BY <1>3 DEF LineAccepted
  <2>2. SendPkt' \in Packet
    <3>1. typed + 1 \in 1 .. MaxLines
      BY <1>1, <1>3, BoundAssumption DEF LineAccepted, TypeOK
    <3>2. QED  BY <1>3, <3>1 DEF LineAccepted, Packet
  <2>3. QED  BY <1>1, <2>1, <2>2 DEF Positions, Writing, InHandler, Owed
<1>4. CASE Quit \/ PostSendEnter \/ Stop
  <2>1. /\ \/ pc = "input" /\ pc' = "stop"
           \/ pc = "enter" /\ pc' = "push"
           \/ pc = "stop" /\ pc' = "close"
        /\ UNCHANGED <<SendPkt, ioPc, m_SendDataQueue, writes, socket>>
    BY <1>4 DEF Quit, PostSendEnter, Stop
  <2>2. QED  BY <1>1, <2>1 DEF Positions, Writing, InHandler, Owed
<1>5. CASE PostSendPush
  <2>1. /\ pc = "push" /\ pc' = "write"
        /\ m_SendDataQueue' = Append(m_SendDataQueue, SendPkt)
        /\ UNCHANGED <<SendPkt, ioPc, writes, socket>>
    BY <1>5 DEF PostSendPush
  <2>2. SendPkt \in Packet /\ ioPc \notin {"pop", "front", "send"}
    BY <1>1, <2>1 DEF Positions, LockHeld
  <2>3. /\ Len(m_SendDataQueue') = Len(m_SendDataQueue) + 1
        /\ m_SendDataQueue' # <<>>
        /\ Head(m_SendDataQueue') =
              IF m_SendDataQueue = <<>> THEN SendPkt ELSE Head(m_SendDataQueue)
    BY <1>1, <2>1, <2>2, AppendProperties, HeadAppend
  <2>4. CASE m_SendDataQueue = <<>>
    <3>1. writes = <<>> /\ ioPc \notin {"enter", "enterSend"}
      BY <1>1, <2>1, <2>4 DEF Writing, Positions, InHandler
    <3>2. Len(m_SendDataQueue') = 1 /\ Len(writes) <= 1
      BY <1>1, <2>1, <2>3, <2>4, LenZero DEF Writing
    <3>3. Positions'
      BY <2>1, <2>2, <2>3, <2>4, <3>1 DEF Positions
    <3>4. Writing'
      BY <2>1, <2>2, <2>3, <3>1, <3>2 DEF Writing, InHandler, Owed
    <3>5. QED  BY <3>3, <3>4
  <2>5. CASE m_SendDataQueue # <<>>
    <3>1. Len(m_SendDataQueue) # 0
      BY <1>1, <2>5, LenZero
    <3>2. Len(m_SendDataQueue') >= 2
      BY <1>1, <2>3, <3>1
    <3>3. Len(m_SendDataQueue') # 1
      BY <1>1, <2>3, <3>1
    <3>4. Positions'
      BY <1>1, <2>1, <2>2, <2>3, <3>2, <3>3 DEF Positions
    <3>5. Writing'
      BY <1>1, <2>1, <2>2, <2>3, <2>5, <3>3 DEF Writing, InHandler, Owed
    <3>6. QED  BY <3>4, <3>5
  <2>6. QED  BY <2>4, <2>5
<1>6. CASE PostSendWrite
  <2>1. /\ pc = "write" /\ pc' = "input"
        /\ UNCHANGED <<SendPkt, ioPc, m_SendDataQueue, socket>>
    BY <1>6 DEF PostSendWrite
  <2>2. /\ SendPkt \in Packet /\ m_SendDataQueue # <<>>
        /\ Len(m_SendDataQueue) # 0
        /\ ioPc \notin {"pop", "front", "send"}
    BY <1>1, <2>1, LenZero DEF Positions, LockHeld
  <2>3. Positions'
    BY <1>1, <2>1 DEF Positions
  <2>4. CASE Len(m_SendDataQueue) < 2 /\ writes' = Append(writes, Started(SendPkt))
    <3>1. Len(m_SendDataQueue) = 1 /\ ~(Len(m_SendDataQueue) >= 2)
      <4> DEFINE n == Len(m_SendDataQueue)
      <4>1. n \in Nat /\ n # 0 /\ n < 2
        BY <1>1, <2>2, <2>4
      <4> HIDE DEF n
      <4>2. n = 1 /\ ~(n >= 2)
        BY <4>1
      <4>3. QED  BY <4>2 DEF n
    <3>2. /\ writes = <<>> /\ ioPc \notin {"enter", "enterSend"}
          /\ Head(m_SendDataQueue) = SendPkt
      BY <1>1, <2>1, <3>1 DEF Positions
    <3>3. /\ Len(writes') = 1 /\ writes' # <<>>
          /\ Head(writes') = Started(SendPkt)
      BY <2>2, <2>4, <3>2, StartedFacts, Singleton
    <3>4. Head(writes').data = Head(m_SendDataQueue)
      BY <2>2, <3>2, <3>3, StartedFacts
    <3>5. Len(writes') <= 1
      BY <3>3
    <3>6. QED  BY <2>1, <2>2, <2>3, <3>2, <3>3, <3>4, <3>5
               DEF Writing, InHandler, Owed
  <2>5. CASE Len(m_SendDataQueue) >= 2 /\ writes' = writes
    <3>1. Len(m_SendDataQueue) # 1
      BY <2>5
    <3>2. QED  BY <1>1, <2>1, <2>3, <2>5, <3>1 DEF Writing, InHandler, Owed
  <2>6. QED  BY <1>6, <2>4, <2>5 DEF PostSendWrite
<1>7. CASE MainClose
  <2>1. /\ pc = "close" /\ pc' = "join" /\ socket' = "closed"
        /\ writes' = Cancelled
        /\ UNCHANGED <<SendPkt, ioPc, m_SendDataQueue>>
    BY <1>7 DEF MainClose
  <2>2. /\ Len(writes') = Len(writes) /\ (writes' = <<>> <=> writes = <<>>)
        /\ writes # <<>> => Head(writes').data = Head(writes).data
    BY <1>1, <2>1, CancelledFacts
  <2>3. QED  BY <1>1, <2>1, <2>2 DEF Positions, Writing, InHandler, Owed
<1>8. CASE Join
  BY <1>1, <1>8 DEF Join, Positions, Writing
<1>9. CASE HandleReceiveError
  <2>1. /\ ioPc = "run" /\ socket' = "closed" /\ writes' = Cancelled
        /\ UNCHANGED <<pc, SendPkt, ioPc, m_SendDataQueue>>
    BY <1>9 DEF HandleReceiveError, Ready
  <2>2. /\ Len(writes') = Len(writes) /\ (writes' = <<>> <=> writes = <<>>)
        /\ writes # <<>> => Head(writes').data = Head(writes).data
    BY <1>1, <2>1, CancelledFacts
  <2>3. QED  BY <1>1, <2>1, <2>2 DEF Positions, Writing, InHandler, Owed
<1>10. CASE HandleWrite
  <2>1. /\ ioPc = "run" /\ ioPc' = "enter" /\ writes # <<>> /\ writes' = Tail(writes)
        /\ UNCHANGED <<pc, SendPkt, m_SendDataQueue, socket>>
    BY <1>10 DEF HandleWrite, Ready
  <2>2. pc # "end"
    BY <1>1, <2>1 DEF Positions
  <2>3. writes' = <<>> /\ Len(writes') <= 1
    <3>1. Len(writes) <= 1 /\ Len(writes) \in Nat \ {0}
      BY <1>1, <2>1, <2>2, EmptySeq DEF Writing
    <3>2. Tail(writes) \in Seq(Write) /\ Len(Tail(writes)) = Len(writes) - 1
      BY <1>1, <2>1, HeadTailProperties
    <3>3. Len(Tail(writes)) = 0
      BY <3>1, <3>2
    <3>4. QED  BY <2>1, <3>2, <3>3, LenZero
  <2>4. m_SendDataQueue # <<>> /\ ~Owed
    BY <1>1, <2>1, <2>2 DEF Writing
  <2>5. ~Owed'
    BY <2>1 DEF Owed, InHandler
  <2>6. Positions'
    BY <1>1, <2>1, <2>3 DEF Positions
  <2>7. QED  BY <2>1, <2>3, <2>4, <2>5, <2>6 DEF Writing, InHandler
<1>11. CASE HandleWriteEnter
  <2>1. /\ ioPc = "enter" /\ ioPc' = "pop" /\ m_lock = "free"
        /\ UNCHANGED <<pc, SendPkt, m_SendDataQueue, writes, socket>>
    BY <1>11 DEF HandleWriteEnter
  <2>2. pc # "write"
    BY <1>1, <2>1 DEF LockHeld
  <2>3. QED  BY <1>1, <2>1, <2>2 DEF Positions, Writing, InHandler, Owed
<1>12. CASE HandleWritePop
  <2>1. /\ ioPc = "pop" /\ ioPc' = "front"
        /\ m_SendDataQueue' = Tail(m_SendDataQueue)
        /\ UNCHANGED <<pc, SendPkt, writes, socket>>
    BY <1>12 DEF HandleWritePop
  <2>2. pc \notin {"push", "write"} /\ pc # "end"
    BY <1>1, <2>1 DEF LockHeld, Positions
  <2>3. QED  BY <1>1, <2>1, <2>2 DEF Positions, Writing, InHandler, Owed
<1>13. CASE HandleWriteFront
  <2>1. /\ ioPc = "front"
        /\ ioPc' = IF m_SendDataQueue = <<>> THEN "run" ELSE "enterSend"
        /\ UNCHANGED <<pc, SendPkt, m_SendDataQueue, writes, socket>>
    BY <1>13 DEF HandleWriteFront
  <2>2. pc \notin {"push", "write"} /\ pc # "end"
    BY <1>1, <2>1 DEF LockHeld, Positions
  <2>3. QED  BY <1>1, <2>1, <2>2 DEF Positions, Writing, InHandler, Owed
<1>14. CASE ResendEnter
  <2>1. /\ ioPc = "enterSend" /\ ioPc' = "send"
        /\ UNCHANGED <<pc, SendPkt, m_SendDataQueue, writes, socket>>
    BY <1>14 DEF ResendEnter
  <2>2. QED  BY <1>1, <2>1 DEF Positions, Writing, InHandler, Owed
<1>15. CASE ResendWrite
  <2>1. /\ ioPc = "send" /\ ioPc' = "run"
        /\ writes' = Append(writes, Started(Head(m_SendDataQueue)))
        /\ UNCHANGED <<pc, SendPkt, m_SendDataQueue, socket>>
    BY <1>15 DEF ResendWrite
  <2>2. /\ pc \notin {"push", "write"} /\ pc # "end"
        /\ m_SendDataQueue # <<>> /\ writes = <<>>
    BY <1>1, <2>1 DEF LockHeld, Positions, Writing, Owed
  <2>3. Head(m_SendDataQueue) \in Packet
    BY <1>1, <2>2, HeadTailProperties
  <2>4. /\ Len(writes') = 1 /\ writes' # <<>>
        /\ Head(writes') = Started(Head(m_SendDataQueue))
    BY <2>1, <2>2, <2>3, StartedFacts, Singleton
  <2>5. Head(writes').data = Head(m_SendDataQueue) /\ Len(writes') <= 1
    BY <2>3, <2>4, StartedFacts
  <2>6. QED  BY <1>1, <2>1, <2>2, <2>4, <2>5 DEF Positions, Writing, InHandler, Owed
<1>16. CASE RunReturns
  <2>1. /\ ioPc = "run" /\ ioPc' = "done"
        /\ UNCHANGED <<pc, SendPkt, m_SendDataQueue, writes, socket>>
    BY <1>16 DEF RunReturns
  <2>2. QED  BY <1>1, <2>1 DEF Positions, Writing, InHandler, Owed
<1>17. CASE ConnectEnds
  <2>1. /\ socket # "closed"
        /\ UNCHANGED <<pc, SendPkt, ioPc, m_SendDataQueue, writes>>
    BY <1>17 DEF ConnectEnds
  <2>2. QED  BY <1>1, <2>1 DEF Positions, Writing, InHandler, Owed
<1>18. CASE Transmit
  BY <1>2, <1>18, TransmitFacts
<1>19. CASE ConnectionBreaks
  <2>1. /\ socket # "closed" /\ writes' = Cancelled
        /\ UNCHANGED <<pc, SendPkt, ioPc, m_SendDataQueue>>
    BY <1>19 DEF ConnectionBreaks
  <2>2. /\ Len(writes') = Len(writes) /\ (writes' = <<>> <=> writes = <<>>)
        /\ writes # <<>> => Head(writes').data = Head(writes).data
    BY <1>1, <2>1, CancelledFacts
  <2>3. QED  BY <1>1, <2>1, <2>2 DEF Positions, Writing, InHandler, Owed
<1>20. CASE \/ LineRefused \/ HandleConnect \/ ServerSends
            \/ \E n \in 1 .. MaxReceived : HandleReceive(n)
            \/ UNCHANGED vars
  <2>1. UNCHANGED <<pc, SendPkt, ioPc, m_SendDataQueue, socket, writes>>
    BY <1>20 DEF LineRefused, HandleConnect, ServerSends, HandleReceive, vars
  <2>2. QED  BY <1>2, <2>1
<1>21. QED
  BY <1>3, <1>4, <1>5, <1>6, <1>7, <1>8, <1>9, <1>10, <1>11, <1>12, <1>13, <1>14,
     <1>15, <1>16, <1>17, <1>18, <1>19, <1>20
     DEF Next, PostSendStep, ExitStep, IoStep

LEMMA InitCInv == Init => CInv
<1> SUFFICES ASSUME Init PROVE CInv
  OBVIOUS
<1>1. TypeOK
  <2>1. upAt \in 0 .. Len(posted)
    <3>1. upAt = 0 /\ posted = <<>>
      BY DEF Init
    <3>2. QED  BY <3>1, EmptySeq
  <2>2. typed \in 0 .. MaxLines
    BY BoundAssumption DEF Init
  <2>3. /\ m_SendDataQueue \in Seq(Packet) /\ posted \in Seq(Packet)
        /\ wire \in Seq(Packet)
        /\ writes \in Seq([data : Packet, st : {"going", "done"}])
        /\ inbox \in Seq(ServerPacket) /\ served \in Seq(ServerPacket)
    BY EmptySeq DEF Init
  <2>4. /\ pc = "input" /\ ioPc = "run" /\ m_lock = "free" /\ socket = "connecting"
        /\ SendPkt \in Packet \cup {NoPacket}
        /\ connecting \in BOOLEAN /\ reading \in BOOLEAN /\ stopped \in BOOLEAN
        /\ m_bIsLogin \in BOOLEAN
    BY DEF Init
  <2>5. QED  BY <2>1, <2>2, <2>3, <2>4 DEF TypeOK
<1>2. LockHeld /\ Positions /\ OneWriter
  BY DEF Init, LockHeld, Positions, OneWriter
<1>3. QED  BY <1>1, <1>2 DEF CInv

LEMMA ClientInvariance == Spec => []CInv
<1>1. CInv /\ [Next]_vars => CInv'
  BY TypeStep, LockStep, WriterStep DEF CInv
<1>2. QED  BY InitCInv, <1>1, PTL DEF Spec

(* Every variable of the client keeps its type.                            *)
THEOREM TypeCorrect == Spec => []TypeOK
<1>1. CInv => TypeOK
  BY DEF CInv
<1>2. QED  BY ClientInvariance, <1>1, PTL

(* Between them the two threads keep one write outstanding while packets   *)
(* are queued, and never two, however PostSend's size test falls between   *)
(* handle_write's two critical sections and whoever closes the socket.     *)
THEOREM WriterCorrect == Spec => []OneWriter
<1>1. CInv => OneWriter
  BY DEF CInv
<1>2. QED  BY ClientInvariance, <1>1, PTL

-----------------------------------------------------------------------------
(* The order of what is sent.                                              *)

FInv == CInv /\ Fifo /\ Ordered

(* The front of the queue is no longer to be sent.                         *)
FrontIsSent == \/ ioPc \in {"enter", "pop"}
               \/ writes # <<>> /\ Head(writes).st = "done"

LEMMA UnsentFacts ==
  ASSUME CInv, pc # "end"
  PROVE  /\ m_SendDataQueue \in Seq(Packet) /\ wire \in Seq(Packet)
         /\ posted \in Seq(Packet) /\ Len(posted) \in Nat
         /\ FrontIsSent => m_SendDataQueue # <<>>
         /\ Unsent = IF FrontIsSent THEN Tail(m_SendDataQueue) ELSE m_SendDataQueue
         /\ Unsent \in Seq(Packet)
<1>1. /\ m_SendDataQueue \in Seq(Packet) /\ wire \in Seq(Packet)
      /\ posted \in Seq(Packet) /\ Len(posted) \in Nat
  BY LenProperties DEF CInv, TypeOK
<1>2. FrontIsSent => m_SendDataQueue # <<>>
  BY DEF CInv, OneWriter, FrontIsSent
<1>3. Unsent = IF FrontIsSent THEN Tail(m_SendDataQueue) ELSE m_SendDataQueue
  BY DEF Unsent, FrontIsSent
<1>4. m_SendDataQueue # <<>> => Tail(m_SendDataQueue) \in Seq(Packet)
  BY <1>1, HeadTailProperties
<1>5. QED  BY <1>1, <1>2, <1>3, <1>4

(* The write of the front packet: while the connection is not yet up the   *)
(* packet is given up at once.                                             *)
LEMMA FifoStart ==
  ASSUME CInv, Fifo, pc # "end", m_SendDataQueue # <<>>, writes = <<>>,
         ioPc \notin {"enter", "pop"}, ioPc' \notin {"enter", "pop"},
         writes' = Append(writes, Started(Head(m_SendDataQueue))),
         UNCHANGED <<m_SendDataQueue, wire, posted, socket, upAt>>
  PROVE  Fifo'
<1> DEFINE q == m_SendDataQueue
<1>1. /\ q \in Seq(Packet) /\ wire \in Seq(Packet) /\ posted \in Seq(Packet)
      /\ Len(posted) \in Nat
      /\ Head(q) \in Packet /\ Tail(q) \in Seq(Packet)
  BY UnsentFacts, HeadTailProperties
<1>2. Unsent = q
  BY DEF Unsent
<1>3. writes' # <<>> /\ Head(writes') = Started(Head(q))
  BY <1>1, StartedFacts, Singleton
<1>4. Head(writes').st = IF socket = "connected" THEN "going" ELSE "done"
  BY <1>1, <1>3, StartedFacts
<1>5. Unsent' = IF socket = "connected" THEN q ELSE Tail(q)
  BY <1>3, <1>4 DEF Unsent
<1> HIDE DEF q
<1>6. CASE socket = "connected"
  BY <1>2, <1>5, <1>6 DEF Fifo, FifoFrom
<1>7. CASE socket = "connecting"
  <2>1. wire = <<>>
    BY <1>7 DEF Fifo
  <2>2. PICK k \in 0 .. Len(posted) : wire \o q = SubSeq(posted, k + 1, Len(posted))
    BY <1>2, <1>7 DEF Fifo, FifoFrom
  <2>3. wire \o q = q /\ wire \o Tail(q) = Tail(q)
    BY <1>1, <2>1, ConcatEmptySeq
  <2>4. q # <<>> /\ q = SubSeq(posted, k + 1, Len(posted))
    BY <2>2, <2>3 DEF q
  <2>5. k + 1 \in 1 .. Len(posted) /\ Tail(q) = SubSeq(posted, k + 1 + 1, Len(posted))
    BY <1>1, <2>4, SuffixTail
  <2>6. k + 1 \in 0 .. Len(posted)
    BY <1>1, <2>5
  <2>7. Unsent' = Tail(q)
    BY <1>5, <1>7
  <2>8. FifoFrom(k + 1)'
    BY <2>3, <2>5, <2>7 DEF FifoFrom
  <2>9. \E m \in 0 .. Len(posted') : FifoFrom(m)'
    BY <2>6, <2>8
  <2>10. QED  BY <1>7, <2>1, <2>9 DEF Fifo
<1>8. CASE socket \notin {"connected", "connecting"}
  BY <1>8 DEF Fifo
<1>9. QED  BY <1>6, <1>7, <1>8

LEMMA FifoStep == CInv /\ Fifo /\ [Next]_vars => Fifo'
<1> SUFFICES ASSUME CInv, Fifo, [Next]_vars PROVE Fifo'
  OBVIOUS
<1> USE DEF mainVars, queueVars, serverVars
<1>1. /\ TypeOK /\ LockHeld /\ Positions /\ Writing
  BY DEF CInv, OneWriter, Writing, InHandler, Owed
<1>2. ASSUME UNCHANGED <<wire, posted, socket, upAt>>, Unsent' = Unsent
      PROVE  Fifo'
  BY <1>2 DEF Fifo, FifoFrom
<1>3. ASSUME socket' \notin {"connecting", "connected"}
      PROVE  Fifo'
  BY <1>3 DEF Fifo
<1>4. CASE PostSendPush
  <2>1. /\ pc = "push"
        /\ m_SendDataQueue' = Append(m_SendDataQueue, SendPkt)
        /\ posted' = Append(posted, SendPkt)
        /\ UNCHANGED <<ioPc, writes, socket, wire, upAt>>
    BY <1>4 DEF PostSendPush
  <2>2. SendPkt \in Packet /\ pc # "end"
    BY <1>1, <2>1 DEF Positions
  <2>3. /\ m_SendDataQueue \in Seq(Packet) /\ wire \in Seq(Packet)
        /\ posted \in Seq(Packet) /\ Unsent \in Seq(Packet)
        /\ FrontIsSent => m_SendDataQueue # <<>>
        /\ Unsent = IF FrontIsSent THEN Tail(m_SendDataQueue) ELSE m_SendDataQueue
    BY <2>2, UnsentFacts
  <2>4. Unsent' = IF FrontIsSent THEN Tail(m_SendDataQueue') ELSE m_SendDataQueue'
    BY <2>1 DEF Unsent, FrontIsSent
  <2>5. FrontIsSent => Tail(m_SendDataQueue') = Append(Tail(m_SendDataQueue), SendPkt)
    BY <2>1, <2>2, <2>3, HeadTailAppend
  <2>6. Unsent' = Append(Unsent, SendPkt)
    BY <2>1, <2>3, <2>4, <2>5
  <2>7. ASSUME NEW k \in 0 .. Len(posted), FifoFrom(k)
        PROVE  k \in 0 .. Len(posted') /\ FifoFrom(k)'
    <3>1. wire \o Append(Unsent, SendPkt) = Append(wire \o Unsent, SendPkt)
      BY <2>2, <2>3, StreamAppend
    <3>2. /\ k \in 0 .. Len(posted')
          /\ SubSeq(posted', k + 1, Len(posted'))
               = Append(SubSeq(posted, k + 1, Len(posted)), SendPkt)
      <4>1. SendPkt \in Packet /\ posted \in Seq(Packet)
        BY <2>2, <2>3
      <4>2. /\ k \in 0 .. Len(Append(posted, SendPkt))
            /\ Suffix(Append(posted, SendPkt), k) = Append(Suffix(posted, k), SendPkt)
        BY <4>1, SuffixAppend
      <4>3. posted' = Append(posted, SendPkt)
        BY <2>1
      <4>4. QED  BY <4>2, <4>3 DEF Suffix
    <3>3. FifoFrom(k)'
      BY <2>1, <2>6, <2>7, <3>1, <3>2 DEF FifoFrom
    <3>4. QED  BY <3>2, <3>3
  <2>8. \A k \in 0 .. upAt : k \in 0 .. Len(posted)
    BY <1>1, <2>3 DEF TypeOK
  <2>9. (\E k \in 0 .. Len(posted) : FifoFrom(k))
          => \E k \in 0 .. Len(posted') : FifoFrom(k)'
    BY <2>7
  <2>10. (\E k \in 0 .. upAt : FifoFrom(k)) => \E k \in 0 .. upAt' : FifoFrom(k)'
    BY <2>1, <2>7, <2>8
  <2>11. QED  BY <2>1, <2>9, <2>10 DEF Fifo
<1>5. CASE PostSendWrite
  <2>1. /\ pc = "write"
        /\ UNCHANGED <<ioPc, m_SendDataQueue, wire, posted, socket, upAt>>
    BY <1>5 DEF PostSendWrite
  <2>2. CASE writes' = writes
    <3>1. Unsent' = Unsent
      BY <2>1, <2>2 DEF Unsent
    <3>2. QED  BY <1>2, <2>1, <3>1
  <2>3. CASE writes' = Append(writes, Started(SendPkt)) /\ Len(m_SendDataQueue) < 2
    <3>1. /\ m_SendDataQueue # <<>> /\ Len(m_SendDataQueue) \in Nat
          /\ m_SendDataQueue \in Seq(Packet)
      BY <1>1, <2>1, LenProperties DEF Positions, TypeOK
    <3>2. Len(m_SendDataQueue) = 1 /\ ~(Len(m_SendDataQueue) >= 2)
      <4> DEFINE n == Len(m_SendDataQueue)
      <4>1. n \in Nat /\ n # 0 /\ n < 2
        BY <2>3, <3>1, LenZero
      <4> HIDE DEF n
      <4>2. n = 1 /\ ~(n >= 2)
        BY <4>1
      <4>3. QED  BY <4>2 DEF n
    <3>3. /\ writes = <<>> /\ ioPc \notin {"enter", "enterSend"}
          /\ Head(m_SendDataQueue) = SendPkt
      BY <1>1, <2>1, <3>2 DEF Positions
    <3>4. ioPc # "pop"
      BY <1>1, <2>1 DEF LockHeld
    <3>5. pc # "end" /\ ioPc \notin {"enter", "pop"} /\ ioPc' \notin {"enter", "pop"}
      BY <2>1, <3>3, <3>4
    <3>6. writes' = Append(writes, Started(Head(m_SendDataQueue)))
      BY <2>3, <3>3
    <3>7. QED  BY <2>1, <3>1, <3>3, <3>5, <3>6, FifoStart
  <2>4. QED  BY <1>5, <2>2, <2>3 DEF PostSendWrite
<1>6. CASE ResendWrite
  <2>1. /\ ioPc = "send" /\ ioPc' = "run"
        /\ writes' = Append(writes, Started(Head(m_SendDataQueue)))
        /\ UNCHANGED <<m_SendDataQueue, wire, posted, socket, upAt>>
    BY <1>6 DEF ResendWrite
  <2>2. m_SendDataQueue # <<>> /\ writes = <<>> /\ pc # "end"
    BY <1>1, <2>1 DEF Positions, Writing, Owed
  <2>3. ioPc \notin {"enter", "pop"} /\ ioPc' \notin {"enter", "pop"}
    BY <2>1
  <2>4. QED  BY <2>1, <2>2, <2>3, FifoStart
<1>7. CASE HandleWrite
  <2>1. /\ ioPc' = "enter" /\ writes # <<>> /\ Head(writes).st = "done"
        /\ UNCHANGED <<m_SendDataQueue, wire, posted, socket, upAt>>
    BY <1>7 DEF HandleWrite
  <2>2. Unsent' = Unsent
    BY <2>1 DEF Unsent
  <2>3. QED  BY <1>2, <2>1, <2>2
<1>8. CASE HandleWritePop
  <2>1. /\ ioPc = "pop" /\ ioPc' = "front"
        /\ m_SendDataQueue' = Tail(m_SendDataQueue)
        /\ UNCHANGED <<writes, wire, posted, socket, upAt>>
    BY <1>8 DEF HandleWritePop
  <2>2. writes = <<>>
    BY <1>1, <2>1 DEF Positions, Writing, InHandler
  <2>3. Unsent' = Unsent
    BY <2>1, <2>2 DEF Unsent
  <2>4. QED  BY <1>2, <2>1, <2>3
<1>9. CASE HandleWriteEnter \/ HandleWriteFront \/ ResendEnter \/ RunReturns
  <2>1. /\ ioPc \in {"enter", "pop"} <=> ioPc' \in {"enter", "pop"}
        /\ UNCHANGED <<m_SendDataQueue, writes, wire, posted, socket, upAt>>
    BY <1>9 DEF HandleWriteEnter, HandleWriteFront, ResendEnter, RunReturns
  <2>2. Unsent' = Unsent
    BY <2>1 DEF Unsent
  <2>3. QED  BY <1>2, <2>1, <2>2
<1>10. CASE Transmit
  <2>1. /\ pc # "end" /\ socket = "connected"
        /\ writes # <<>> /\ Head(writes).st = "going"
        /\ m_SendDataQueue # <<>>
        /\ writes' # <<>> /\ Head(writes').st = "done"
        /\ wire' = Append(wire, Head(m_SendDataQueue))
        /\ UNCHANGED <<ioPc, m_SendDataQueue, socket, posted, upAt>>
    BY <1>10, TransmitFacts
  <2>2. ioPc \notin {"enter", "pop"}
    BY <1>1, <2>1 DEF Writing, InHandler
  <2>3. Unsent = m_SendDataQueue /\ Unsent' = Tail(m_SendDataQueue)
    BY <2>1, <2>2 DEF Unsent
  <2>4. m_SendDataQueue \in Seq(Packet) /\ wire \in Seq(Packet)
    BY <1>1 DEF TypeOK
  <2>5. wire' \o Unsent' = wire \o Unsent
    BY <2>1, <2>3, <2>4, StreamTail
  <2>6. QED  BY <2>1, <2>5 DEF Fifo, FifoFrom
<1>11. CASE ConnectEnds
  <2>1. /\ socket = "connecting" /\ upAt' = Len(posted)
        /\ UNCHANGED <<ioPc, m_SendDataQueue, writes, wire, posted>>
    BY <1>11 DEF ConnectEnds
  <2>2. Unsent' = Unsent
    BY <2>1 DEF Unsent
  <2>3. CASE socket' = "connected"
    BY <2>1, <2>2, <2>3 DEF Fifo, FifoFrom
  <2>4. QED  BY <1>3, <1>11, <2>3 DEF ConnectEnds
<1>12. CASE MainClose \/ HandleReceiveError \/ ConnectionBreaks
  BY <1>3, <1>12 DEF MainClose, HandleReceiveError, ConnectionBreaks
<1>13. CASE Join
  BY <1>1, <1>3, <1>13 DEF Join, Positions
<1>14. CASE \/ LineRefused \/ LineAccepted \/ Quit \/ PostSendEnter \/ Stop
            \/ HandleConnect \/ ServerSends
            \/ \E n \in 1 .. MaxReceived : HandleReceive(n)
            \/ UNCHANGED vars
  <2>1. UNCHANGED <<ioPc, m_SendDataQueue, writes, wire, posted, socket, upAt>>
    BY <1>14 DEF LineRefused, LineAccepted, Quit, PostSendEnter, Stop, HandleConnect,
                 ServerSends, HandleReceive, vars
  <2>2. Unsent' = Unsent
    BY <2>1 DEF Unsent
  <2>3. QED  BY <1>2, <2>1, <2>2
<1>15. QED
  BY <1>4, <1>5, <1>6, <1>7, <1>8, <1>9, <1>10, <1>11, <1>12, <1>13, <1>14
     DEF Next, PostSendStep, ExitStep, IoStep

LEMMA OrderedStep == CInv /\ Ordered /\ [Next]_vars => Ordered'
<1> SUFFICES ASSUME CInv, Ordered, [Next]_vars PROVE Ordered'
  OBVIOUS
<1> USE DEF mainVars, queueVars, serverVars
<1>1. /\ TypeOK /\ Positions
      /\ posted \in Seq(Packet) /\ wire \in Seq(Packet)
      /\ inbox \in Seq(ServerPacket) /\ served \in Seq(ServerPacket)
  BY LenProperties DEF CInv, TypeOK
<1>2. CASE LineAccepted
  <2>1. /\ pc' = "enter"
        /\ SendPkt'.nID = IF m_bIsLogin THEN "REQ_CHAT" ELSE "REQ_IN"
        /\ UNCHANGED <<posted, m_bIsLogin, inbox, served>>
    BY <1>2 DEF LineAccepted
  <2>2. QED  BY <2>1 DEF Ordered, IsConfirmed
<1>3. CASE PostSendPush
  <2>1. /\ pc = "push" /\ pc' = "write"
        /\ posted' = Append(posted, SendPkt)
        /\ UNCHANGED <<SendPkt, m_bIsLogin, inbox, served>>
    BY <1>3 DEF PostSendPush
  <2>2. SendPkt \in Packet
    BY <1>1, <2>1 DEF Positions
  <2>3. /\ posted' \in Seq(Packet) /\ Len(posted') = Len(posted) + 1
        /\ Len(posted) \in Nat
        /\ \A i \in 1 .. Len(posted) : posted'[i] = posted[i]
        /\ posted'[Len(posted) + 1] = SendPkt
    BY <1>1, <2>1, <2>2, AppendProperties, LenProperties
  <2>4. DOMAIN posted = 1 .. Len(posted) /\ DOMAIN posted' = 1 .. Len(posted) + 1
    BY <1>1, <2>3, LenProperties
  <2>5. \A i \in 1 .. Len(posted) + 1 :
           i \in 1 .. Len(posted) \/ i = Len(posted) + 1
    BY <2>3
  <2>6. \A i \in DOMAIN posted : posted[i].nID = "REQ_CHAT" => SendPkt.nID = "REQ_CHAT"
    BY <2>1 DEF Ordered
  <2>7. ASSUME NEW i \in DOMAIN posted', NEW j \in DOMAIN posted', i < j,
               posted'[i].nID = "REQ_CHAT"
        PROVE  posted'[j].nID = "REQ_CHAT"
    <3>1. i \in 1 .. Len(posted)
      BY <2>3, <2>4, <2>5, <2>7
    <3>2. CASE j = Len(posted) + 1
      BY <2>3, <2>4, <2>6, <2>7, <3>1, <3>2
    <3>3. CASE j \in 1 .. Len(posted)
      BY <2>3, <2>4, <2>7, <3>1, <3>3 DEF Ordered
    <3>4. QED  BY <2>4, <2>5, <3>2, <3>3
  <2>8. \A i \in DOMAIN posted' : posted'[i].nID = "REQ_CHAT" => m_bIsLogin
    BY <2>3, <2>4, <2>5 DEF Ordered
  <2>9. QED  BY <2>1, <2>7, <2>8 DEF Ordered, IsConfirmed
<1>4. CASE Quit \/ PostSendEnter \/ PostSendWrite \/ Stop \/ MainClose \/ Join
  <2>1. /\ pc' \in {"enter", "push"} => pc \in {"enter", "push"}
        /\ UNCHANGED <<SendPkt, posted, m_bIsLogin, inbox, served>>
    BY <1>4 DEF Quit, PostSendEnter, PostSendWrite, Stop, MainClose, Join
  <2>2. QED  BY <2>1 DEF Ordered, IsConfirmed
<1>5. ASSUME NEW n \in 1 .. MaxReceived, HandleReceive(n)
      PROVE  Ordered'
  <2>1. /\ n <= Len(inbox)
        /\ m_bIsLogin' = (m_bIsLogin \/ \E i \in 1 .. n : inbox[i] = "RES_IN")
        /\ inbox' = SubSeq(inbox, n + 1, Len(inbox))
        /\ UNCHANGED <<pc, SendPkt, posted, served>>
    BY <1>5 DEF HandleReceive
  <2>2. /\ Len(inbox) \in Nat /\ DOMAIN inbox = 1 .. Len(inbox)
        /\ n \in 0 .. Len(inbox)
    BY <1>1, <2>1, LenProperties, BoundAssumption
  <2>3. /\ inbox' \in Seq(ServerPacket)
        /\ Len(inbox') = Len(inbox) - n
        /\ \A i \in 1 .. Len(inbox) - n : inbox'[i] = inbox[n + i]
    BY <1>1, <2>1, <2>2, SuffixFacts
  <2>4. DOMAIN inbox' = 1 .. Len(inbox) - n
    BY <2>3, LenProperties
  <2>5. \A i \in 1 .. Len(inbox) - n : n + i \in DOMAIN inbox
    BY <2>2
  <2>6. (\E i \in DOMAIN inbox' : inbox'[i] = "RES_IN") => IsConfirmed
    BY <2>3, <2>4, <2>5 DEF Ordered
  <2>7. \A i \in 1 .. n : i \in DOMAIN inbox
    BY <2>2
  <2>8. m_bIsLogin' => IsConfirmed
    BY <2>1, <2>7 DEF Ordered
  <2>9. m_bIsLogin => m_bIsLogin'
    BY <2>1
  <2>10. IsConfirmed' = IsConfirmed
    BY <2>1 DEF IsConfirmed
  <2>11. QED  BY <2>1, <2>6, <2>8, <2>9, <2>10 DEF Ordered
<1>6. CASE Transmit
  <2>1. UNCHANGED <<pc, SendPkt, posted, m_bIsLogin, inbox, served>>
    BY <1>6, TransmitFacts
  <2>2. QED  BY <2>1 DEF Ordered, IsConfirmed
<1>7. CASE ServerSends
  <2>1. PICK pkt \in ServerPacket :
           inbox' = Append(inbox, pkt) /\ served' = Append(served, pkt)
    BY <1>7 DEF ServerSends
  <2>2. UNCHANGED <<pc, SendPkt, posted, m_bIsLogin>>
    BY <1>7 DEF ServerSends
  <2>3. /\ Len(inbox') = Len(inbox) + 1 /\ Len(inbox) \in Nat
        /\ \A i \in 1 .. Len(inbox) : inbox'[i] = inbox[i]
        /\ inbox'[Len(inbox) + 1] = pkt
        /\ DOMAIN inbox = 1 .. Len(inbox) /\ DOMAIN inbox' = 1 .. Len(inbox')
    BY <1>1, <2>1, AppendProperties, LenProperties
  <2>4. /\ Len(served') = Len(served) + 1 /\ Len(served) \in Nat
        /\ \A i \in 1 .. Len(served) : served'[i] = served[i]
        /\ served'[Len(served) + 1] = pkt
        /\ DOMAIN served = 1 .. Len(served) /\ DOMAIN served' = 1 .. Len(served')
    BY <1>1, <2>1, AppendProperties, LenProperties
  <2>5. \A i \in DOMAIN inbox' : i \in DOMAIN inbox \/ i = Len(inbox) + 1
    BY <2>3
  <2>6. /\ \A i \in DOMAIN served : i \in DOMAIN served'
        /\ Len(served) + 1 \in DOMAIN served'
    BY <2>4
  <2>7. (IsConfirmed \/ pkt = "RES_IN") => IsConfirmed'
    BY <2>4, <2>6 DEF IsConfirmed
  <2>8. m_bIsLogin \/ (\E i \in DOMAIN inbox' : inbox'[i] = "RES_IN") => IsConfirmed'
    BY <2>3, <2>5, <2>7 DEF Ordered
  <2>9. QED  BY <2>2, <2>8 DEF Ordered
<1>8. CASE \/ LineRefused \/ HandleConnect \/ HandleReceiveError \/ HandleWrite
           \/ HandleWriteEnter \/ HandleWritePop \/ HandleWriteFront
           \/ ResendEnter \/ ResendWrite \/ RunReturns
           \/ ConnectEnds \/ ConnectionBreaks \/ UNCHANGED vars
  <2>1. UNCHANGED <<pc, SendPkt, posted, m_bIsLogin, inbox, served>>
    BY <1>8 DEF LineRefused, HandleConnect, HandleReceiveError, HandleWrite,
                HandleWriteEnter, HandleWritePop, HandleWriteFront, ResendEnter,
                ResendWrite, RunReturns, ConnectEnds, ConnectionBreaks, vars
  <2>2. QED  BY <2>1 DEF Ordered, IsConfirmed
<1>9. QED
  BY <1>2, <1>3, <1>4, <1>5, <1>6, <1>7, <1>8
     DEF Next, PostSendStep, ExitStep, IoStep

LEMMA InitFInv == Init => FInv
<1> SUFFICES ASSUME Init PROVE FInv
  OBVIOUS
<1>1. CInv
  BY InitCInv
<1>2. Fifo
  <2>1. wire \o Unsent = <<>> /\ Len(posted) = 0
    <3>1. wire = <<>> /\ Unsent = <<>> /\ posted = <<>>
      BY DEF Init, Unsent
    <3>2. QED  BY <3>1, EmptySeq, ConcatEmptySeq
  <2>2. SubSeq(posted, 0 + 1, Len(posted)) = <<>>
    BY <2>1, SubSeqEmpty
  <2>3. FifoFrom(0) /\ 0 \in 0 .. Len(posted)
    BY <2>1, <2>2 DEF FifoFrom
  <2>4. wire = <<>> /\ socket = "connecting"
    BY DEF Init
  <2>5. QED  BY <2>3, <2>4 DEF Fifo
<1>3. Ordered
  BY DEF Init, Ordered, NoPacket
<1>4. QED  BY <1>1, <1>2, <1>3 DEF FInv

LEMMA OrderInvariance == Spec => []FInv
<1>1. CInv /\ [Next]_vars => CInv'
  BY TypeStep, LockStep, WriterStep DEF CInv
<1>2. FInv /\ [Next]_vars => FInv'
  BY <1>1, FifoStep, OrderedStep DEF FInv
<1>3. QED  BY InitFInv, <1>2, PTL DEF Spec

(* While the connection is up nothing posted is skipped, sent twice or sent*)
(* out of order, though handle_write leaves m_lock between taking a packet *)
(* off the queue and writing the next, and lines typed before the          *)
(* connection was up are given up one by one.                              *)
THEOREM FifoCorrect == Spec => []FifoWhileConnected
<1>1. FInv => FifoWhileConnected
  BY DEF FInv, Fifo, FifoFrom, FifoWhileConnected
<1>2. QED  BY OrderInvariance, <1>1, PTL

-----------------------------------------------------------------------------
(* What the server sees of the client, as ChatPeer's variables.            *)

Kinds(w) == [i \in DOMAIN w |-> w[i].nID]

LEMMA KindsFacts ==
  ASSUME NEW w \in Seq(Packet)
  PROVE  /\ Kinds(w) \in Seq({"REQ_IN", "REQ_CHAT"})
         /\ Len(Kinds(w)) = Len(w)
         /\ DOMAIN Kinds(w) = 1 .. Len(w)
         /\ \A i \in 1 .. Len(w) : Kinds(w)[i] = w[i].nID
<1>1. DOMAIN w = 1 .. Len(w) /\ Len(w) \in Nat
  BY LenProperties
<1>2. \A i \in 1 .. Len(w) : w[i].nID \in {"REQ_IN", "REQ_CHAT"}
  <2>1. \A i \in 1 .. Len(w) : w[i] \in Packet
    BY ElementOfSeq
  <2>2. QED  BY <2>1 DEF Packet
<1>3. Kinds(w) \in [1 .. Len(w) -> {"REQ_IN", "REQ_CHAT"}]
  BY <1>1, <1>2 DEF Kinds
<1>4. Kinds(w) \in Seq({"REQ_IN", "REQ_CHAT"})
  BY <1>1, <1>3, SeqDef
<1>5. Len(Kinds(w)) = Len(w)
  BY <1>1, <1>3, <1>4, LenProperties
<1>6. QED  BY <1>1, <1>3, <1>4, <1>5 DEF Kinds

LEMMA KindsAppend ==
  ASSUME NEW w \in Seq(Packet), NEW p \in Packet
  PROVE  Kinds(Append(w, p)) = Append(Kinds(w), p.nID)
<1> DEFINE T == {"REQ_IN", "REQ_CHAT"}
           v == Append(w, p)
           l == Kinds(v)
           r == Append(Kinds(w), p.nID)
<1>1. /\ v \in Seq(Packet) /\ Len(v) = Len(w) + 1 /\ Len(w) \in Nat
      /\ \A i \in 1 .. Len(w) : v[i] = w[i]
      /\ v[Len(w) + 1] = p
  BY AppendProperties, LenProperties
<1>2. p.nID \in T
  BY DEF Packet
<1> HIDE DEF v
<1>3. l \in Seq(T) /\ Len(l) = Len(v) /\ \A i \in 1 .. Len(v) : l[i] = v[i].nID
  BY <1>1, KindsFacts
<1>4. /\ Kinds(w) \in Seq(T) /\ Len(Kinds(w)) = Len(w)
      /\ \A i \in 1 .. Len(w) : Kinds(w)[i] = w[i].nID
  BY KindsFacts
<1> HIDE DEF l, T
<1>5. /\ r \in Seq(T) /\ Len(r) = Len(w) + 1
      /\ \A i \in 1 .. Len(w) : r[i] = Kinds(w)[i]
      /\ r[Len(w) + 1] = p.nID
  BY <1>2, <1>4, AppendProperties
<1> HIDE DEF r
<1>6. ASSUME NEW i \in 1 .. Len(l)
      PROVE  l[i] = r[i]
  <2>1. i \in 1 .. Len(w) \/ i = Len(w) + 1
    BY <1>1, <1>3
  <2>2. l[i] = v[i].nID
    BY <1>3
  <2>3. QED  BY <1>1, <1>4, <1>5, <2>1, <2>2
<1>7. Len(l) = Len(r)
  BY <1>1, <1>3, <1>5
<1>8. l = r
  BY <1>3, <1>5, <1>6, <1>7, SeqEqual
<1>9. QED  BY <1>8 DEF l, r, v

(* The packet to be sent next, and those sent, are posted in this order.   *)
LEMMA NextPacket ==
  ASSUME FInv, Transmit
  PROVE  /\ m_SendDataQueue # <<>> /\ Head(m_SendDataQueue) \in Packet
         /\ wire' = Append(wire, Head(m_SendDataQueue))
         /\ UNCHANGED served
         /\ Head(m_SendDataQueue).nID = "REQ_IN"
              => \A i \in 1 .. Len(wire) : wire[i].nID # "REQ_CHAT"
         /\ Head(m_SendDataQueue).nID = "REQ_CHAT" => IsConfirmed
<1> DEFINE q == m_SendDataQueue
<1>1. /\ CInv /\ Fifo /\ Ordered
      /\ q \in Seq(Packet) /\ wire \in Seq(Packet) /\ posted \in Seq(Packet)
  BY DEF FInv, CInv, TypeOK
<1>2. /\ pc # "end" /\ socket = "connected"
      /\ writes # <<>> /\ Head(writes).st = "going"
      /\ q # <<>>
      /\ wire' = Append(wire, Head(q))
      /\ UNCHANGED served
  BY <1>1, TransmitFacts DEF serverVars
<1>3. ioPc \notin {"enter", "pop"}
  BY <1>1, <1>2 DEF CInv, OneWriter
<1>4. Unsent = q
  BY <1>2, <1>3 DEF Unsent
<1>5. PICK k \in 0 .. Len(posted) : wire \o q = SubSeq(posted, k + 1, Len(posted))
  BY <1>1, <1>2, <1>4 DEF Fifo, FifoFrom
<1> DEFINE u == wire \o q
           n == Len(wire)
<1>6. /\ Head(q) \in Packet /\ Head(q) = q[1]
      /\ Len(q) \in Nat \ {0} /\ n \in Nat
  BY <1>1, <1>2, HeadTailProperties, EmptySeq, LenProperties
<1>7. /\ Len(u) = n + Len(q)
      /\ \A i \in 1 .. n + Len(q) : u[i] = IF i <= n THEN wire[i] ELSE q[i - n]
  BY <1>1, ConcatProperties
<1>8. /\ Len(u) = Len(posted) - k /\ Len(posted) \in Nat
      /\ \A i \in 1 .. Len(posted) - k : u[i] = posted[k + i]
  BY <1>1, <1>5, SuffixFacts, LenProperties
<1>9. DOMAIN posted = 1 .. Len(posted)
  BY <1>1, LenProperties
<1> HIDE DEF u, q
<1>10. ASSUME NEW i \in 1 .. n
       PROVE  /\ k + i \in DOMAIN posted /\ k + i < k + (n + 1)
              /\ wire[i] = posted[k + i]
  <2>1. i \in 1 .. n + Len(q) /\ i \in 1 .. Len(posted) - k /\ i <= n
    BY <1>6, <1>7, <1>8
  <2>2. wire[i] = posted[k + i]
    BY <1>7, <1>8, <2>1
  <2>3. QED  BY <1>6, <1>8, <1>9, <2>1, <2>2
<1>11. /\ k + (n + 1) \in DOMAIN posted
       /\ Head(q) = posted[k + (n + 1)]
  <2>1. /\ n + 1 \in 1 .. n + Len(q) /\ n + 1 \in 1 .. Len(posted) - k
        /\ ~(n + 1 <= n) /\ (n + 1) - n = 1
    BY <1>6, <1>7, <1>8
  <2>2. u[n + 1] = q[1] /\ u[n + 1] = posted[k + (n + 1)]
    BY <1>7, <1>8, <2>1
  <2>3. QED  BY <1>6, <1>8, <1>9, <2>1, <2>2
<1>12. ASSUME Head(q).nID = "REQ_IN", NEW i \in 1 .. n
       PROVE  wire[i].nID # "REQ_CHAT"
  BY <1>1, <1>10, <1>11, <1>12 DEF Ordered
<1>13. Head(q).nID = "REQ_CHAT" => IsConfirmed
  BY <1>1, <1>11 DEF Ordered
<1>14. QED  BY <1>2, <1>6, <1>12, <1>13 DEF q

LEMMA PeerInit == Init => Peer!Init
<1> SUFFICES ASSUME Init PROVE Peer!Init
  OBVIOUS
<1>1. /\ Kinds(<<>>) \in Seq({"REQ_IN", "REQ_CHAT"})
      /\ Len(Kinds(<<>>)) = Len(<<>>)
  BY EmptySeq, KindsFacts
<1>2. Kinds(<<>>) = <<>>
  BY <1>1, EmptySeq
<1>3. Kinds(wire) = <<>> /\ served = <<>>
  BY <1>2 DEF Init
<1>4. QED  BY <1>3 DEF Peer!Init, Kinds

LEMMA TransmitIsRequest ==
  ASSUME FInv, Transmit
  PROVE  Peer!Next
<1> DEFINE p == Head(m_SendDataQueue)
<1>1. /\ p \in Packet /\ wire' = Append(wire, p) /\ served' = served
      /\ p.nID = "REQ_IN" => \A i \in 1 .. Len(wire) : wire[i].nID # "REQ_CHAT"
      /\ p.nID = "REQ_CHAT" => IsConfirmed
  BY NextPacket
<1> HIDE DEF p
<1>2. wire \in Seq(Packet)
  BY DEF FInv, CInv, TypeOK
<1>3. Kinds(wire') = Append(Kinds(wire), p.nID)
  BY <1>1, <1>2, KindsAppend
<1>4. p.nID \in {"REQ_IN", "REQ_CHAT"}
  BY <1>1 DEF Packet
<1>5. CASE p.nID = "REQ_IN"
  <2>1. \A i \in DOMAIN Kinds(wire) : Kinds(wire)[i] # "REQ_CHAT"
    BY <1>1, <1>2, <1>5, KindsFacts
  <2>2. Kinds(wire') = Append(Kinds(wire), "REQ_IN")
    BY <1>3, <1>5
  <2>3. Peer!Login
    BY <1>1, <2>1, <2>2 DEF Peer!Login, Peer!Talking, Kinds
  <2>4. QED  BY <2>3 DEF Peer!Next
<1>6. CASE p.nID = "REQ_CHAT"
  <2>1. Kinds(wire') = Append(Kinds(wire), "REQ_CHAT")
    BY <1>3, <1>6
  <2>2. Peer!Say
    BY <1>1, <1>6, <2>1 DEF Peer!Say, Peer!Confirmed, IsConfirmed, Kinds
  <2>3. QED  BY <2>2 DEF Peer!Next
<1>7. QED  BY <1>4, <1>5, <1>6

LEMMA ServerSendsIsServe ==
  ASSUME ServerSends
  PROVE  Peer!Next
<1>1. (\E pkt \in {"RES_IN", "NOTICE_CHAT"} : served' = Append(served, pkt)) /\ wire' = wire
  BY DEF ServerSends, ServerPacket
<1>2. Peer!Serve
  BY <1>1 DEF Peer!Serve
<1>3. QED  BY <1>2 DEF Peer!Next

(* The client sends names until it sends a message, and messages only once *)
(* the server, which may send anything at any time, has sent it a RES_IN,  *)
(* whatever its threads do between the line being typed and the packet     *)
(* being on the wire: it implements ChatPeer.                              *)
THEOREM ClientIsPeer == Spec => FollowsProtocol
<1>1. FInv /\ [Next]_vars => [Peer!Next]_(Peer!vars)
  <2> SUFFICES ASSUME FInv, [Next]_vars PROVE [Peer!Next]_(Peer!vars)
    OBVIOUS
  <2>1. CASE Transmit
    BY <2>1, TransmitIsRequest
  <2>2. CASE ServerSends
    BY <2>2, ServerSendsIsServe
  <2>3. ASSUME UNCHANGED <<wire, served>>
        PROVE  UNCHANGED Peer!vars
    BY <2>3 DEF Peer!vars
  <2>4. CASE \/ LineRefused \/ LineAccepted \/ Quit
             \/ PostSendEnter \/ PostSendPush \/ PostSendWrite
             \/ Stop \/ MainClose \/ Join
    BY <2>3, <2>4 DEF LineRefused, LineAccepted, Quit, PostSendEnter, PostSendPush,
                      PostSendWrite, Stop, MainClose, Join, serverVars
  <2>5. CASE \/ HandleConnect \/ HandleReceiveError \/ HandleWrite
             \/ HandleWriteEnter \/ HandleWritePop \/ HandleWriteFront
             \/ ResendEnter \/ ResendWrite \/ RunReturns
             \/ ConnectEnds \/ ConnectionBreaks \/ UNCHANGED vars
    BY <2>3, <2>5 DEF HandleConnect, HandleReceiveError, HandleWrite,
                      HandleWriteEnter, HandleWritePop, HandleWriteFront,
                      ResendEnter, ResendWrite, RunReturns, ConnectEnds,
                      ConnectionBreaks, serverVars, vars
  <2>6. ASSUME NEW n \in 1 .. MaxReceived, HandleReceive(n)
        PROVE  UNCHANGED Peer!vars
    BY <2>3, <2>6 DEF HandleReceive
  <2>7. QED
    BY <2>1, <2>2, <2>4, <2>5, <2>6 DEF Next, PostSendStep, ExitStep, IoStep
<1>2. QED
  BY PeerInit, OrderInvariance, <1>1, PTL DEF Spec, FollowsProtocol, Peer!Spec
=============================================================================
