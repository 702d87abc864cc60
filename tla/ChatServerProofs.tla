-------------------------- MODULE ChatServerProofs --------------------------
(***************************************************************************)
(* Proofs about ChatServer for any number of sessions and clients: first   *)
(* of its pool, its accepts, reads and writes; then of what its clients    *)
(* get, that each gets every message once and in order, that ChatServer    *)
(* implements ChatRoom, and that clients are not mixed up.                 *)
(***************************************************************************)
EXTENDS ChatServerRoom, SequenceLemmas, FiniteSetTheorems

(* A client is at most once in the backlog, and not also on a session.     *)
WaitingOnce ==
    /\ Distinct(backlog)
    /\ \A c \in Range(backlog) : /\ link[c] # "away"
                                 /\ \A s \in Open : peer[s] # c
    /\ \A s \in Open : link[peer[s]] # "away"

IInv == /\ TypeOK
        /\ SessionConservation
        /\ AcceptPosted
        /\ OneReader
        /\ OneWrite
        /\ WaitingOnce

-----------------------------------------------------------------------------
(* PostAccept, when no accept is outstanding, moves one id of the queue to *)
(* the new accept, if there is one.                                        *)
LEMMA PostAcceptPool ==
  ASSUME NEW q \in Seq(Sessions), Distinct(q), PostAccept(q, {})
  PROVE  /\ m_SessionQueue' \in Seq(Sessions)
         /\ Distinct(m_SessionQueue')
         /\ m_bIsAccepting' \in BOOLEAN
         /\ accepting' \subseteq Sessions
         /\ Range(m_SessionQueue') \cup accepting' = Range(q)
         /\ Range(m_SessionQueue') \cap accepting' = {}
         /\ \A s, t \in accepting' : s = t
         /\ m_bIsAccepting' <=> accepting' # {}
         /\ m_SessionQueue' # <<>> => m_bIsAccepting'
<1>1. CASE q = <<>>
  BY <1>1 DEF PostAccept, Range
<1>2. CASE q # <<>>
  <2>1. /\ m_bIsAccepting' = TRUE
        /\ m_SessionQueue' = Tail(q)
        /\ accepting' = {Head(q)}
    BY <1>2 DEF PostAccept
  <2>2. /\ Tail(q) \in Seq(Sessions)
        /\ Head(q) \in Sessions
        /\ Range(q) = Range(Tail(q)) \cup {Head(q)}
        /\ Distinct(Tail(q)) /\ Head(q) \notin Range(Tail(q))
    BY <1>2, TailContents
  <2>3. QED  BY <2>1, <2>2
<1>3. QED  BY <1>1, <1>2

-----------------------------------------------------------------------------
Packet == [data : Reply, to : Clients \cup {None}]

(* A write or two never leaves the type of m_SendDataQueue and writes.     *)
LEMMA PostSendType ==
  ASSUME TypeOK, NEW pkt \in Reply, NEW R, PostSend(R, pkt)
  PROVE  /\ m_SendDataQueue' \in [Sessions -> Seq(Reply)]
         /\ writes' \in [Sessions -> Seq(Packet)]
<1>1. \A s \in Sessions : Append(m_SendDataQueue[s], pkt) \in Seq(Reply)
  BY AppendContents DEF TypeOK
<1>2. \A s \in Sessions : [data |-> pkt, to |-> peer[s]] \in Packet
  BY DEF TypeOK, Packet
<1>3. \A s \in Sessions :
          Append(writes[s], [data |-> pkt, to |-> peer[s]]) \in Seq(Packet)
  BY <1>2, AppendContents DEF TypeOK, Packet
<1>4. m_SendDataQueue' \in [Sessions -> Seq(Reply)]
  BY <1>1 DEF TypeOK, PostSend, QueueAfterSend
<1>5. writes' \in [Sessions -> Seq(Packet)]
  BY <1>3 DEF TypeOK, PostSend, WritesAfterSend, Packet
<1>6. QED  BY <1>4, <1>5

(* What cancelling leaves of a list of at most one outstanding write.      *)
LEMMA CancelType ==
  ASSUME NEW w \in Seq(Packet), w = <<>> \/ Len(w) = 1
  PROVE  /\ [i \in DOMAIN w |-> [w[i] EXCEPT !.to = None]] \in Seq(Packet)
         /\ w = <<>> => [i \in DOMAIN w |-> [w[i] EXCEPT !.to = None]] = <<>>
         /\ w # <<>> => [i \in DOMAIN w |-> [w[i] EXCEPT !.to = None]]
                            = <<[data |-> Head(w).data, to |-> None]>>
<1>1. CASE w = <<>>
  BY <1>1
<1>2. CASE Len(w) = 1
  <2>1. DOMAIN w = {1} /\ w[1] = Head(w) /\ w[1] \in Packet /\ w # <<>>
    BY <1>2, LenProperties, ElementOfSeq, EmptySeq
  <2>2. [w[1] EXCEPT !.to = None] = [data |-> w[1].data, to |-> None]
    BY <2>1 DEF Packet
  <2>3. [i \in DOMAIN w |-> [w[i] EXCEPT !.to = None]]
           = <<[data |-> w[1].data, to |-> None]>>
    BY <2>1, <2>2
  <2>4. [data |-> w[1].data, to |-> None] \in Packet
    BY <2>1 DEF Packet
  <2>5. <<[data |-> w[1].data, to |-> None]>> \in Seq(Packet)
    BY <2>4
  <2>6. QED  BY <2>1, <2>3, <2>5
<1>3. QED  BY <1>1, <1>2

LEMMA InitType == Init => TypeOK
<1> SUFFICES ASSUME Init PROVE TypeOK
  OBVIOUS
<1>1. m_SessionQueue \in Seq(Sessions)
  BY PoolAssumption DEF Init, Sessions
<1>2. accepting \subseteq Sessions
  BY PoolAssumption DEF Init, Sessions
<1>3. QED  BY <1>1, <1>2, BoundAssumption DEF Init, TypeOK

-----------------------------------------------------------------------------
(* Each step preserves the type invariant.                                 *)

LEMMA NextPacketType ==
  ASSUME TypeOK, NEW s \in Sessions, batch # <<>>, NextPacket(s)
  PROVE  /\ batch' \in Seq(Request)
         /\ handling' \in Sessions \cup {None}
         /\ reading' \subseteq Sessions
<1>1. batch' \in Seq(Request)
  BY TailContents DEF TypeOK, NextPacket
<1>2. QED  BY <1>1 DEF TypeOK, NextPacket

LEMMA PoolType ==
  ASSUME IInv, NEW s \in Sessions, HandleAccept(s) \/ HandleReceiveError(s)
  PROVE  /\ m_SessionQueue' \in Seq(Sessions)
         /\ m_bIsAccepting' \in BOOLEAN
         /\ accepting' \subseteq Sessions
<1>1. Distinct(m_SessionQueue) /\ m_SessionQueue \in Seq(Sessions)
  BY DEF IInv, SessionConservation, TypeOK, Distinct
<1>2. CASE HandleAccept(s)
  <2>1. accepting \ {s} = {}
    BY <1>2 DEF IInv, AcceptPosted, HandleAccept
  <2>2. PostAccept(m_SessionQueue, {})
    BY <1>2, <2>1 DEF HandleAccept
  <2>3. QED  BY <1>1, <2>2, PostAcceptPool
<1>3. CASE HandleReceiveError(s)
  <2>1. s \in Open
    BY <1>3 DEF HandleReceiveError, IInv, OneReader
  <2>2. s \notin Range(m_SessionQueue)
    BY <2>1 DEF IInv, SessionConservation
  <2>3. /\ Append(m_SessionQueue, s) \in Seq(Sessions)
        /\ Distinct(Append(m_SessionQueue, s))
    BY <1>1, <2>2, AppendContents
  <2>4. CASE m_bIsAccepting = FALSE
    <3>1. accepting = {}
      BY <2>4 DEF IInv, AcceptPosted
    <3>2. PostAccept(Append(m_SessionQueue, s), {})
      BY <1>3, <2>4, <3>1 DEF HandleReceiveError, CloseSession
    <3>3. QED  BY <2>3, <3>2, PostAcceptPool
  <2>5. CASE m_bIsAccepting = TRUE
    BY <1>3, <2>3, <2>5 DEF HandleReceiveError, CloseSession, IInv, TypeOK
  <2>6. QED  BY <2>4, <2>5 DEF IInv, TypeOK
<1>4. QED  BY <1>2, <1>3

LEMMA TypeStep == IInv /\ [Next]_vars => TypeOK'
<1> SUFFICES ASSUME IInv, [Next]_vars  PROVE TypeOK'
  OBVIOUS
<1> TypeOK
  BY DEF IInv
<1>1. ASSUME NEW s \in Sessions, HandleAccept(s)
      PROVE  TypeOK'
  <2>1. /\ m_SessionQueue' \in Seq(Sessions)
        /\ m_bIsAccepting' \in BOOLEAN
        /\ accepting' \subseteq Sessions
    BY <1>1, PoolType
  <2>2. Head(backlog) \in Clients /\ Tail(backlog) \in Seq(Clients)
    BY <1>1, TailContents DEF HandleAccept, TypeOK
  <2>3. Len(chat) \in Nat
    BY LenProperties DEF TypeOK
  <2>4. QED  BY <1>1, <2>1, <2>2, <2>3
             DEF HandleAccept, TypeOK, sendVars, clientVars
<1>2. ASSUME NEW s \in Sessions, HandleAcceptError(s)
      PROVE  TypeOK'
  BY <1>2 DEF HandleAcceptError, TypeOK, sessionVars, sendVars, clientVars,
              historyVars
<1>3. ASSUME NEW s \in Sessions, NEW n \in 1 .. MaxPackets, HandleReceive(s, n)
      PROVE  TypeOK'
  <2>1. peer[s] \in Clients
    BY <1>3 DEF HandleReceive, IInv, OneReader, Open, TypeOK
  <2>2. /\ c2s[peer[s]] \in Seq(Request)
        /\ Len(c2s[peer[s]]) \in Nat
        /\ n \in Int /\ 1 <= n /\ n <= Len(c2s[peer[s]])
    BY <1>3, <2>1, LenProperties, BoundAssumption DEF HandleReceive, TypeOK
  <2>3. \A i \in 1 .. Len(c2s[peer[s]]) : c2s[peer[s]][i] \in Request
    BY <2>2, ElementOfSeq
  <2>4. \A i \in 1 .. n : c2s[peer[s]][i] \in Request
    BY <2>2, <2>3
  <2>5. \A i \in n + 1 .. Len(c2s[peer[s]]) : c2s[peer[s]][i] \in Request
    BY <2>2, <2>3
  <2>6. SubSeq(c2s[peer[s]], 1, n) \in Seq(Request)
    BY <2>2, <2>4, SubSeqProperties
  <2>7. SubSeq(c2s[peer[s]], n + 1, Len(c2s[peer[s]])) \in Seq(Request)
    BY <2>2, <2>5, SubSeqProperties
  <2>8. QED  BY <1>3, <2>6, <2>7
             DEF HandleReceive, TypeOK, serverVars, sendVars, clientVars, historyVars
<1>4. ASSUME NEW s \in Sessions, HandleReceiveError(s)
      PROVE  TypeOK'
  <2>1. /\ m_SessionQueue' \in Seq(Sessions)
        /\ m_bIsAccepting' \in BOOLEAN
        /\ accepting' \subseteq Sessions
    BY <1>4, PoolType
  <2>2. writes[s] \in Seq(Packet) /\ (writes[s] = <<>> \/ Len(writes[s]) = 1)
    BY DEF TypeOK, Packet, IInv, OneWrite
  <2>3. [i \in DOMAIN writes[s] |-> [writes[s][i] EXCEPT !.to = None]] \in Seq(Packet)
    BY <2>2, CancelType
  <2>4. writes' \in [Sessions -> Seq(Packet)]
    BY <1>4, <2>3 DEF HandleReceiveError, CloseSession, TypeOK, Packet
  <2>5. QED  BY <1>4, <2>1, <2>4
             DEF HandleReceiveError, CloseSession, TypeOK, clientVars, historyVars,
                 Packet
<1>5. ASSUME NEW s \in Sessions, ProcessReqIn(s)
      PROVE  TypeOK'
  <2>1. Head(batch) \in Request
    BY <1>5, TailContents DEF ProcessReqIn, TypeOK
  <2>2. Head(batch).text \in Clients /\ ResIn(Head(batch).text) \in Reply
    BY <2>1 DEF Request, Reply, ResIn
  <2>3. /\ m_SendDataQueue' \in [Sessions -> Seq(Reply)]
        /\ writes' \in [Sessions -> Seq(Packet)]
    BY <1>5, <2>2, PostSendType DEF ProcessReqIn
  <2>4. /\ batch' \in Seq(Request)
        /\ handling' \in Sessions \cup {None}
        /\ reading' \subseteq Sessions
    BY <1>5, NextPacketType DEF ProcessReqIn
  <2>5. QED  BY <1>5, <2>2, <2>3, <2>4
             DEF ProcessReqIn, TypeOK, serverVars, clientVars, historyVars, Packet
<1>6. ASSUME NEW s \in Sessions, ProcessReqChat(s)
      PROVE  TypeOK'
  <2>1. Head(batch) \in Request
    BY <1>6, TailContents DEF ProcessReqChat, TypeOK
  <2>2. Len(chat) \in Nat
    BY LenProperties DEF TypeOK
  <2>3. Head(batch).text \in Clients /\ Notice(Len(chat) + 1) \in Reply
    BY <2>1, <2>2 DEF Request, Reply, Notice
  <2>4. /\ m_SendDataQueue' \in [Sessions -> Seq(Reply)]
        /\ writes' \in [Sessions -> Seq(Packet)]
    BY <1>6, <2>3, PostSendType DEF ProcessReqChat
  <2>5. /\ batch' \in Seq(Request)
        /\ handling' \in Sessions \cup {None}
        /\ reading' \subseteq Sessions
    BY <1>6, NextPacketType DEF ProcessReqChat
  <2>6. chat' \in Seq([szName : Clients \cup {None}, text : Clients])
    BY <1>6, <2>3 DEF ProcessReqChat, TypeOK
  <2>7. QED  BY <1>6, <2>4, <2>5, <2>6
             DEF ProcessReqChat, TypeOK, serverVars, clientVars, Packet
<1>7. ASSUME NEW s \in Sessions, HandleWrite(s)
      PROVE  TypeOK'
  <2>1. m_SendDataQueue[s] # <<>>
    BY <1>7 DEF HandleWrite, IInv, OneWrite
  <2> DEFINE q == Tail(m_SendDataQueue[s])
             w == Tail(writes[s])
  <2>2. q \in Seq(Reply) /\ w \in Seq(Packet)
    BY <1>7, <2>1, TailContents DEF HandleWrite, TypeOK, Packet
  <2>3. q # <<>> => Append(w, [data |-> Head(q), to |-> peer[s]]) \in Seq(Packet)
    <3>1. q # <<>> => [data |-> Head(q), to |-> peer[s]] \in Packet
      BY <2>2, TailContents DEF Packet, TypeOK
    <3>2. QED  BY <2>2, <3>1
  <2>4. /\ m_SendDataQueue' \in [Sessions -> Seq(Reply)]
        /\ writes' \in [Sessions -> Seq(Packet)]
    BY <1>7, <2>2, <2>3 DEF HandleWrite, WritesAfterSend, TypeOK, Packet
  <2>5. QED  BY <1>7, <2>4
             DEF HandleWrite, TypeOK, serverVars, sessionVars, clientVars,
                 historyVars, Packet
<1>8. ASSUME NEW s \in Sessions, NEW i \in DOMAIN writes[s], Transmit(s, i)
      PROVE  TypeOK'
  <2>1. /\ writes[s] \in Seq(Packet)
        /\ i \in 1 .. Len(writes[s])
        /\ writes[s][i] \in Packet
    <3>1. writes[s] \in Seq(Packet)
      BY DEF TypeOK, Packet
    <3>2. i \in 1 .. Len(writes[s])
      BY <3>1, LenProperties
    <3>3. QED  BY <3>1, <3>2, ElementOfSeq
  <2>2. [writes[s][i] EXCEPT !.to = None] \in Packet
    BY <2>1 DEF Packet
  <2>3. [writes[s] EXCEPT ![i] = [writes[s][i] EXCEPT !.to = None]] \in Seq(Packet)
    BY <2>1, <2>2, ExceptSeq
  <2>4. writes' \in [Sessions -> Seq(Packet)]
    BY <1>8, <2>3 DEF Transmit, TypeOK, Packet
  <2>5. writes[s][i].data \in Reply
    BY <2>1 DEF Packet
  <2>6. s2c' \in [Clients -> Seq(Reply)]
    BY <1>8, <2>5, AppendContents DEF Transmit, TypeOK
  <2>7. QED  BY <1>8, <2>4, <2>6
             DEF Transmit, TypeOK, serverVars, sessionVars, clientVars, historyVars,
                 Packet
<1>9. ASSUME NEW c \in Clients, ClientConnect(c)
      PROVE  TypeOK'
  <2>1. Append(backlog, c) \in Seq(Clients)
    BY AppendContents DEF TypeOK
  <2>2. QED  BY <1>9, <2>1
             DEF ClientConnect, TypeOK, serverVars, sessionVars, sendVars, historyVars
<1>10. ASSUME NEW c \in Clients, ClientSend(c)
       PROVE  TypeOK'
  <2>1. ReqIn(c) \in Request /\ ReqChat(c) \in Request
    BY DEF ReqIn, ReqChat, Request
  <2>2. c2s' \in [Clients -> Seq(Request)]
    BY <1>10, <2>1, AppendContents DEF ClientSend, TypeOK
  <2>3. sent' \in [Clients -> 0 .. MaxPackets]
    BY <1>10, BoundAssumption DEF ClientSend, TypeOK
  <2>4. QED  BY <1>10, <2>2, <2>3
             DEF ClientSend, TypeOK, serverVars, sessionVars, sendVars, historyVars
<1>11. ASSUME NEW c \in Clients, ClientClose(c)
       PROVE  TypeOK'
  BY <1>11 DEF ClientClose, TypeOK, serverVars, sessionVars, sendVars, historyVars
<1>12. CASE UNCHANGED vars
  BY <1>12 DEF vars, TypeOK, serverVars, sessionVars, sendVars, clientVars, historyVars
<1>13. QED  BY <1>1, <1>2, <1>3, <1>4, <1>5, <1>6, <1>7, <1>8, <1>9, <1>10,
               <1>11, <1>12
            DEF Next, Receive, Process, SendStep

-----------------------------------------------------------------------------
(* handle_accept opens one session.                                        *)
LEMMA OneMoreOpen ==
  ASSUME TypeOK, NEW s \in Sessions, NEW c \in Clients, peer' = [peer EXCEPT ![s] = c]
  PROVE  Open' = Open \cup {s}
<1>1. /\ c # None
      /\ \A t \in Sessions : peer'[t] = IF t = s THEN c ELSE peer[t]
  BY NoneAssumption DEF TypeOK
<1>2. QED  BY <1>1 DEF Open

(* Each step preserves the invariants of the pool.                         *)

LEMMA PoolStep == IInv /\ [Next]_vars => SessionConservation' /\ AcceptPosted'
<1> SUFFICES ASSUME IInv, [Next]_vars
             PROVE  SessionConservation' /\ AcceptPosted'
  OBVIOUS
<1> USE DEF IInv
<1>1. /\ Distinct(m_SessionQueue) /\ m_SessionQueue \in Seq(Sessions)
      /\ accepting \subseteq Sessions
      /\ Open \subseteq Sessions
      /\ Range(m_SessionQueue) \subseteq Sessions
  <2>1. Range(m_SessionQueue) \subseteq Sessions
    BY LenProperties, ElementOfSeq DEF TypeOK, Range
  <2>2. QED  BY <2>1 DEF SessionConservation, TypeOK, Distinct, Open
<1>2. ASSUME NEW s \in Sessions, HandleAccept(s)
      PROVE  SessionConservation' /\ AcceptPosted'
  <2>1. accepting = {s}
    BY <1>2 DEF AcceptPosted, HandleAccept
  <2>2. PostAccept(m_SessionQueue, {})
    BY <1>2, <2>1 DEF HandleAccept
  <2>3. /\ Distinct(m_SessionQueue')
        /\ Range(m_SessionQueue') \cup accepting' = Range(m_SessionQueue)
        /\ Range(m_SessionQueue') \cap accepting' = {}
        /\ \A a, b \in accepting' : a = b
        /\ m_bIsAccepting' <=> accepting' # {}
        /\ m_SessionQueue' # <<>> => m_bIsAccepting'
    BY <1>1, <2>2, PostAcceptPool
  <2>4. Open' = Open \cup {s}
    <3>1. Head(backlog) \in Clients
      BY <1>2, TailContents DEF HandleAccept, TypeOK
    <3>2. peer' = [peer EXCEPT ![s] = Head(backlog)]
      BY <1>2 DEF HandleAccept
    <3>3. QED  BY <3>1, <3>2, OneMoreOpen
  <2>5. Lost = {}
    BY <2>1 DEF SessionConservation
  <2>6. Lost' = {}
    BY <2>1, <2>3, <2>4, <2>5 DEF Lost
  <2>7. s \notin Range(m_SessionQueue)
    BY <2>1 DEF SessionConservation
  <2>8. SessionConservation'
    BY <2>1, <2>3, <2>4, <2>6, <2>7 DEF SessionConservation, Distinct
  <2>9. AcceptPosted'
    BY <2>3 DEF AcceptPosted
  <2>10. QED  BY <2>8, <2>9
<1>3. ASSUME NEW s \in Sessions, HandleAcceptError(s)
      PROVE  SessionConservation' /\ AcceptPosted'
  <2>1. accepting = {s} /\ m_bIsAccepting
    BY <1>3 DEF AcceptPosted, HandleAcceptError
  <2>2. /\ m_SessionQueue' = m_SessionQueue
        /\ m_bIsAccepting' = m_bIsAccepting
        /\ accepting' = {}
        /\ Open' = Open
    BY <1>3, <2>1 DEF HandleAcceptError, Open, sessionVars
  <2>3. Lost = {}
    BY <2>1 DEF SessionConservation
  <2>4. s \notin Range(m_SessionQueue) /\ s \notin Open
    BY <2>1 DEF SessionConservation
  <2>5. Lost' = {s}
    <3>1. Lost' = Sessions \ (Range(m_SessionQueue) \cup Open)
      BY <2>2 DEF Lost, Range
    <3>2. Sessions = Range(m_SessionQueue) \cup {s} \cup Open
      BY <1>1, <2>1, <2>3 DEF Lost
    <3>3. QED  BY <3>1, <3>2, <2>4
  <2>6. Range(m_SessionQueue') = Range(m_SessionQueue)
    BY <2>2
  <2>7. SessionConservation'
    BY <1>1, <2>1, <2>2, <2>5, <2>6 DEF SessionConservation, Distinct
  <2>8. AcceptPosted'
    BY <1>3, <2>1, <2>2 DEF AcceptPosted, HandleAcceptError
  <2>9. QED  BY <2>7, <2>8
<1>4. ASSUME NEW s \in Sessions, HandleReceiveError(s)
      PROVE  SessionConservation' /\ AcceptPosted'
  <2>1. s \in Open
    BY <1>4 DEF HandleReceiveError, OneReader
  <2>2. Open' = Open \ {s}
    BY <1>4 DEF HandleReceiveError, CloseSession, Open, TypeOK
  <2>3. s \notin Range(m_SessionQueue) /\ s \notin accepting
    BY <2>1 DEF SessionConservation
  <2>4. /\ Append(m_SessionQueue, s) \in Seq(Sessions)
        /\ Append(m_SessionQueue, s) # <<>>
        /\ Distinct(Append(m_SessionQueue, s))
        /\ Range(Append(m_SessionQueue, s)) = Range(m_SessionQueue) \cup {s}
    BY <1>1, <2>3, AppendContents
  <2>5. CASE m_bIsAccepting = FALSE
    <3>1. accepting = {} /\ Lost = {}
      BY <2>5 DEF AcceptPosted, SessionConservation
    <3>2. PostAccept(Append(m_SessionQueue, s), {})
      BY <1>4, <2>5, <3>1 DEF HandleReceiveError, CloseSession
    <3>3. /\ Distinct(m_SessionQueue')
          /\ Range(m_SessionQueue') \cup accepting' = Range(m_SessionQueue) \cup {s}
          /\ Range(m_SessionQueue') \cap accepting' = {}
          /\ \A a, b \in accepting' : a = b
          /\ m_bIsAccepting' <=> accepting' # {}
          /\ m_SessionQueue' # <<>> => m_bIsAccepting'
      BY <2>4, <3>2, PostAcceptPool
    <3>4. Lost' = {}
      BY <2>2, <3>1, <3>3 DEF Lost
    <3>5. SessionConservation'
      BY <2>2, <3>1, <3>3, <3>4 DEF SessionConservation, Distinct
    <3>6. AcceptPosted'
      BY <3>3 DEF AcceptPosted
    <3>7. QED  BY <3>5, <3>6
  <2>6. CASE m_bIsAccepting = TRUE
    <3>1. /\ m_SessionQueue' = Append(m_SessionQueue, s)
          /\ m_bIsAccepting' = TRUE
          /\ accepting' = accepting
      BY <1>4, <2>6 DEF HandleReceiveError, CloseSession
    <3>2. Range(m_SessionQueue') = Range(m_SessionQueue) \cup {s}
      BY <2>4, <3>1
    <3>3. Lost' = Lost
      BY <1>1, <2>1, <2>2, <3>1, <3>2 DEF Lost
    <3>4. SessionConservation'
      BY <2>2, <2>3, <2>4, <2>6, <3>1, <3>2, <3>3 DEF SessionConservation, Distinct
    <3>5. AcceptPosted'
      BY <2>6, <3>1 DEF AcceptPosted
    <3>6. QED  BY <3>4, <3>5
  <2>7. QED  BY <2>5, <2>6 DEF TypeOK
<1>5. ASSUME UNCHANGED <<serverVars, peer>>
      PROVE  SessionConservation' /\ AcceptPosted'
  <2>1. /\ Range(m_SessionQueue') = Range(m_SessionQueue)
        /\ Open' = Open
        /\ Lost' = Lost
    BY <1>5 DEF serverVars, Range, Open, Lost
  <2>2. QED  BY <1>5, <2>1 DEF serverVars, SessionConservation, AcceptPosted
<1>6. QED
  <2>1. ASSUME NEW s \in Sessions,
               \/ \E n \in 1 .. MaxPackets : HandleReceive(s, n)
               \/ ProcessReqIn(s)
               \/ ProcessReqChat(s)
               \/ HandleWrite(s)
               \/ \E i \in DOMAIN writes[s] : Transmit(s, i)
        PROVE  UNCHANGED <<serverVars, peer>>
    BY <2>1 DEF HandleReceive, ProcessReqIn, ProcessReqChat, HandleWrite, Transmit,
                sessionVars
  <2>2. ASSUME NEW c \in Clients,
               ClientConnect(c) \/ ClientSend(c) \/ ClientClose(c)
        PROVE  UNCHANGED <<serverVars, peer>>
    BY <2>2 DEF ClientConnect, ClientSend, ClientClose, sessionVars
  <2>3. UNCHANGED vars => UNCHANGED <<serverVars, peer>>
    BY DEF vars, sessionVars
  <2>4. QED  BY <1>2, <1>3, <1>4, <1>5, <2>1, <2>2, <2>3
             DEF Next, Receive, Process, SendStep

-----------------------------------------------------------------------------
(* Each step preserves one reader per socket and one session per client.   *)

LEMMA NextPacketReader ==
  ASSUME IInv, NEW s \in Sessions, handling = s, batch # <<>>, NextPacket(s)
  PROVE  /\ reading' \cup ({handling'} \ {None}) = Open
         /\ handling' \notin reading'
         /\ handling' = None <=> batch' = <<>>
<1>1. batch \in Seq(Request) /\ Len(batch) \in Nat \ {0}
  BY LenProperties, EmptySeq DEF IInv, TypeOK
<1>2. s # None /\ s \notin reading /\ None \notin Open /\ reading \cup {s} = Open
  BY NoneAssumption DEF IInv, OneReader, Open, Sessions
<1>3. None \notin reading
  BY <1>2
<1>4. Tail(batch) \in Seq(Request) /\ Len(Tail(batch)) = Len(batch) - 1
  BY <1>1, HeadTailProperties
<1>5. CASE Len(batch) > 1
  <2>1. Tail(batch) # <<>>
    <3>1. Len(Tail(batch)) # 0
      BY <1>1, <1>4, <1>5
    <3>2. QED  BY <1>4, <3>1, LenZero
  <2>2. batch' = Tail(batch) /\ handling' = handling /\ reading' = reading
    BY <1>5 DEF NextPacket
  <2>3. handling' = s /\ reading' = reading /\ batch' # <<>>
    BY <2>1, <2>2
  <2>4. QED  BY <1>2, <2>3
<1>6. CASE Len(batch) = 1
  <2>1. Tail(batch) = <<>>
    <3>1. Len(Tail(batch)) = 0
      BY <1>4, <1>6
    <3>2. QED  BY <1>4, <3>1, LenZero
  <2>2. batch' = <<>> /\ handling' = None /\ reading' = reading \cup {s}
    BY <1>6, <2>1 DEF NextPacket
  <2>3. QED  BY <1>2, <1>3, <2>2
<1>7. QED  BY <1>1, <1>5, <1>6

LEMMA ReaderStep == IInv /\ [Next]_vars => OneReader'
<1> SUFFICES ASSUME IInv, [Next]_vars  PROVE OneReader'
  OBVIOUS
<1> USE DEF IInv
<1>0. None \notin Sessions /\ Open \subseteq Sessions
  BY NoneAssumption DEF Sessions, Open
<1>1. ASSUME NEW s \in Sessions, HandleAccept(s)
      PROVE  OneReader'
  <2>1. Head(backlog) \in Clients /\ Head(backlog) \in Range(backlog)
    BY <1>1, TailContents DEF HandleAccept, TypeOK
  <2>2. s \notin Open /\ handling = None /\ reading = Open
    BY <1>1 DEF HandleAccept, SessionConservation, OneReader
  <2>3. Open' = Open \cup {s}
    <3>1. peer' = [peer EXCEPT ![s] = Head(backlog)]
      BY <1>1 DEF HandleAccept
    <3>2. QED  BY <2>1, <3>1, OneMoreOpen
  <2>4. reading' \cup ({handling'} \ {None}) = Open'
    BY <1>1, <2>2, <2>3 DEF HandleAccept
  <2>5. handling' \notin reading' /\ (handling' = None <=> batch' = <<>>)
    BY <1>0, <1>1, <2>2 DEF HandleAccept, OneReader
  <2>6. \A a, b \in Open' : peer'[a] = peer'[b] => a = b
    <3>1. \A t \in Open' : peer'[t] = IF t = s THEN Head(backlog) ELSE peer[t]
      BY <1>1, <2>3 DEF HandleAccept, TypeOK, Open
    <3>2. \A t \in Open : peer[t] # Head(backlog)
      BY <2>1 DEF WaitingOnce
    <3>3. QED  BY <2>2, <2>3, <3>1, <3>2 DEF OneReader
  <2>7. QED  BY <2>4, <2>5, <2>6 DEF OneReader
<1>2. ASSUME NEW s \in Sessions, NEW n \in 1 .. MaxPackets, HandleReceive(s, n)
      PROVE  OneReader'
  <2>1. s \in Open /\ peer[s] \in Clients
    BY <1>2 DEF HandleReceive, OneReader, Open, TypeOK
  <2>2. /\ c2s[peer[s]] \in Seq(Request)
        /\ Len(c2s[peer[s]]) \in Nat
        /\ n \in Int /\ 1 <= n /\ n <= Len(c2s[peer[s]])
    BY <1>2, <2>1, LenProperties, BoundAssumption DEF HandleReceive, TypeOK
  <2>3. \A i \in 1 .. n : c2s[peer[s]][i] \in Request
    BY <2>2, ElementOfSeq
  <2>4. /\ Len(SubSeq(c2s[peer[s]], 1, n)) = n
        /\ SubSeq(c2s[peer[s]], 1, n) \in Seq(Request)
    BY <2>2, <2>3, SubSeqProperties
  <2>5. batch' # <<>>
    <3>1. Len(SubSeq(c2s[peer[s]], 1, n)) # 0
      BY <2>2, <2>4
    <3>2. SubSeq(c2s[peer[s]], 1, n) # <<>>
      BY <2>4, <3>1, LenZero
    <3>3. QED  BY <1>2, <3>2 DEF HandleReceive
  <2>6. handling = None /\ reading = Open /\ s \in reading
    BY <1>2 DEF HandleReceive, OneReader
  <2>7. /\ handling' = s /\ s # None
        /\ reading' = reading \ {s}
        /\ peer' = peer /\ Open' = Open
    BY <1>0, <1>2 DEF HandleReceive, Open
  <2>8. \A a, b \in Open' : peer'[a] = peer'[b] => a = b
    BY <2>7 DEF OneReader
  <2>9. QED  BY <2>5, <2>6, <2>7, <2>8 DEF OneReader
<1>3. ASSUME NEW s \in Sessions, HandleReceiveError(s)
      PROVE  OneReader'
  <2>1. Open' = Open \ {s}
    BY <1>3 DEF HandleReceiveError, CloseSession, Open, TypeOK
  <2>2. QED  BY <1>0, <1>3, <2>1
             DEF HandleReceiveError, CloseSession, OneReader, TypeOK, Open
<1>4. ASSUME NEW s \in Sessions, ProcessReqIn(s) \/ ProcessReqChat(s)
      PROVE  OneReader'
  <2>1. /\ reading' \cup ({handling'} \ {None}) = Open
        /\ handling' \notin reading'
        /\ handling' = None <=> batch' = <<>>
    BY <1>4, NextPacketReader DEF ProcessReqIn, ProcessReqChat
  <2>2. peer' = peer /\ Open' = Open
    BY <1>4 DEF ProcessReqIn, ProcessReqChat, Open
  <2>3. QED  BY <2>1, <2>2 DEF OneReader
<1>5. ASSUME UNCHANGED <<peer, reading, handling, batch>>
      PROVE  OneReader'
  BY <1>5 DEF OneReader, Open
<1>6. QED
  <2>1. ASSUME NEW s \in Sessions,
               \/ HandleAcceptError(s)
               \/ HandleWrite(s)
               \/ \E i \in DOMAIN writes[s] : Transmit(s, i)
        PROVE  UNCHANGED <<peer, reading, handling, batch>>
    BY <2>1 DEF HandleAcceptError, HandleWrite, Transmit, sessionVars
  <2>2. ASSUME NEW c \in Clients,
               ClientConnect(c) \/ ClientSend(c) \/ ClientClose(c)
        PROVE  UNCHANGED <<peer, reading, handling, batch>>
    BY <2>2 DEF ClientConnect, ClientSend, ClientClose, sessionVars
  <2>3. UNCHANGED vars => UNCHANGED <<peer, reading, handling, batch>>
    BY DEF vars, sessionVars
  <2>4. QED  BY <1>1, <1>2, <1>3, <1>4, <1>5, <2>1, <2>2, <2>3
             DEF Next, Receive, Process, SendStep

(* The backlog holds each client once, and none that is on a session.      *)
LEMMA WaitingStep == IInv /\ [Next]_vars => WaitingOnce'
<1> SUFFICES ASSUME IInv, [Next]_vars  PROVE WaitingOnce'
  OBVIOUS
<1> USE DEF IInv
<1>1. ASSUME NEW s \in Sessions, HandleAccept(s)
      PROVE  WaitingOnce'
  <2>1. /\ Head(backlog) \in Clients
        /\ Range(backlog) = Range(Tail(backlog)) \cup {Head(backlog)}
        /\ Distinct(Tail(backlog))
        /\ Head(backlog) \notin Range(Tail(backlog))
    BY <1>1, TailContents DEF HandleAccept, TypeOK, WaitingOnce
  <2>2. Open' = Open \cup {s}
    <3>1. peer' = [peer EXCEPT ![s] = Head(backlog)]
      BY <1>1 DEF HandleAccept
    <3>2. QED  BY <2>1, <3>1, OneMoreOpen
  <2>3. backlog' = Tail(backlog) /\ link' = link
        /\ peer' = [peer EXCEPT ![s] = Head(backlog)]
    BY <1>1 DEF HandleAccept, clientVars
  <2>4. \A t \in Open' : peer'[t] = IF t = s THEN Head(backlog) ELSE peer[t]
    BY <2>2, <2>3 DEF TypeOK, Open
  <2>5. QED  BY <2>1, <2>2, <2>3, <2>4 DEF WaitingOnce
<1>2. ASSUME NEW s \in Sessions, HandleReceiveError(s)
      PROVE  WaitingOnce'
  <2>1. /\ Open' = Open \ {s}
        /\ peer' = [peer EXCEPT ![s] = None]
        /\ UNCHANGED <<backlog, link>>
    BY <1>2 DEF HandleReceiveError, CloseSession, Open, TypeOK, clientVars
  <2>2. \A t \in Open' : t \in Open /\ peer'[t] = peer[t]
    BY <2>1 DEF TypeOK, Open
  <2>3. QED  BY <2>1, <2>2 DEF WaitingOnce, Distinct, Range
<1>3. ASSUME NEW c \in Clients, ClientConnect(c)
      PROVE  WaitingOnce'
  <2>1. c \notin Range(backlog) /\ \A s \in Open : peer[s] # c
    BY <1>3 DEF ClientConnect, WaitingOnce
  <2>2. /\ Range(Append(backlog, c)) = Range(backlog) \cup {c}
        /\ Distinct(Append(backlog, c))
    BY <2>1, AppendContents DEF WaitingOnce, TypeOK
  <2>3. /\ Open' = Open /\ peer' = peer
        /\ backlog' = Append(backlog, c)
        /\ link' = [link EXCEPT ![c] = "open"]
    BY <1>3 DEF ClientConnect, sessionVars, Open
  <2>4. \A d \in Clients : link[d] # "away" => link'[d] # "away"
    BY <2>3 DEF TypeOK
  <2>5. link'[c] # "away"
    BY <2>3 DEF TypeOK
  <2>6. Range(backlog) \subseteq Clients /\ \A s \in Open : peer[s] \in Clients
    BY RangeType DEF TypeOK, Open
  <2>7. Range(backlog') = Range(backlog) \cup {c} /\ Distinct(backlog')
    BY <2>2, <2>3
  <2>8. \A d \in Range(backlog') : link'[d] # "away" /\ \A s \in Open' : peer'[s] # d
    BY <2>1, <2>3, <2>4, <2>5, <2>6, <2>7 DEF WaitingOnce
  <2>9. \A s \in Open' : link'[peer'[s]] # "away"
    BY <2>3, <2>4, <2>6 DEF WaitingOnce
  <2>10. QED  BY <2>7, <2>8, <2>9 DEF WaitingOnce
<1>4. ASSUME NEW c \in Clients, ClientClose(c)
      PROVE  WaitingOnce'
  <2>1. /\ Open' = Open /\ peer' = peer
        /\ backlog' = backlog /\ Range(backlog') = Range(backlog)
        /\ link' = [link EXCEPT ![c] = "closed"]
    BY <1>4 DEF ClientClose, sessionVars, Open
  <2>2. \A d \in Clients : link[d] # "away" => link'[d] # "away"
    BY <2>1 DEF TypeOK
  <2>3. Range(backlog) \subseteq Clients /\ \A s \in Open : peer[s] \in Clients
    BY RangeType DEF TypeOK, Open
  <2>4. Distinct(backlog')
    BY <2>1 DEF WaitingOnce
  <2>5. \A d \in Range(backlog') : link'[d] # "away" /\ \A s \in Open' : peer'[s] # d
    BY <2>1, <2>2, <2>3 DEF WaitingOnce
  <2>6. \A s \in Open' : link'[peer'[s]] # "away"
    BY <2>1, <2>2, <2>3 DEF WaitingOnce
  <2>7. QED  BY <2>4, <2>5, <2>6 DEF WaitingOnce
<1>5. ASSUME UNCHANGED <<peer, backlog, link>>
      PROVE  WaitingOnce'
  BY <1>5 DEF WaitingOnce, Open, Range, Distinct
<1>6. QED
  <2>1. ASSUME NEW s \in Sessions,
               \/ HandleAcceptError(s)
               \/ \E n \in 1 .. MaxPackets : HandleReceive(s, n)
               \/ ProcessReqIn(s)
               \/ ProcessReqChat(s)
               \/ HandleWrite(s)
               \/ \E i \in DOMAIN writes[s] : Transmit(s, i)
        PROVE  UNCHANGED <<peer, backlog, link>>
    BY <2>1 DEF HandleAcceptError, HandleReceive, ProcessReqIn, ProcessReqChat,
                HandleWrite, Transmit, sessionVars, clientVars
  <2>2. ASSUME NEW c \in Clients, ClientSend(c)
        PROVE  UNCHANGED <<peer, backlog, link>>
    BY <2>2 DEF ClientSend, sessionVars
  <2>3. UNCHANGED vars => UNCHANGED <<peer, backlog, link>>
    BY DEF vars, sessionVars, clientVars
  <2>4. QED  BY <1>1, <1>2, <1>3, <1>4, <1>5, <2>1, <2>2, <2>3
             DEF Next, Receive, Process, SendStep

-----------------------------------------------------------------------------
(* Each step preserves OneWrite.  WriteOK(w, q, p) is its claim about a    *)
(* session with outstanding writes w, send queue q and peer p.             *)
WriteOK(w, q, p) ==
    IF q = <<>>
    THEN w = <<>>
    ELSE /\ Len(w) = 1
         /\ Head(w).data = Head(q)
         /\ Head(w).to \in {None, p}

(* PostSend(false): the write is started exactly when the queue was empty. *)
LEMMA SendOne ==
  ASSUME NEW w \in Seq(Packet), NEW q \in Seq(Reply), NEW p \in Clients \cup {None},
         NEW pkt \in Reply, WriteOK(w, q, p)
  PROVE  WriteOK(WritesAfterSend(w, q, FALSE, pkt, p),
                 QueueAfterSend(q, FALSE, pkt), p)
<1> DEFINE r == [data |-> pkt, to |-> p]
<1>1. /\ QueueAfterSend(q, FALSE, pkt) = Append(q, pkt)
      /\ Append(q, pkt) # <<>>
      /\ Len(Append(q, pkt)) = Len(q) + 1
      /\ Len(q) \in Nat
  BY AppendProperties, LenProperties DEF QueueAfterSend
<1>2. r \in Packet
  BY DEF Packet
<1>3. CASE q = <<>>
  <2>1. w = <<>>
    BY <1>3 DEF WriteOK
  <2>2. ~(Len(QueueAfterSend(q, FALSE, pkt)) > 1)
    <3>1. Len(q) = 0
      BY <1>3, LenZero
    <3>2. QED  BY <1>1, <3>1 DEF QueueAfterSend
  <2>3. WritesAfterSend(w, q, FALSE, pkt, p) = Append(<<>>, r)
    BY <2>1, <2>2 DEF WritesAfterSend
  <2>4. /\ Len(Append(<<>>, r)) = 1
        /\ Head(Append(<<>>, r)).data = pkt
        /\ Head(Append(<<>>, r)).to = p
    <3>1. Len(Append(<<>>, r)) = 1 /\ Head(Append(<<>>, r)) = r
      BY <1>2, Singleton
    <3>2. QED  BY <3>1
  <2>5. Head(Append(q, pkt)) = pkt
    BY <1>3, HeadAppend
  <2>6. QED  BY <1>1, <2>3, <2>4, <2>5 DEF WriteOK
<1>4. CASE q # <<>>
  <2>1. Len(q) > 0
    <3>1. Len(q) \in Nat \ {0}
      BY <1>4, EmptySeq
    <3>2. QED  BY <3>1
  <2>2. WritesAfterSend(w, q, FALSE, pkt, p) = w
    <3>1. Len(QueueAfterSend(q, FALSE, pkt)) > 1
      BY <1>1, <2>1 DEF QueueAfterSend
    <3>2. QED  BY <3>1 DEF WritesAfterSend
  <2>3. Head(Append(q, pkt)) = Head(q)
    BY <1>4, HeadAppend
  <2>4. QED  BY <1>1, <1>4, <2>2, <2>3 DEF WriteOK
<1>5. QED  BY <1>3, <1>4

(* handle_write and PostSend(true): the next front packet, or none.        *)
LEMMA WriteNext ==
  ASSUME NEW w \in Seq(Packet), NEW q \in Seq(Reply), NEW p \in Clients \cup {None},
         w # <<>>, WriteOK(w, q, p)
  PROVE  WriteOK(IF Tail(q) = <<>> THEN Tail(w)
                 ELSE WritesAfterSend(Tail(w), Tail(q), TRUE, Head(Tail(q)), p),
                 Tail(q), p)
<1>1. q # <<>> /\ Len(w) = 1
  BY DEF WriteOK
<1>2. Tail(w) = <<>>
  <2>1. Tail(w) \in Seq(Packet) /\ Len(Tail(w)) = Len(w) - 1
    BY HeadTailProperties
  <2>2. Len(Tail(w)) = 0
    BY <1>1, <2>1
  <2>3. QED  BY <2>1, <2>2, LenZero
<1>3. CASE Tail(q) = <<>>
  BY <1>2, <1>3 DEF WriteOK
<1>4. CASE Tail(q) # <<>>
  <2> DEFINE r == [data |-> Head(Tail(q)), to |-> p]
  <2>1. Tail(q) \in Seq(Reply) /\ Head(Tail(q)) \in Reply
    BY <1>1, <1>4, TailContents
  <2>2. r \in Packet
    BY <2>1 DEF Packet
  <2>3. WritesAfterSend(Tail(w), Tail(q), TRUE, Head(Tail(q)), p) = Append(<<>>, r)
    BY <1>2 DEF WritesAfterSend
  <2>4. /\ Len(Append(<<>>, r)) = 1
        /\ Head(Append(<<>>, r)).data = Head(Tail(q))
        /\ Head(Append(<<>>, r)).to = p
    <3>1. Len(Append(<<>>, r)) = 1 /\ Head(Append(<<>>, r)) = r
      BY <2>2, Singleton
    <3>2. r.data = Head(Tail(q)) /\ r.to = p
      OBVIOUS
    <3> HIDE DEF r
    <3>3. QED  BY <3>1, <3>2
  <2>5. QED  BY <1>4, <2>3, <2>4 DEF WriteOK
<1>5. QED  BY <1>3, <1>4

LEMMA WriteStep == IInv /\ [Next]_vars => OneWrite'
<1> SUFFICES ASSUME IInv, [Next]_vars
             PROVE  \A t \in Sessions : WriteOK(writes'[t], m_SendDataQueue'[t], peer'[t])
  BY DEF OneWrite, WriteOK
<1>1. \A t \in Sessions : WriteOK(writes[t], m_SendDataQueue[t], peer[t])
  BY DEF IInv, OneWrite, WriteOK
<1>2. \A t \in Sessions : /\ writes[t] \in Seq(Packet)
                          /\ m_SendDataQueue[t] \in Seq(Reply)
                          /\ peer[t] \in Clients \cup {None}
  BY DEF IInv, TypeOK, Packet
<1>3. ASSUME NEW pkt \in Reply, NEW R, PostSend(R, pkt), peer' = peer
      PROVE  \A t \in Sessions : WriteOK(writes'[t], m_SendDataQueue'[t], peer'[t])
  <2> TAKE t \in Sessions
  <2>1. WriteOK(WritesAfterSend(writes[t], m_SendDataQueue[t], FALSE, pkt, peer[t]),
                QueueAfterSend(m_SendDataQueue[t], FALSE, pkt), peer[t])
    BY <1>1, <1>2, SendOne
  <2>2. CASE t \in R
    BY <1>3, <2>1, <2>2 DEF PostSend
  <2>3. CASE t \notin R
    BY <1>1, <1>3, <2>3 DEF PostSend
  <2>4. QED  BY <2>2, <2>3
<1>4. ASSUME NEW s \in Sessions, HandleAccept(s)
      PROVE  \A t \in Sessions : WriteOK(writes'[t], m_SendDataQueue'[t], peer'[t])
  <2>1. s \notin Open
    BY <1>4 DEF HandleAccept, IInv, SessionConservation
  <2>2. peer[s] = None
    BY <2>1 DEF Open
  <2>3. /\ writes' = writes /\ m_SendDataQueue' = m_SendDataQueue
        /\ \A t \in Sessions : t # s => peer'[t] = peer[t]
    BY <1>4 DEF HandleAccept, sendVars, IInv, TypeOK
  <2>4. QED  BY <1>1, <2>2, <2>3 DEF WriteOK
<1>5. ASSUME NEW s \in Sessions, HandleReceiveError(s)
      PROVE  \A t \in Sessions : WriteOK(writes'[t], m_SendDataQueue'[t], peer'[t])
  <2> DEFINE w == [i \in DOMAIN writes[s] |-> [writes[s][i] EXCEPT !.to = None]]
  <2>1. /\ m_SendDataQueue' = m_SendDataQueue
        /\ writes'[s] = w
        /\ \A t \in Sessions : t # s => writes'[t] = writes[t] /\ peer'[t] = peer[t]
    BY <1>5, <1>2 DEF HandleReceiveError, CloseSession, IInv, TypeOK
  <2>2. CASE writes[s] = <<>>
    <3>1. w = <<>>
      BY <2>2, <1>2, CancelType
    <3>2. m_SendDataQueue[s] = <<>>
      BY <1>1, <2>2, EmptySeq DEF WriteOK
    <3>3. QED  BY <1>1, <2>1, <3>1, <3>2 DEF WriteOK
  <2>3. CASE writes[s] # <<>>
    <3>1. m_SendDataQueue[s] # <<>> /\ Len(writes[s]) = 1
          /\ Head(writes[s]).data = Head(m_SendDataQueue[s])
      BY <1>1, <2>3 DEF WriteOK
    <3>2. w = <<[data |-> Head(writes[s]).data, to |-> None]>>
      BY <2>3, <3>1, <1>2, CancelType
    <3>3. Len(w) = 1 /\ Head(w) = [data |-> Head(writes[s]).data, to |-> None]
      BY <3>2, Singleton
    <3>4. WriteOK(w, m_SendDataQueue[s], peer'[s])
      BY <3>1, <3>3 DEF WriteOK
    <3>5. QED  BY <1>1, <2>1, <3>4
  <2>4. QED  BY <2>2, <2>3
<1>6. ASSUME NEW s \in Sessions, HandleWrite(s)
      PROVE  \A t \in Sessions : WriteOK(writes'[t], m_SendDataQueue'[t], peer'[t])
  <2> DEFINE q == Tail(m_SendDataQueue[s])
             w == IF q = <<>> THEN Tail(writes[s])
                  ELSE WritesAfterSend(Tail(writes[s]), q, TRUE, Head(q), peer[s])
  <2>1. /\ peer' = peer
        /\ m_SendDataQueue'[s] = q /\ writes'[s] = w
        /\ \A t \in Sessions : t # s => /\ writes'[t] = writes[t]
                                         /\ m_SendDataQueue'[t] = m_SendDataQueue[t]
    BY <1>6 DEF HandleWrite, sessionVars, IInv, TypeOK
  <2>2. WriteOK(w, q, peer[s])
    BY <1>1, <1>2, <1>6, WriteNext DEF HandleWrite
  <2>3. QED  BY <1>1, <2>1, <2>2
<1>7. ASSUME NEW s \in Sessions, NEW i \in DOMAIN writes[s], Transmit(s, i)
      PROVE  \A t \in Sessions : WriteOK(writes'[t], m_SendDataQueue'[t], peer'[t])
  <2>1. i \in 1 .. Len(writes[s])
    BY <1>2, <1>7, LenProperties
  <2>2. m_SendDataQueue[s] # <<>> /\ Len(writes[s]) = 1 /\ i = 1
    BY <1>1, <2>1, EmptySeq DEF WriteOK
  <2> DEFINE r == [writes[s][1] EXCEPT !.to = None]
             w == [writes[s] EXCEPT ![1] = r]
  <2>3. writes[s][1] \in Packet
    BY <1>2, <2>1, <2>2, ElementOfSeq
  <2>4. r \in Packet /\ r.data = writes[s][1].data /\ r.to = None
    BY <2>3 DEF Packet
  <2>5. w \in Seq(Packet) /\ Len(w) = 1 /\ w[1] = r
    <3>1. 1 \in 1 .. Len(writes[s])
      BY <2>1, <2>2
    <3>2. QED  BY <1>2, <2>2, <2>4, <3>1, ExceptSeq
  <2>6. Head(w) = r /\ Head(writes[s]) = writes[s][1]
    <3>1. w # <<>> /\ writes[s] # <<>>
      BY <2>2, <2>5, EmptySeq
    <3>2. QED  BY <1>2, <2>5, <3>1, HeadTailProperties
  <2>7. /\ peer' = peer /\ m_SendDataQueue' = m_SendDataQueue
        /\ writes'[s] = w
        /\ \A t \in Sessions : t # s => writes'[t] = writes[t]
    BY <1>7, <2>2 DEF Transmit, sessionVars, IInv, TypeOK
  <2>8. WriteOK(w, m_SendDataQueue[s], peer[s])
    BY <1>1, <2>2, <2>4, <2>5, <2>6 DEF WriteOK
  <2>9. QED  BY <1>1, <2>7, <2>8
<1>8. ASSUME UNCHANGED <<peer, m_SendDataQueue, writes>>
      PROVE  \A t \in Sessions : WriteOK(writes'[t], m_SendDataQueue'[t], peer'[t])
  BY <1>1, <1>8
<1>9. ASSUME NEW s \in Sessions, ProcessReqIn(s) \/ ProcessReqChat(s)
      PROVE  \A t \in Sessions : WriteOK(writes'[t], m_SendDataQueue'[t], peer'[t])
  <2>1. Head(batch) \in Request /\ Len(chat) \in Nat
    BY <1>9, TailContents, LenProperties
       DEF ProcessReqIn, ProcessReqChat, IInv, TypeOK
  <2>2. ResIn(Head(batch).text) \in Reply /\ Notice(Len(chat) + 1) \in Reply
    BY <2>1 DEF Request, Reply, ResIn, Notice
  <2>3. peer' = peer
    BY <1>9 DEF ProcessReqIn, ProcessReqChat
  <2>4. CASE ProcessReqIn(s)
    BY <1>3, <2>2, <2>3, <2>4 DEF ProcessReqIn
  <2>5. CASE ProcessReqChat(s)
    BY <1>3, <2>2, <2>3, <2>5 DEF ProcessReqChat
  <2>6. QED  BY <1>9, <2>4, <2>5
<1>10. QED
  <2>1. ASSUME NEW s \in Sessions,
               HandleAcceptError(s) \/ \E n \in 1 .. MaxPackets : HandleReceive(s, n)
        PROVE  UNCHANGED <<peer, m_SendDataQueue, writes>>
    BY <2>1 DEF HandleAcceptError, HandleReceive, sessionVars, sendVars
  <2>2. ASSUME NEW c \in Clients,
               ClientConnect(c) \/ ClientSend(c) \/ ClientClose(c)
        PROVE  UNCHANGED <<peer, m_SendDataQueue, writes>>
    BY <2>2 DEF ClientConnect, ClientSend, ClientClose, sessionVars, sendVars
  <2>3. UNCHANGED vars => UNCHANGED <<peer, m_SendDataQueue, writes>>
    BY DEF vars, sessionVars, sendVars
  <2>4. QED  BY <1>4, <1>5, <1>6, <1>7, <1>8, <1>9, <2>1, <2>2, <2>3
             DEF Next, Receive, Process, SendStep

-----------------------------------------------------------------------------
LEMMA InitInv == Init => IInv
<1> SUFFICES ASSUME Init PROVE IInv
  OBVIOUS
<1>1. TypeOK
  BY InitType
<1>2. Open = {} /\ None \notin Sessions /\ 0 \in Sessions
  BY NoneAssumption, PoolAssumption DEF Init, Open, Sessions
<1>3. Range(m_SessionQueue) = 1 .. MaxSessions - 1
  BY DEF Init, Range
<1>4. Lost = {}
  BY <1>2, <1>3, PoolAssumption DEF Init, Lost, Sessions
<1>5. SessionConservation
  <2>1. \A i, j \in DOMAIN m_SessionQueue :
           m_SessionQueue[i] = m_SessionQueue[j] => i = j
    BY DEF Init
  <2>2. 0 \notin 1 .. MaxSessions - 1
    BY PoolAssumption
  <2>3. QED  BY <1>2, <1>3, <1>4, <2>1, <2>2 DEF Init, SessionConservation
<1>6. AcceptPosted
  BY DEF Init, AcceptPosted
<1>7. OneReader
  BY <1>2 DEF Init, OneReader
<1>8. OneWrite
  BY DEF Init, OneWrite
<1>9. WaitingOnce
  BY <1>2 DEF Init, WaitingOnce, Distinct, Range
<1>10. QED  BY <1>1, <1>5, <1>6, <1>7, <1>8, <1>9 DEF IInv

(* The inductive invariant: the type of the state, the bookkeeping of ids, *)
(* accepts, reads and writes, and the backlog.                             *)
THEOREM Invariance == Spec => []IInv
<1>1. IInv /\ [Next]_vars => IInv'
  BY TypeStep, PoolStep, ReaderStep, WriteStep, WaitingStep DEF IInv
<1>2. QED  BY InitInv, <1>1, PTL DEF Spec

(* Every variable of the server keeps its type.                            *)
THEOREM TypeCorrect == Spec => []TypeOK
<1>1. IInv => TypeOK
  BY DEF IInv
<1>2. QED  BY Invariance, <1>1, PTL

(* Ids are neither duplicated nor used by two connections at a time, and   *)
(* none but the one of a failed accept is lost (PostAccept, closeSession,  *)
(* handle_accept).                                                         *)
THEOREM PoolCorrect == Spec => []SessionConservation
<1>1. IInv => SessionConservation
  BY DEF IInv
<1>2. QED  BY Invariance, <1>1, PTL

(* An accept is outstanding whenever an id is free and no accept has       *)
(* failed, and m_bIsAccepting says so (PostAccept, closeSession).          *)
THEOREM AcceptCorrect == Spec => []AcceptPosted
<1>1. IInv => AcceptPosted
  BY DEF IInv
<1>2. QED  BY Invariance, <1>1, PTL

(* One read per open socket, one session per client (PostReceive).         *)
THEOREM ReaderCorrect == Spec => []OneReader
<1>1. IInv => OneReader
  BY DEF IInv
<1>2. QED  BY Invariance, <1>1, PTL

(* At most one write per session, of the queue's front, to the connection  *)
(* that is open - for any number of disconnections and reuses of a session *)
(* (PostSend, handle_write).                                               *)
THEOREM WriteCorrect == Spec => []OneWrite
<1>1. IInv => OneWrite
  BY DEF IInv
<1>2. QED  BY Invariance, <1>1, PTL

(* Unless an accept fails, the server waits for a connection again after a *)
(* session was closed: the run of MCChatServer_acceptfail shows that the   *)
(* hypothesis is needed (closeSession, PostAccept).                        *)
THEOREM CloseResumes == ASSUME AcceptMayFail = FALSE PROVE Spec => CloseResumesAccepting
<1>1. IInv' => \A s \in Sessions : s \notin Open' => accepting' # {}
  <2> SUFFICES ASSUME IInv', NEW s \in Sessions, s \notin Open', accepting' = {}
               PROVE  FALSE
    OBVIOUS
  <2>1. m_bIsAccepting' = FALSE /\ m_SessionQueue' = <<>>
    BY DEF IInv, AcceptPosted, TypeOK
  <2>2. Range(m_SessionQueue') = {}
    BY <2>1 DEF Range
  <2>3. s \in Lost'
    BY <2>2 DEF Lost
  <2>4. QED  BY <2>1, <2>3 DEF IInv, SessionConservation
<1>2. IInv' => [\A s \in Sessions : s \in Open /\ s \notin Open' => accepting' # {}]_vars
  BY <1>1
<1>3. QED  BY Invariance, <1>2, PTL DEF CloseResumesAccepting

-----------------------------------------------------------------------------
(* What the clients get.                                                   *)

(* The notices of the packets str refer to the first n broadcasts.         *)
RefsUpTo(str, n) ==
    \A i \in DOMAIN str : str[i].nID = "NOTICE_CHAT" => str[i].ref \in 1 .. n

(* The notices in str of broadcasts after the j-th.                        *)
FreshIn(str, j) ==
    {i \in DOMAIN str : str[i].nID = "NOTICE_CHAT" /\ str[i].ref > j}

(* The claim EveryMessageOnce makes about a stream of packets.             *)
Delivered(str, j, n) ==
    /\ {str[i].ref : i \in FreshIn(str, j)} = j + 1 .. n
    /\ \A i, k \in FreshIn(str, j) : i < k => str[i].ref < str[k].ref

(* Nothing refers to a message that has not been said yet.                 *)
KnownRefs ==
    /\ \A s \in Sessions : RefsUpTo(m_SendDataQueue[s], Len(chat))
    /\ \A c \in Clients : RefsUpTo(s2c[c], Len(chat))
    /\ \A c \in Clients : joined[c] <= Len(chat)

(* A client that has not been accepted has received nothing.               *)
NothingYet ==
    \A c \in Clients : link[c] = "away" \/ c \in Range(backlog) => s2c[c] = <<>>

(* What a session reads is what its own client has written.                *)
OwnWords ==
    /\ \A c \in Clients : \A i \in DOMAIN c2s[c] : c2s[c][i].text = c
    /\ \A i \in DOMAIN batch : batch[i].text = peer[handling]

RInv == /\ IInv
        /\ KnownRefs
        /\ NothingYet
        /\ OwnWords
        /\ EveryMessageOnce

-----------------------------------------------------------------------------
(* Streams of packets.                                                     *)

(* The indices of str with one packet more.                                *)
LEMMA AppendDomain ==
  ASSUME NEW str \in Seq(Reply), NEW pkt \in Reply
  PROVE  /\ Len(str) \in Nat
         /\ DOMAIN str = 1 .. Len(str)
         /\ DOMAIN Append(str, pkt) = DOMAIN str \cup {Len(str) + 1}
         /\ \A i \in DOMAIN str : /\ Append(str, pkt)[i] = str[i]
                                  /\ i \in Nat /\ i < Len(str) + 1
         /\ Append(str, pkt)[Len(str) + 1] = pkt
<1>1. /\ Len(str) \in Nat
      /\ Append(str, pkt) \in Seq(Reply)
      /\ Len(Append(str, pkt)) = Len(str) + 1
      /\ \A i \in 1 .. Len(str) : Append(str, pkt)[i] = str[i]
      /\ Append(str, pkt)[Len(str) + 1] = pkt
  BY AppendProperties, LenProperties
<1>2. DOMAIN str = 1 .. Len(str) /\ DOMAIN Append(str, pkt) = 1 .. Len(str) + 1
  BY <1>1, LenProperties
<1>3. 1 .. Len(str) + 1 = (1 .. Len(str)) \cup {Len(str) + 1}
  BY <1>1
<1>4. QED  BY <1>1, <1>2, <1>3

(* What the refs of notices are.                                           *)
LEMMA NoticeRef ==
  ASSUME NEW pkt \in Reply, pkt.nID = "NOTICE_CHAT"
  PROVE  pkt.ref \in Nat /\ pkt = Notice(pkt.ref)
BY DEF Reply, Notice

LEMMA StreamElement ==
  ASSUME NEW str \in Seq(Reply), NEW i \in DOMAIN str
  PROVE  str[i] \in Reply
BY LenProperties, ElementOfSeq

(* The next broadcast.                                                     *)
LEMMA DeliverNotice ==
  ASSUME NEW str \in Seq(Reply), NEW n \in Nat, NEW j \in Nat, j <= n,
         RefsUpTo(str, n), Delivered(str, j, n)
  PROVE  Delivered(Append(str, Notice(n + 1)), j, n + 1)
<1> DEFINE pkt == Notice(n + 1)
           new == Append(str, pkt)
           l   == Len(str) + 1
<1>1. pkt \in Reply /\ pkt.nID = "NOTICE_CHAT" /\ pkt.ref = n + 1
  BY DEF Notice, Reply
<1>2. /\ DOMAIN new = DOMAIN str \cup {l}
      /\ \A i \in DOMAIN str : new[i] = str[i] /\ i \in Nat /\ i < l
      /\ new[l] = pkt /\ l \in Nat
  BY <1>1, AppendDomain
<1> HIDE DEF pkt, new, l
<1>3. FreshIn(new, j) = FreshIn(str, j) \cup {l}
  <2>1. n + 1 > j
    OBVIOUS
  <2>2. QED  BY <1>1, <1>2, <2>1 DEF FreshIn
<1>4. \A i \in FreshIn(str, j) : /\ new[i] = str[i] /\ i \in Nat /\ i < l
                                 /\ str[i].ref \in 1 .. n
  BY <1>2 DEF FreshIn, RefsUpTo
<1>5. {new[i].ref : i \in FreshIn(new, j)} = j + 1 .. n + 1
  <2>1. {new[i].ref : i \in FreshIn(new, j)}
           = {str[i].ref : i \in FreshIn(str, j)} \cup {n + 1}
    BY <1>1, <1>2, <1>3, <1>4
  <2>2. (j + 1 .. n) \cup {n + 1} = j + 1 .. n + 1
    OBVIOUS
  <2>3. QED  BY <2>1, <2>2 DEF Delivered
<1>6. ASSUME NEW i \in FreshIn(new, j), NEW k \in FreshIn(new, j), i < k
      PROVE  new[i].ref < new[k].ref
  <2>1. i # l
    BY <1>2, <1>3, <1>4, <1>6
  <2>2. i \in FreshIn(str, j)
    BY <1>3, <2>1
  <2>3. CASE k = l
    BY <1>1, <1>2, <1>4, <2>2, <2>3
  <2>4. CASE k \in FreshIn(str, j)
    BY <1>4, <1>6, <2>2, <2>4 DEF Delivered
  <2>5. QED  BY <1>3, <2>3, <2>4
<1>7. Delivered(new, j, n + 1)
  BY <1>5, <1>6 DEF Delivered
<1>8. QED  BY <1>7 DEF new, pkt

(* A packet that is no notice changes nothing.                             *)
LEMMA DeliverOther ==
  ASSUME NEW str \in Seq(Reply), NEW n \in Nat, NEW j \in Nat,
         NEW pkt \in Reply, pkt.nID = "RES_IN", Delivered(str, j, n)
  PROVE  Delivered(Append(str, pkt), j, n)
<1> DEFINE new == Append(str, pkt)
           l   == Len(str) + 1
<1>1. /\ DOMAIN new = DOMAIN str \cup {l}
      /\ \A i \in DOMAIN str : new[i] = str[i]
      /\ new[l] = pkt
  BY AppendDomain
<1> HIDE DEF new, l
<1>2. FreshIn(new, j) = FreshIn(str, j)
  BY <1>1 DEF FreshIn
<1>3. \A i \in FreshIn(str, j) : new[i] = str[i]
  BY <1>1 DEF FreshIn
<1>4. {new[i].ref : i \in FreshIn(new, j)} = {str[i].ref : i \in FreshIn(str, j)}
  BY <1>2, <1>3
<1>5. Delivered(new, j, n)
  BY <1>2, <1>3, <1>4 DEF Delivered
<1>6. QED  BY <1>5 DEF new

(* To one that joins now, nothing in the stream is new.                    *)
LEMMA NothingFresh ==
  ASSUME NEW str \in Seq(Reply), NEW n \in Nat, RefsUpTo(str, n)
  PROVE  Delivered(str, n, n)
<1>1. FreshIn(str, n) = {}
  BY DEF RefsUpTo, FreshIn
<1>2. n + 1 .. n = {}
  OBVIOUS
<1>3. QED  BY <1>1, <1>2 DEF Delivered

LEMMA RefsGrow ==
  ASSUME NEW str \in Seq(Reply), NEW n \in Nat, NEW m \in Nat, n <= m,
         RefsUpTo(str, n)
  PROVE  RefsUpTo(str, m)
BY DEF RefsUpTo

LEMMA RefsAppend ==
  ASSUME NEW str \in Seq(Reply), NEW n \in Nat, RefsUpTo(str, n),
         NEW pkt \in Reply, pkt.nID = "NOTICE_CHAT" => pkt.ref \in 1 .. n
  PROVE  RefsUpTo(Append(str, pkt), n)
BY AppendDomain DEF RefsUpTo

LEMMA RefsTail ==
  ASSUME NEW str \in Seq(Reply), NEW n \in Nat, RefsUpTo(str, n), str # <<>>
  PROVE  /\ RefsUpTo(Tail(str), n)
         /\ Head(str).nID = "NOTICE_CHAT" => Head(str).ref \in 1 .. n
<1>1. /\ Tail(str) \in Seq(Reply)
      /\ Head(str) = str[1]
      /\ Len(str) \in Nat \ {0}
      /\ Len(Tail(str)) = Len(str) - 1
      /\ \A i \in 1 .. Len(Tail(str)) : Tail(str)[i] = str[i + 1]
  BY HeadTailProperties, EmptySeq
<1>2. DOMAIN str = 1 .. Len(str) /\ DOMAIN Tail(str) = 1 .. Len(Tail(str))
  BY <1>1, LenProperties
<1>3. 1 \in DOMAIN str /\ \A i \in 1 .. Len(Tail(str)) : i + 1 \in DOMAIN str
  BY <1>1, <1>2
<1>4. QED  BY <1>1, <1>2, <1>3 DEF RefsUpTo

LEMMA RefsConcat ==
  ASSUME NEW u \in Seq(Reply), NEW q \in Seq(Reply), NEW n \in Nat,
         RefsUpTo(u, n), RefsUpTo(q, n)
  PROVE  RefsUpTo(u \o q, n)
<1>1. /\ u \o q \in Seq(Reply)
      /\ Len(u \o q) = Len(u) + Len(q)
      /\ Len(u) \in Nat /\ Len(q) \in Nat
      /\ DOMAIN u = 1 .. Len(u) /\ DOMAIN q = 1 .. Len(q)
      /\ \A i \in 1 .. Len(u) + Len(q) :
            (u \o q)[i] = IF i <= Len(u) THEN u[i] ELSE q[i - Len(u)]
  BY ConcatProperties, LenProperties
<1>2. DOMAIN (u \o q) = 1 .. Len(u) + Len(q)
  BY <1>1, LenProperties
<1>3. ASSUME NEW i \in 1 .. Len(u) + Len(q)
      PROVE  (u \o q)[i].nID = "NOTICE_CHAT" => (u \o q)[i].ref \in 1 .. n
  <2>1. CASE i <= Len(u)
    <3>1. i \in 1 .. Len(u) /\ (u \o q)[i] = u[i]
      BY <1>1, <2>1
    <3>2. QED  BY <1>1, <3>1 DEF RefsUpTo
  <2>2. CASE ~(i <= Len(u))
    <3>1. i - Len(u) \in 1 .. Len(q) /\ (u \o q)[i] = q[i - Len(u)]
      BY <1>1, <2>2
    <3>2. QED  BY <1>1, <3>1 DEF RefsUpTo
  <2>3. QED  BY <2>1, <2>2
<1>4. QED  BY <1>2, <1>3 DEF RefsUpTo

-----------------------------------------------------------------------------
(* Pending(t), for outstanding writes w and send queue q.                  *)
PendingOf(w, q) == IF w # <<>> /\ Head(w).to = None THEN Tail(q) ELSE q

(* A packet posted for a connected session joins the end of its stream,    *)
(* whether it is written at once or waits.                                 *)
LEMMA PendingAppend ==
  ASSUME NEW w \in Seq(Packet), NEW q \in Seq(Reply), NEW p \in Clients,
         NEW pkt \in Reply, WriteOK(w, q, p)
  PROVE  PendingOf(WritesAfterSend(w, q, FALSE, pkt, p), QueueAfterSend(q, FALSE, pkt))
           = Append(PendingOf(w, q), pkt)
<1> DEFINE r == [data |-> pkt, to |-> p]
<1>1. /\ QueueAfterSend(q, FALSE, pkt) = Append(q, pkt)
      /\ Len(Append(q, pkt)) = Len(q) + 1
      /\ Len(q) \in Nat
  BY AppendProperties, LenProperties DEF QueueAfterSend
<1>2. r \in Packet /\ r.to # None
  BY NoneAssumption DEF Packet
<1> HIDE DEF r
<1>3. CASE q = <<>>
  <2>1. w = <<>>
    BY <1>3 DEF WriteOK
  <2>2. ~(Len(QueueAfterSend(q, FALSE, pkt)) > 1)
    <3>1. Len(q) = 0
      BY <1>3, LenZero
    <3>2. QED  BY <1>1, <3>1 DEF QueueAfterSend
  <2>3. WritesAfterSend(w, q, FALSE, pkt, p) = Append(<<>>, r)
    BY <2>1, <2>2 DEF WritesAfterSend, r
  <2>4. Head(Append(<<>>, r)) = r
    BY <1>2, Singleton
  <2>5. QED  BY <1>1, <1>2, <1>3, <2>1, <2>3, <2>4 DEF PendingOf
<1>4. CASE q # <<>>
  <2>1. Len(q) # 0
    BY <1>4, LenZero
  <2>2. Len(QueueAfterSend(q, FALSE, pkt)) > 1
    BY <1>1, <2>1 DEF QueueAfterSend
  <2>3. WritesAfterSend(w, q, FALSE, pkt, p) = w
    BY <2>2 DEF WritesAfterSend
  <2>4. Tail(Append(q, pkt)) = Append(Tail(q), pkt)
    BY <1>4, HeadTailAppend
  <2>5. QED  BY <1>1, <2>3, <2>4 DEF PendingOf
<1>5. QED  BY <1>3, <1>4

(* handle_write moves on to the next packet of what is still to be sent.   *)
LEMMA PendingNext ==
  ASSUME NEW w \in Seq(Packet), NEW q \in Seq(Reply), NEW p \in Clients,
         w # <<>>, Head(w).to = None, WriteOK(w, q, p)
  PROVE  PendingOf(IF Tail(q) = <<>> THEN Tail(w)
                   ELSE WritesAfterSend(Tail(w), Tail(q), TRUE, Head(Tail(q)), p),
                   Tail(q))
           = PendingOf(w, q)
<1>1. q # <<>> /\ Len(w) = 1
  BY DEF WriteOK
<1>2. Tail(w) = <<>>
  <2>1. Tail(w) \in Seq(Packet) /\ Len(Tail(w)) = Len(w) - 1
    BY HeadTailProperties
  <2>2. Len(Tail(w)) = 0
    BY <1>1, <2>1
  <2>3. QED  BY <2>1, <2>2, LenZero
<1>3. CASE Tail(q) = <<>>
  BY <1>2, <1>3 DEF PendingOf
<1>4. CASE Tail(q) # <<>>
  <2> DEFINE r == [data |-> Head(Tail(q)), to |-> p]
  <2>1. Tail(q) \in Seq(Reply) /\ Head(Tail(q)) \in Reply
    BY <1>1, <1>4, TailContents
  <2>2. r \in Packet /\ r.to # None
    BY <2>1, NoneAssumption DEF Packet
  <2>3. WritesAfterSend(Tail(w), Tail(q), TRUE, Head(Tail(q)), p) = Append(<<>>, r)
    BY <1>2 DEF WritesAfterSend
  <2> HIDE DEF r
  <2>4. Head(Append(<<>>, r)) = r
    BY <2>2, Singleton
  <2>5. QED  BY <1>4, <2>2, <2>3, <2>4 DEF PendingOf
<1>5. QED  BY <1>3, <1>4

LEMMA StreamType ==
  ASSUME TypeOK, OneWrite, NEW s \in Open
  PROVE  /\ s \in Sessions /\ peer[s] \in Clients
         /\ s2c[peer[s]] \in Seq(Reply)
         /\ m_SendDataQueue[s] \in Seq(Reply)
         /\ writes[s] \in Seq(Packet)
         /\ WriteOK(writes[s], m_SendDataQueue[s], peer[s])
         /\ Pending(s) = PendingOf(writes[s], m_SendDataQueue[s])
         /\ Pending(s) \in Seq(Reply)
         /\ Stream(s) = s2c[peer[s]] \o Pending(s)
         /\ Stream(s) \in Seq(Reply)
<1>1. s \in Sessions /\ peer[s] \in Clients
  BY DEF TypeOK, Open
<1>2. /\ s2c[peer[s]] \in Seq(Reply)
      /\ m_SendDataQueue[s] \in Seq(Reply)
      /\ writes[s] \in Seq(Packet)
  BY <1>1 DEF TypeOK, Packet
<1>3. WriteOK(writes[s], m_SendDataQueue[s], peer[s])
  BY <1>1 DEF OneWrite, WriteOK
<1>4. Pending(s) = PendingOf(writes[s], m_SendDataQueue[s])
  BY DEF Pending, PendingOf
<1>5. Pending(s) \in Seq(Reply)
  <2>1. CASE writes[s] # <<>>
    <3>1. m_SendDataQueue[s] # <<>>
      BY <1>3, <2>1 DEF WriteOK
    <3>2. Tail(m_SendDataQueue[s]) \in Seq(Reply)
      BY <1>2, <3>1, TailContents
    <3>3. QED  BY <1>2, <3>2 DEF Pending
  <2>2. CASE writes[s] = <<>>
    BY <1>2, <2>2 DEF Pending
  <2>3. QED  BY <2>1, <2>2
<1>6. Stream(s) = s2c[peer[s]] \o Pending(s)
  BY DEF Stream
<1>7. Stream(s) \in Seq(Reply)
  BY <1>2, <1>5, <1>6, ConcatProperties
<1>8. QED  BY <1>1, <1>2, <1>3, <1>4, <1>5, <1>6, <1>7

(* What the server sends to an open session joins its stream.              *)
LEMMA StreamPost ==
  ASSUME TypeOK, OneWrite, NEW R, NEW pkt \in Reply, PostSend(R, pkt),
         peer' = peer, s2c' = s2c, NEW s \in Open
  PROVE  Stream(s)' = IF s \in R THEN Append(Stream(s), pkt) ELSE Stream(s)
<1> DEFINE w == writes[s]
           q == m_SendDataQueue[s]
           u == s2c[peer[s]]
<1>1. /\ s \in Sessions /\ peer[s] \in Clients
      /\ u \in Seq(Reply) /\ q \in Seq(Reply) /\ w \in Seq(Packet)
      /\ WriteOK(w, q, peer[s])
      /\ Pending(s) = PendingOf(w, q)
      /\ Pending(s) \in Seq(Reply)
      /\ Stream(s) = u \o Pending(s)
  BY StreamType
<1>2. Stream(s)' = u \o PendingOf(writes'[s], m_SendDataQueue'[s])
  BY DEF Stream, Pending, PendingOf
<1>3. CASE s \in R
  <2>1. /\ writes'[s] = WritesAfterSend(w, q, FALSE, pkt, peer[s])
        /\ m_SendDataQueue'[s] = QueueAfterSend(q, FALSE, pkt)
    BY <1>1, <1>3 DEF PostSend
  <2>2. PendingOf(writes'[s], m_SendDataQueue'[s]) = Append(Pending(s), pkt)
    BY <1>1, <2>1, PendingAppend
  <2>3. u \o Append(Pending(s), pkt) = Append(u \o Pending(s), pkt)
    <3>1. u \in Seq(Reply) /\ Pending(s) \in Seq(Reply)
      BY <1>1
    <3> HIDE DEF u
    <3>2. QED  BY <3>1, StreamAppend
  <2>4. QED  BY <1>1, <1>2, <1>3, <2>2, <2>3
<1>4. CASE s \notin R
  <2>1. writes'[s] = w /\ m_SendDataQueue'[s] = q
    BY <1>1, <1>4 DEF PostSend
  <2>2. QED  BY <1>1, <1>2, <1>4, <2>1
<1>5. QED  BY <1>3, <1>4

(* The bytes of a write belong to the front packet of the queue and go to  *)
(* the session's client; the rest is then still to be sent.                *)
LEMMA TransmitFacts ==
  ASSUME IInv, NEW s \in Sessions, NEW i \in DOMAIN writes[s], Transmit(s, i)
  PROVE  /\ s \in Open
         /\ m_SendDataQueue[s] # <<>> /\ m_SendDataQueue' = m_SendDataQueue
         /\ Pending(s) = m_SendDataQueue[s]
         /\ Pending(s)' = Tail(m_SendDataQueue[s])
         /\ \A t \in Sessions : t # s => Pending(t)' = Pending(t)
         /\ s2c' = [s2c EXCEPT ![peer[s]] =
                       IF link[peer[s]] = "open"
                       THEN Append(@, Head(m_SendDataQueue[s])) ELSE @]
         /\ UNCHANGED <<peer, link, backlog, chat, joined, c2s, batch, handling>>
<1>1. /\ writes[s] \in Seq(Packet)
      /\ i \in 1 .. Len(writes[s])
      /\ WriteOK(writes[s], m_SendDataQueue[s], peer[s])
  <2>1. writes[s] \in Seq(Packet)
    BY DEF IInv, TypeOK, Packet
  <2>2. WriteOK(writes[s], m_SendDataQueue[s], peer[s])
    BY DEF IInv, OneWrite, WriteOK
  <2>3. QED  BY <2>1, <2>2, LenProperties
<1>2. m_SendDataQueue[s] # <<>> /\ Len(writes[s]) = 1 /\ i = 1 /\ writes[s] # <<>>
  BY <1>1, EmptySeq DEF WriteOK
<1>3. Head(writes[s]) = writes[s][1]
  BY <1>1, <1>2, HeadTailProperties
<1>4. /\ writes[s][1].to # None
      /\ writes[s][1].to = peer[s]
      /\ writes[s][1].data = Head(m_SendDataQueue[s])
  BY <1>1, <1>2, <1>3 DEF Transmit, WriteOK
<1>5. s \in Open
  BY <1>4 DEF Open
<1> DEFINE r == [writes[s][1] EXCEPT !.to = None]
           w == [writes[s] EXCEPT ![1] = r]
<1>6. writes[s][1] \in Packet
  BY <1>1, <1>2, ElementOfSeq
<1>7. r \in Packet /\ r.to = None
  BY <1>6 DEF Packet
<1>8. w \in Seq(Packet) /\ Len(w) = 1 /\ w[1] = r
  <2>1. 1 \in 1 .. Len(writes[s])
    BY <1>2
  <2>2. QED  BY <1>1, <1>2, <1>7, <2>1, ExceptSeq
<1>9. w # <<>> /\ Head(w) = r
  <2>1. w # <<>>
    BY <1>8, EmptySeq
  <2>2. QED  BY <1>8, <2>1, HeadTailProperties
<1>10. /\ writes'[s] = w
       /\ \A t \in Sessions : t # s => writes'[t] = writes[t]
       /\ m_SendDataQueue' = m_SendDataQueue
  BY <1>2 DEF Transmit, IInv, TypeOK
<1> HIDE DEF r, w
<1>11. Pending(s) = m_SendDataQueue[s]
  BY <1>3, <1>4 DEF Pending
<1>12. Pending(s)' = Tail(m_SendDataQueue[s])
  BY <1>7, <1>9, <1>10 DEF Pending
<1>13. \A t \in Sessions : t # s => Pending(t)' = Pending(t)
  BY <1>10 DEF Pending
<1>14. s2c' = [s2c EXCEPT ![peer[s]] = IF link[peer[s]] = "open"
                            THEN Append(@, Head(m_SendDataQueue[s])) ELSE @]
  BY <1>2, <1>4 DEF Transmit
<1>15. UNCHANGED <<peer, link, backlog, chat, joined, c2s, batch, handling>>
  BY DEF Transmit, sessionVars, clientVars, historyVars
<1>16. QED  BY <1>2, <1>5, <1>10, <1>11, <1>12, <1>13, <1>14, <1>15

-----------------------------------------------------------------------------
(* A session's requests: the packet at the front of the batch, and the     *)
(* replies made for it.                                                    *)
LEMMA ProcessFacts ==
  ASSUME IInv, OwnWords, NEW s \in Sessions, ProcessReqIn(s) \/ ProcessReqChat(s)
  PROVE  /\ s \in Open
         /\ Head(batch).text = peer[s]
         /\ ResIn(Head(batch).text) \in Reply
         /\ ResIn(Head(batch).text).nID = "RES_IN"
         /\ Len(chat) \in Nat
         /\ Notice(Len(chat) + 1) \in Reply
         /\ UNCHANGED <<peer, s2c, joined, link, backlog, c2s>>
<1>1. s = handling /\ batch # <<>>
  BY DEF ProcessReqIn, ProcessReqChat
<1>2. s \in Open
  BY <1>1, NoneAssumption DEF IInv, OneReader, Sessions
<1>3. batch \in Seq(Request)
  BY DEF IInv, TypeOK
<1>4. Head(batch) \in Request /\ Head(batch) = batch[1] /\ 1 \in DOMAIN batch
  BY <1>1, <1>3, HeadTailProperties, LenProperties, EmptySeq
<1>5. Head(batch).text = peer[s]
  BY <1>1, <1>4 DEF OwnWords
<1>6. Len(chat) \in Nat
  BY LenProperties DEF IInv, TypeOK
<1>7. ResIn(Head(batch).text) \in Reply /\ ResIn(Head(batch).text).nID = "RES_IN"
  BY <1>4 DEF Request, ResIn, Reply
<1>8. Notice(Len(chat) + 1) \in Reply
  BY <1>6 DEF Notice, Reply
<1>9. UNCHANGED <<peer, s2c, joined, link, backlog, c2s>>
  BY DEF ProcessReqIn, ProcessReqChat, clientVars, historyVars
<1>10. QED  BY <1>2, <1>5, <1>6, <1>7, <1>8, <1>9

(* The broadcasts said so far stay.                                        *)
LEMMA ChatGrows ==
  ASSUME IInv, OwnWords, NEW s \in Sessions, ProcessReqChat(s)
  PROVE  /\ Len(chat) \in Nat
         /\ Len(chat') = Len(chat) + 1
         /\ DOMAIN chat = 1 .. Len(chat)
         /\ DOMAIN chat' = 1 .. Len(chat) + 1
         /\ \A k \in 1 .. Len(chat) : chat'[k] = chat[k]
         /\ chat'[Len(chat) + 1].text = peer[s]
<1> DEFINE Entry == [szName : Clients \cup {None}, text : Clients]
           e == [szName |-> m_Name[s], text |-> Head(batch).text]
<1>1. Head(batch).text = peer[s] /\ s \in Open
  BY ProcessFacts
<1>2. e \in Entry
  BY <1>1 DEF IInv, TypeOK, Open
<1>3. chat \in Seq(Entry) /\ chat' = Append(chat, e)
  BY DEF IInv, TypeOK, ProcessReqChat
<1>4. e.text = peer[s]
  BY <1>1
<1> HIDE DEF Entry, e
<1>5. /\ Append(chat, e) \in Seq(Entry)
      /\ Len(Append(chat, e)) = Len(chat) + 1
      /\ \A k \in 1 .. Len(chat) : Append(chat, e)[k] = chat[k]
      /\ Append(chat, e)[Len(chat) + 1] = e
  BY <1>2, <1>3, AppendProperties
<1>6. Len(chat) \in Nat /\ DOMAIN chat = 1 .. Len(chat)
  BY <1>3, LenProperties
<1>7. DOMAIN Append(chat, e) = 1 .. Len(chat) + 1
  BY <1>5, LenProperties
<1>8. QED  BY <1>3, <1>4, <1>5, <1>6, <1>7

LEMMA KnownRefsStep == RInv /\ [Next]_vars => KnownRefs'
<1> SUFFICES ASSUME RInv, [Next]_vars  PROVE KnownRefs'
  OBVIOUS
<1> USE DEF RInv
<1>1. /\ Len(chat) \in Nat
      /\ \A s \in Sessions : m_SendDataQueue[s] \in Seq(Reply)
      /\ \A c \in Clients : s2c[c] \in Seq(Reply) /\ joined[c] \in Nat
      /\ joined \in [Clients -> Nat]
      /\ s2c \in [Clients -> Seq(Reply)]
  BY LenProperties DEF IInv, TypeOK
<1>2. ASSUME NEW R, NEW pkt \in Reply, NEW n \in Nat, PostSend(R, pkt),
             Len(chat) <= n, n = Len(chat'),
             pkt.nID = "NOTICE_CHAT" => pkt.ref \in 1 .. n,
             UNCHANGED <<s2c, joined>>
      PROVE  KnownRefs'
  <2>1. \A s \in Sessions : RefsUpTo(m_SendDataQueue[s], n)
    BY <1>1, <1>2, RefsGrow DEF KnownRefs
  <2>2. \A s \in Sessions : RefsUpTo(Append(m_SendDataQueue[s], pkt), n)
    BY <1>1, <1>2, <2>1, RefsAppend
  <2>3. \A s \in Sessions : RefsUpTo(m_SendDataQueue'[s], n)
    BY <1>2, <2>1, <2>2 DEF PostSend, QueueAfterSend
  <2>4. \A c \in Clients : RefsUpTo(s2c'[c], n)
    BY <1>1, <1>2, RefsGrow DEF KnownRefs
  <2>5. \A c \in Clients : joined'[c] <= n
    BY <1>1, <1>2 DEF KnownRefs
  <2>6. QED  BY <1>2, <2>3, <2>4, <2>5 DEF KnownRefs
<1>3. ASSUME NEW s \in Sessions, ProcessReqIn(s)
      PROVE  KnownRefs'
  <2>1. /\ ResIn(Head(batch).text) \in Reply
        /\ ResIn(Head(batch).text).nID = "RES_IN"
        /\ UNCHANGED <<s2c, joined>>
    BY <1>3, ProcessFacts
  <2>2. PostSend({s}, ResIn(Head(batch).text)) /\ chat' = chat
    BY <1>3 DEF ProcessReqIn, historyVars
  <2>3. QED  BY <1>1, <1>2, <2>1, <2>2
<1>4. ASSUME NEW s \in Sessions, ProcessReqChat(s)
      PROVE  KnownRefs'
  <2>1. Notice(Len(chat) + 1) \in Reply /\ UNCHANGED <<s2c, joined>>
    BY <1>4, ProcessFacts
  <2>2. Len(chat') = Len(chat) + 1
    BY <1>4, ChatGrows
  <2>3. PostSend(Open, Notice(Len(chat) + 1))
    BY <1>4 DEF ProcessReqChat
  <2>4. Notice(Len(chat) + 1).ref \in 1 .. Len(chat) + 1
    BY <1>1 DEF Notice
  <2>5. Len(chat) + 1 \in Nat /\ Len(chat) <= Len(chat) + 1
    BY <1>1
  <2>6. QED  BY <1>2, <2>1, <2>2, <2>3, <2>4, <2>5
<1>5. ASSUME NEW s \in Sessions, HandleAccept(s)
      PROVE  KnownRefs'
  <2>1. /\ UNCHANGED <<m_SendDataQueue, s2c, chat>>
        /\ joined' = [joined EXCEPT ![Head(backlog)] = Len(chat)]
    BY <1>5 DEF HandleAccept, sendVars
  <2>2. \A c \in Clients : joined'[c] <= Len(chat)
    BY <1>1, <2>1 DEF KnownRefs
  <2>3. QED  BY <2>1, <2>2 DEF KnownRefs
<1>6. ASSUME NEW s \in Sessions, HandleWrite(s)
      PROVE  KnownRefs'
  <2>1. m_SendDataQueue[s] # <<>>
    BY <1>6 DEF HandleWrite, IInv, OneWrite
  <2>2. RefsUpTo(Tail(m_SendDataQueue[s]), Len(chat))
    BY <1>1, <2>1, RefsTail DEF KnownRefs
  <2>3. /\ m_SendDataQueue' = [m_SendDataQueue EXCEPT ![s] = Tail(@)]
        /\ UNCHANGED <<s2c, chat, joined>>
    BY <1>6 DEF HandleWrite, historyVars
  <2>4. \A t \in Sessions : RefsUpTo(m_SendDataQueue'[t], Len(chat))
    BY <2>2, <2>3 DEF KnownRefs, IInv, TypeOK
  <2>5. QED  BY <2>3, <2>4 DEF KnownRefs
<1>7. ASSUME NEW s \in Sessions, NEW i \in DOMAIN writes[s], Transmit(s, i)
      PROVE  KnownRefs'
  <2> DEFINE pkt == Head(m_SendDataQueue[s])
  <2>1. /\ m_SendDataQueue[s] # <<>> /\ m_SendDataQueue' = m_SendDataQueue
        /\ s2c' = [s2c EXCEPT ![peer[s]] =
                      IF link[peer[s]] = "open" THEN Append(@, pkt) ELSE @]
        /\ UNCHANGED <<chat, joined>>
    BY <1>7, TransmitFacts
  <2>2. /\ pkt \in Reply
        /\ pkt.nID = "NOTICE_CHAT" => pkt.ref \in 1 .. Len(chat)
    BY <1>1, <2>1, TailContents, RefsTail DEF KnownRefs
  <2> HIDE DEF pkt
  <2>3. \A c \in Clients : RefsUpTo(Append(s2c[c], pkt), Len(chat))
    BY <1>1, <2>2, RefsAppend DEF KnownRefs
  <2>4. \A c \in Clients : RefsUpTo(s2c'[c], Len(chat))
    BY <1>1, <2>1, <2>3 DEF KnownRefs
  <2>5. QED  BY <2>1, <2>4 DEF KnownRefs
<1>8. ASSUME UNCHANGED <<m_SendDataQueue, s2c, chat, joined>>
      PROVE  KnownRefs'
  BY <1>8 DEF KnownRefs
<1>9. QED
  <2>1. ASSUME NEW s \in Sessions,
               \/ HandleAcceptError(s)
               \/ \E n \in 1 .. MaxPackets : HandleReceive(s, n)
               \/ HandleReceiveError(s)
        PROVE  UNCHANGED <<m_SendDataQueue, s2c, chat, joined>>
    BY <2>1 DEF HandleAcceptError, HandleReceive, HandleReceiveError, sendVars,
                historyVars
  <2>2. ASSUME NEW c \in Clients,
               ClientConnect(c) \/ ClientSend(c) \/ ClientClose(c)
        PROVE  UNCHANGED <<m_SendDataQueue, s2c, chat, joined>>
    BY <2>2 DEF ClientConnect, ClientSend, ClientClose, sendVars, historyVars
  <2>3. UNCHANGED vars => UNCHANGED <<m_SendDataQueue, s2c, chat, joined>>
    BY DEF vars, sendVars, historyVars
  <2>4. QED  BY <1>3, <1>4, <1>5, <1>6, <1>7, <1>8, <2>1, <2>2, <2>3
             DEF Next, Receive, Process, SendStep

LEMMA NothingYetStep == RInv /\ [Next]_vars => NothingYet'
<1> SUFFICES ASSUME RInv, [Next]_vars  PROVE NothingYet'
  OBVIOUS
<1> USE DEF RInv
<1>1. /\ backlog \in Seq(Clients)
      /\ Range(backlog) \subseteq Clients
      /\ link \in [Clients -> {"away", "open", "closed"}]
      /\ s2c \in [Clients -> Seq(Reply)]
  BY RangeType DEF IInv, TypeOK
<1>2. ASSUME NEW s \in Sessions, HandleAccept(s)
      PROVE  NothingYet'
  <2>1. backlog # <<>> /\ backlog' = Tail(backlog) /\ UNCHANGED <<link, s2c>>
    BY <1>2 DEF HandleAccept, clientVars
  <2>2. Range(backlog') \subseteq Range(backlog)
    BY <1>1, <2>1, TailContents
  <2>3. QED  BY <2>1, <2>2 DEF NothingYet
<1>3. ASSUME NEW c \in Clients, ClientConnect(c)
      PROVE  NothingYet'
  <2>1. /\ link[c] = "away" /\ link' = [link EXCEPT ![c] = "open"]
        /\ backlog' = Append(backlog, c) /\ s2c' = s2c
    BY <1>3 DEF ClientConnect
  <2>2. Range(backlog') = Range(backlog) \cup {c}
    BY <1>1, <2>1, AppendContents
  <2>3. \A d \in Clients : link'[d] = "away" => link[d] = "away"
    BY <1>1, <2>1
  <2>4. QED  BY <2>1, <2>2, <2>3 DEF NothingYet
<1>4. ASSUME NEW c \in Clients, ClientClose(c)
      PROVE  NothingYet'
  <2>1. link' = [link EXCEPT ![c] = "closed"] /\ UNCHANGED <<backlog, s2c>>
    BY <1>4 DEF ClientClose
  <2>2. \A d \in Clients : link'[d] = "away" => link[d] = "away"
    BY <1>1, <2>1
  <2>3. QED  BY <2>1, <2>2 DEF NothingYet
<1>5. ASSUME NEW s \in Sessions, NEW i \in DOMAIN writes[s], Transmit(s, i)
      PROVE  NothingYet'
  <2>1. s \in Open /\ UNCHANGED <<link, backlog>>
    BY <1>5, TransmitFacts
  <2>2. \A c \in Clients : c # peer[s] => s2c'[c] = s2c[c]
    <3>1. s2c' = [s2c EXCEPT ![peer[s]] =
                     IF link[peer[s]] = "open"
                     THEN Append(@, Head(m_SendDataQueue[s])) ELSE @]
      BY <1>5, TransmitFacts
    <3>2. QED  BY <1>1, <3>1
  <2>3. link[peer[s]] # "away" /\ peer[s] \notin Range(backlog)
    BY <2>1 DEF IInv, WaitingOnce
  <2>4. QED  BY <2>1, <2>2, <2>3 DEF NothingYet
<1>6. ASSUME UNCHANGED <<link, backlog, s2c>>
      PROVE  NothingYet'
  BY <1>6 DEF NothingYet
<1>7. QED
  <2>1. ASSUME NEW s \in Sessions,
               \/ HandleAcceptError(s)
               \/ \E n \in 1 .. MaxPackets : HandleReceive(s, n)
               \/ HandleReceiveError(s)
               \/ ProcessReqIn(s)
               \/ ProcessReqChat(s)
               \/ HandleWrite(s)
        PROVE  UNCHANGED <<link, backlog, s2c>>
    BY <2>1 DEF HandleAcceptError, HandleReceive, HandleReceiveError, ProcessReqIn,
                ProcessReqChat, HandleWrite, clientVars
  <2>2. ASSUME NEW c \in Clients, ClientSend(c)
        PROVE  UNCHANGED <<link, backlog, s2c>>
    BY <2>2 DEF ClientSend
  <2>3. UNCHANGED vars => UNCHANGED <<link, backlog, s2c>>
    BY DEF vars, clientVars
  <2>4. QED  BY <1>2, <1>3, <1>4, <1>5, <1>6, <2>1, <2>2, <2>3
             DEF Next, Receive, Process, SendStep

LEMMA OwnWordsStep == RInv /\ [Next]_vars => OwnWords'
<1> SUFFICES ASSUME RInv, [Next]_vars  PROVE OwnWords'
  OBVIOUS
<1> USE DEF RInv
<1>1. /\ c2s \in [Clients -> Seq(Request)]
      /\ batch \in Seq(Request)
      /\ peer \in [Sessions -> Clients \cup {None}]
      /\ handling = None => batch = <<>>
  BY DEF IInv, TypeOK, OneReader
<1>2. ASSUME NEW s \in Sessions, NEW n \in 1 .. MaxPackets, HandleReceive(s, n)
      PROVE  OwnWords'
  <2> DEFINE c == peer[s]
             q == c2s[c]
  <2>1. /\ n <= Len(q)
        /\ handling' = s /\ peer' = peer
        /\ batch' = SubSeq(q, 1, n)
        /\ c2s' = [c2s EXCEPT ![c] = SubSeq(q, n + 1, Len(q))]
    BY <1>2 DEF HandleReceive
  <2>2. c \in Clients
    BY <1>2 DEF HandleReceive, IInv, OneReader, Open, TypeOK
  <2>3. q \in Seq(Request) /\ DOMAIN q = 1 .. Len(q) /\ Len(q) \in Nat
    BY <1>1, <2>2, LenProperties
  <2>4. \A i \in 1 .. Len(q) : q[i] \in Request /\ q[i].text = c
    BY <2>2, <2>3, ElementOfSeq DEF OwnWords
  <2> HIDE DEF q, c
  <2>5. n \in Nat \ {0}
    BY BoundAssumption
  <2>6. \A i \in DOMAIN batch' : batch'[i].text = c
    <3>1. \A i \in 1 .. n : q[i] \in Request
      BY <2>1, <2>3, <2>4, <2>5
    <3>2. /\ SubSeq(q, 1, n) \in Seq(Request)
          /\ Len(SubSeq(q, 1, n)) = n
          /\ \A i \in 1 .. n - 1 + 1 : SubSeq(q, 1, n)[i] = q[1 + i - 1]
      BY <2>5, <3>1, SubSeqProperties
    <3>3. DOMAIN SubSeq(q, 1, n) = 1 .. n
      BY <3>2, LenProperties
    <3>4. \A i \in 1 .. n : /\ i \in 1 .. n - 1 + 1 /\ 1 + i - 1 = i
                            /\ i \in 1 .. Len(q)
      BY <2>1, <2>3, <2>5
    <3>5. QED  BY <2>1, <2>4, <3>2, <3>3, <3>4
  <2>7. \A i \in DOMAIN SubSeq(q, n + 1, Len(q)) :
           SubSeq(q, n + 1, Len(q))[i].text = c
    <3> DEFINE r == SubSeq(q, n + 1, Len(q))
    <3>1. \A i \in n + 1 .. Len(q) : q[i] \in Request
      BY <2>3, <2>4, <2>5
    <3>2. n + 1 \in Int /\ Len(q) \in Int
      BY <2>3, <2>5
    <3>3. /\ r \in Seq(Request)
          /\ Len(r) = IF n + 1 <= Len(q) THEN Len(q) - (n + 1) + 1 ELSE 0
          /\ \A i \in 1 .. Len(q) - (n + 1) + 1 : r[i] = q[n + 1 + i - 1]
      BY <3>1, <3>2, SubSeqProperties
    <3>4. DOMAIN r = 1 .. Len(r)
      BY <3>3, LenProperties
    <3> HIDE DEF r
    <3>5. ASSUME NEW i \in 1 .. Len(r)
          PROVE  r[i].text = c
      <4>1. i \in 1 .. Len(q) - (n + 1) + 1 /\ n + 1 + i - 1 \in 1 .. Len(q)
        <5> DEFINE m == Len(r)
                   l == Len(q)
        <5>1. /\ l \in Nat /\ n \in Nat \ {0} /\ i \in 1 .. m
              /\ m = IF n + 1 <= l THEN l - (n + 1) + 1 ELSE 0
          BY <2>3, <2>5, <3>3
        <5> HIDE DEF m, l
        <5>2. i \in 1 .. l - (n + 1) + 1 /\ n + 1 + i - 1 \in 1 .. l
          BY <5>1
        <5>3. QED  BY <5>2 DEF l
      <4>2. QED  BY <2>4, <3>3, <4>1
    <3>6. QED  BY <3>4, <3>5 DEF r
  <2>8. \A d \in Clients : \A i \in DOMAIN c2s'[d] : c2s'[d][i].text = d
    BY <1>1, <2>1, <2>2, <2>7 DEF OwnWords
  <2>9. peer'[handling'] = c
    BY <2>1 DEF c
  <2>10. QED  BY <2>6, <2>8, <2>9 DEF OwnWords
<1>3. ASSUME NEW s \in Sessions, ProcessReqIn(s) \/ ProcessReqChat(s)
      PROVE  OwnWords'
  <2>1. /\ batch # <<>> /\ batch' = Tail(batch)
        /\ \/ Len(batch) > 1 /\ handling' = handling
           \/ Len(batch) = 1
        /\ UNCHANGED <<peer, c2s>>
    BY <1>3 DEF ProcessReqIn, ProcessReqChat, NextPacket
  <2>2. /\ Tail(batch) \in Seq(Request)
        /\ Len(Tail(batch)) = Len(batch) - 1
        /\ \A i \in 1 .. Len(Tail(batch)) : Tail(batch)[i] = batch[i + 1]
        /\ Len(batch) \in Nat /\ DOMAIN batch = 1 .. Len(batch)
    BY <1>1, <2>1, HeadTailProperties, LenProperties
  <2>3. DOMAIN Tail(batch) = 1 .. Len(Tail(batch))
    BY <2>2, LenProperties
  <2>4. CASE Len(batch) = 1
    <3>1. DOMAIN batch' = {}
      BY <2>1, <2>2, <2>3, <2>4
    <3>2. QED  BY <2>1, <3>1 DEF OwnWords
  <2>5. CASE Len(batch) > 1 /\ handling' = handling
    <3>1. \A i \in 1 .. Len(Tail(batch)) : i + 1 \in DOMAIN batch
      BY <2>2
    <3>2. \A i \in DOMAIN batch' : batch'[i].text = peer[handling]
      BY <2>1, <2>2, <2>3, <3>1 DEF OwnWords
    <3>3. QED  BY <2>1, <2>5, <3>2 DEF OwnWords
  <2>6. QED  BY <2>1, <2>4, <2>5
<1>4. ASSUME NEW s \in Sessions, HandleAccept(s) \/ HandleReceiveError(s)
      PROVE  OwnWords'
  <2>1. handling = None /\ UNCHANGED <<batch, c2s>>
    BY <1>4 DEF HandleAccept, HandleReceiveError
  <2>2. DOMAIN batch = {}
    BY <1>1, <2>1
  <2>3. QED  BY <2>1, <2>2 DEF OwnWords
<1>5. ASSUME NEW c \in Clients, ClientSend(c)
      PROVE  OwnWords'
  <2>1. PICK pkt \in {ReqIn(c), ReqChat(c)} :
              c2s' = [c2s EXCEPT ![c] = Append(@, pkt)]
    BY <1>5 DEF ClientSend
  <2>2. pkt \in Request /\ pkt.text = c
    BY DEF ReqIn, ReqChat, Request
  <2>3. UNCHANGED <<peer, handling, batch>>
    BY <1>5 DEF ClientSend, sessionVars
  <2>4. \A i \in DOMAIN Append(c2s[c], pkt) : Append(c2s[c], pkt)[i].text = c
    <3>1. /\ c2s[c] \in Seq(Request)
          /\ Append(c2s[c], pkt) \in Seq(Request)
          /\ Len(Append(c2s[c], pkt)) = Len(c2s[c]) + 1
          /\ \A i \in 1 .. Len(c2s[c]) : Append(c2s[c], pkt)[i] = c2s[c][i]
          /\ Append(c2s[c], pkt)[Len(c2s[c]) + 1] = pkt
      BY <1>1, <2>2, AppendProperties
    <3>2. /\ DOMAIN c2s[c] = 1 .. Len(c2s[c])
          /\ DOMAIN Append(c2s[c], pkt) = 1 .. Len(c2s[c]) + 1
          /\ Len(c2s[c]) \in Nat
      BY <3>1, LenProperties
    <3>3. 1 .. Len(c2s[c]) + 1 = (1 .. Len(c2s[c])) \cup {Len(c2s[c]) + 1}
      BY <3>2
    <3>4. QED  BY <2>2, <3>1, <3>2, <3>3 DEF OwnWords
  <2>5. QED  BY <1>1, <2>1, <2>3, <2>4 DEF OwnWords
<1>6. ASSUME UNCHANGED <<peer, handling, batch, c2s>>
      PROVE  OwnWords'
  BY <1>6 DEF OwnWords
<1>7. QED
  <2>1. ASSUME NEW s \in Sessions,
               \/ HandleAcceptError(s)
               \/ HandleWrite(s)
               \/ \E i \in DOMAIN writes[s] : Transmit(s, i)
        PROVE  UNCHANGED <<peer, handling, batch, c2s>>
    BY <2>1 DEF HandleAcceptError, HandleWrite, Transmit, sessionVars
  <2>2. ASSUME NEW c \in Clients, ClientConnect(c) \/ ClientClose(c)
        PROVE  UNCHANGED <<peer, handling, batch, c2s>>
    BY <2>2 DEF ClientConnect, ClientClose, sessionVars
  <2>3. UNCHANGED vars => UNCHANGED <<peer, handling, batch, c2s>>
    BY DEF vars, sessionVars
  <2>4. QED  BY <1>2, <1>3, <1>4, <1>5, <1>6, <2>1, <2>2, <2>3
             DEF Next, Receive, Process, SendStep

-----------------------------------------------------------------------------
LEMMA PendingRefs ==
  ASSUME IInv, KnownRefs, NEW s \in Sessions
  PROVE  Pending(s) \in Seq(Reply) /\ RefsUpTo(Pending(s), Len(chat))
<1>1. m_SendDataQueue[s] \in Seq(Reply) /\ Len(chat) \in Nat
  BY LenProperties DEF IInv, TypeOK
<1>2. RefsUpTo(m_SendDataQueue[s], Len(chat))
  BY DEF KnownRefs
<1>3. CASE writes[s] # <<>> /\ Head(writes[s]).to = None
  <2>1. m_SendDataQueue[s] # <<>>
    BY <1>3 DEF IInv, OneWrite
  <2>2. /\ Tail(m_SendDataQueue[s]) \in Seq(Reply)
        /\ RefsUpTo(Tail(m_SendDataQueue[s]), Len(chat))
    BY <1>1, <1>2, <2>1, TailContents, RefsTail
  <2>3. QED  BY <1>3, <2>2 DEF Pending
<1>4. CASE ~(writes[s] # <<>> /\ Head(writes[s]).to = None)
  BY <1>1, <1>2, <1>4 DEF Pending
<1>5. QED  BY <1>3, <1>4

(* A transmission moves a packet along its client's stream.                *)
LEMMA TransmitStream ==
  ASSUME IInv, NEW s \in Sessions, NEW i \in DOMAIN writes[s], Transmit(s, i),
         NEW t \in Open, link[peer[t]] = "open"
  PROVE  Stream(t)' = Stream(t)
<1> DEFINE q == m_SendDataQueue[s]
<1>1. /\ s \in Open /\ q # <<>>
      /\ Pending(s) = q /\ Pending(s)' = Tail(q)
      /\ \A r \in Sessions : r # s => Pending(r)' = Pending(r)
      /\ s2c' = [s2c EXCEPT ![peer[s]] =
                    IF link[peer[s]] = "open" THEN Append(@, Head(q)) ELSE @]
      /\ peer' = peer
  BY TransmitFacts
<1>2. /\ t \in Sessions /\ peer[t] \in Clients /\ s2c[peer[t]] \in Seq(Reply)
      /\ q \in Seq(Reply)
      /\ s2c \in [Clients -> Seq(Reply)]
  BY <1>1, StreamType DEF IInv, TypeOK
<1> HIDE DEF q
<1>3. Stream(t)' = s2c'[peer[t]] \o Pending(t)' /\ Stream(t) = s2c[peer[t]] \o Pending(t)
  BY <1>1 DEF Stream
<1>4. CASE t = s
  <2>1. s2c'[peer[t]] = Append(s2c[peer[t]], Head(q))
    BY <1>1, <1>2, <1>4
  <2>2. Append(s2c[peer[t]], Head(q)) \o Tail(q) = s2c[peer[t]] \o q
    BY <1>1, <1>2, StreamTail
  <2>3. QED  BY <1>1, <1>3, <1>4, <2>1, <2>2
<1>5. CASE t # s
  <2>1. peer[t] # peer[s]
    BY <1>1, <1>5 DEF IInv, OneReader
  <2>2. s2c'[peer[t]] = s2c[peer[t]]
    BY <1>1, <1>2, <2>1
  <2>3. QED  BY <1>1, <1>2, <1>3, <1>5, <2>2
<1>6. QED  BY <1>4, <1>5

LEMMA EveryStep == RInv /\ [Next]_vars => EveryMessageOnce'
<1> SUFFICES ASSUME RInv, [Next]_vars
             PROVE  \A t \in Open' : link'[peer'[t]] = "open" =>
                       Delivered(Stream(t)', joined'[peer'[t]], Len(chat'))
  BY DEF EveryMessageOnce, Delivered, Fresh, FreshIn
<1> USE DEF RInv
<1> DEFINE Goal == \A t \in Open' : link'[peer'[t]] = "open" =>
                       Delivered(Stream(t)', joined'[peer'[t]], Len(chat'))
<1>1. \A t \in Open : link[peer[t]] = "open" =>
         Delivered(Stream(t), joined[peer[t]], Len(chat))
  BY DEF EveryMessageOnce, Delivered, Fresh, FreshIn
<1>2. /\ Len(chat) \in Nat
      /\ TypeOK /\ OneWrite
      /\ \A t \in Open : /\ t \in Sessions /\ peer[t] \in Clients
                         /\ Stream(t) \in Seq(Reply)
                         /\ joined[peer[t]] \in Nat
                         /\ joined[peer[t]] <= Len(chat)
                         /\ RefsUpTo(Stream(t), Len(chat))
  <2>1. Len(chat) \in Nat /\ TypeOK /\ OneWrite
    BY LenProperties DEF IInv, TypeOK
  <2>2. ASSUME NEW t \in Open
        PROVE  /\ t \in Sessions /\ peer[t] \in Clients
               /\ Stream(t) \in Seq(Reply)
               /\ RefsUpTo(Stream(t), Len(chat))
    <3>1. /\ t \in Sessions /\ peer[t] \in Clients
          /\ s2c[peer[t]] \in Seq(Reply)
          /\ Stream(t) = s2c[peer[t]] \o Pending(t)
          /\ Stream(t) \in Seq(Reply)
      BY <2>1, StreamType
    <3>2. Pending(t) \in Seq(Reply) /\ RefsUpTo(Pending(t), Len(chat))
      BY <3>1, PendingRefs
    <3>3. RefsUpTo(s2c[peer[t]], Len(chat))
      BY <3>1 DEF KnownRefs
    <3>4. RefsUpTo(s2c[peer[t]] \o Pending(t), Len(chat))
      BY <2>1, <3>1, <3>2, <3>3, RefsConcat
    <3>5. QED  BY <3>1, <3>4
  <2>3. QED  BY <2>1, <2>2 DEF TypeOK, KnownRefs
<1>3. ASSUME NEW s \in Sessions, HandleAccept(s)
      PROVE  Goal
  <2> DEFINE c == Head(backlog)
  <2>1. /\ s \in accepting /\ backlog # <<>>
        /\ peer' = [peer EXCEPT ![s] = c]
        /\ joined' = [joined EXCEPT ![c] = Len(chat)]
        /\ UNCHANGED <<link, chat, s2c, writes, m_SendDataQueue>>
    BY <1>3 DEF HandleAccept, sendVars, clientVars
  <2>2. c \in Range(backlog) /\ c \in Clients /\ Range(backlog) \subseteq Clients
    BY <1>2, <2>1, TailContents, RangeType DEF TypeOK
  <2>3. \A t \in Open : peer[t] # c
    BY <2>2 DEF IInv, WaitingOnce
  <2>4. \A t \in Sessions : Pending(t)' = Pending(t)
    BY <2>1 DEF Pending
  <2> HIDE DEF c
  <2>5. ASSUME NEW t \in Open', link'[peer'[t]] = "open"
        PROVE  Delivered(Stream(t)', joined'[peer'[t]], Len(chat'))
    <3>1. t \in Sessions
      BY <2>5 DEF Open
    <3>2. CASE t = s
      <4>1. peer'[t] = c /\ joined'[c] = Len(chat)
        BY <1>2, <2>1, <2>2, <3>2 DEF TypeOK
      <4>2. Stream(t)' = s2c[c] \o Pending(t)
        BY <2>1, <2>4, <3>1, <4>1 DEF Stream
      <4>3. s2c[c] \in Seq(Reply) /\ RefsUpTo(s2c[c], Len(chat))
        BY <1>2, <2>2 DEF TypeOK, KnownRefs
      <4>4. Pending(t) \in Seq(Reply) /\ RefsUpTo(Pending(t), Len(chat))
        BY <3>1, PendingRefs
      <4>5. /\ s2c[c] \o Pending(t) \in Seq(Reply)
            /\ RefsUpTo(s2c[c] \o Pending(t), Len(chat))
        BY <1>2, <4>3, <4>4, ConcatProperties, RefsConcat
      <4>6. Delivered(s2c[c] \o Pending(t), Len(chat), Len(chat))
        BY <1>2, <4>5, NothingFresh
      <4>7. QED  BY <2>1, <4>1, <4>2, <4>6
    <3>3. CASE t # s
      <4>1. peer'[t] = peer[t]
        BY <1>2, <2>1, <3>1, <3>3 DEF TypeOK
      <4>2. t \in Open
        BY <2>5, <3>1, <4>1 DEF Open
      <4>3. joined'[peer[t]] = joined[peer[t]]
        BY <1>2, <2>1, <2>3, <4>2 DEF TypeOK
      <4>4. Stream(t)' = Stream(t)
        BY <2>1, <2>4, <3>1, <4>1 DEF Stream
      <4>5. QED  BY <1>1, <2>1, <2>5, <4>1, <4>2, <4>3, <4>4
    <3>4. QED  BY <3>2, <3>3
  <2>6. QED  BY <2>5
<1>4. ASSUME NEW s \in Sessions, HandleReceiveError(s)
      PROVE  Goal
  <2>1. /\ peer' = [peer EXCEPT ![s] = None]
        /\ \A t \in Sessions : t # s => writes'[t] = writes[t]
        /\ UNCHANGED <<link, chat, joined, s2c, m_SendDataQueue>>
    BY <1>2, <1>4 DEF HandleReceiveError, CloseSession, clientVars, historyVars, TypeOK
  <2>2. ASSUME NEW t \in Open'
        PROVE  t \in Open /\ peer'[t] = peer[t] /\ Stream(t)' = Stream(t)
    <3>1. t \in Sessions /\ t # s /\ peer'[t] = peer[t]
      BY <1>2, <2>1 DEF TypeOK, Open
    <3>2. t \in Open
      BY <3>1 DEF Open
    <3>3. Stream(t)' = Stream(t)
      BY <2>1, <3>1 DEF Stream, Pending
    <3>4. QED  BY <3>1, <3>2, <3>3
  <2>3. QED  BY <1>1, <2>1, <2>2
<1>5. ASSUME NEW s \in Sessions, ProcessReqIn(s)
      PROVE  Goal
  <2> DEFINE pkt == ResIn(Head(batch).text)
  <2>1. /\ pkt \in Reply /\ pkt.nID = "RES_IN"
        /\ UNCHANGED <<peer, s2c, joined, link>>
    BY <1>5, ProcessFacts
  <2>2. PostSend({s}, pkt) /\ chat' = chat /\ Open' = Open
    BY <1>5, <2>1 DEF ProcessReqIn, historyVars, Open
  <2> HIDE DEF pkt
  <2>3. \A t \in Open : Stream(t)' = IF t = s THEN Append(Stream(t), pkt) ELSE Stream(t)
    BY <1>2, <2>1, <2>2, StreamPost
  <2>4. \A t \in Open : link[peer[t]] = "open" =>
           Delivered(Append(Stream(t), pkt), joined[peer[t]], Len(chat))
    BY <1>1, <1>2, <2>1, DeliverOther
  <2>5. QED  BY <1>1, <2>1, <2>2, <2>3, <2>4
<1>6. ASSUME NEW s \in Sessions, ProcessReqChat(s)
      PROVE  Goal
  <2> DEFINE pkt == Notice(Len(chat) + 1)
  <2>1. pkt \in Reply /\ UNCHANGED <<peer, s2c, joined, link>>
    BY <1>6, ProcessFacts
  <2>2. Len(chat') = Len(chat) + 1
    BY <1>6, ChatGrows
  <2>3. PostSend(Open, pkt) /\ Open' = Open
    BY <1>6, <2>1 DEF ProcessReqChat, Open
  <2>4. \A t \in Open : Stream(t)' = Append(Stream(t), pkt)
    BY <1>2, <2>1, <2>3, StreamPost
  <2>5. \A t \in Open : link[peer[t]] = "open" =>
           Delivered(Append(Stream(t), pkt), joined[peer[t]], Len(chat) + 1)
    BY <1>1, <1>2, DeliverNotice
  <2>6. QED  BY <2>1, <2>2, <2>3, <2>4, <2>5
<1>7. ASSUME NEW s \in Sessions, HandleWrite(s)
      PROVE  Goal
  <2> DEFINE w == writes[s]
             q == m_SendDataQueue[s]
             v == IF Tail(q) = <<>> THEN Tail(w)
                  ELSE WritesAfterSend(Tail(w), Tail(q), TRUE, Head(Tail(q)), peer[s])
  <2>1. /\ w # <<>> /\ Head(w).to = None
        /\ m_SendDataQueue'[s] = Tail(q) /\ writes'[s] = v
        /\ \A t \in Sessions : t # s => /\ writes'[t] = writes[t]
                                        /\ m_SendDataQueue'[t] = m_SendDataQueue[t]
        /\ UNCHANGED <<peer, link, chat, joined, s2c>> /\ Open' = Open
    BY <1>2, <1>7 DEF HandleWrite, sessionVars, clientVars, historyVars, TypeOK, Open
  <2>2. ASSUME NEW t \in Open
        PROVE  Stream(t)' = Stream(t)
    <3>1. CASE t = s
      <4>1. /\ w \in Seq(Packet) /\ q \in Seq(Reply) /\ peer[s] \in Clients
            /\ WriteOK(w, q, peer[s])
            /\ Pending(s) = PendingOf(w, q)
        BY <1>2, <3>1, StreamType
      <4>2. PendingOf(v, Tail(q)) = PendingOf(w, q)
        BY <2>1, <4>1, PendingNext
      <4>3. Pending(s)' = PendingOf(v, Tail(q))
        BY <2>1 DEF Pending, PendingOf
      <4>4. QED  BY <2>1, <3>1, <4>1, <4>2, <4>3 DEF Stream
    <3>2. CASE t # s
      BY <1>2, <2>1, <3>2 DEF Stream, Pending
    <3>3. QED  BY <3>1, <3>2
  <2>3. QED  BY <1>1, <2>1, <2>2
<1>8. ASSUME NEW s \in Sessions, NEW i \in DOMAIN writes[s], Transmit(s, i)
      PROVE  Goal
  <2>1. UNCHANGED <<peer, link, chat, joined>> /\ Open' = Open
    BY <1>8, TransmitFacts DEF Open
  <2>2. \A t \in Open : link[peer[t]] = "open" => Stream(t)' = Stream(t)
    BY <1>8, TransmitStream
  <2>3. QED  BY <1>1, <2>1, <2>2
<1>9. ASSUME UNCHANGED <<peer, chat, joined, s2c, writes, m_SendDataQueue>>,
             \A c \in Clients : (\E t \in Open : peer[t] = c) /\ link'[c] = "open"
                                => link[c] = "open"
      PROVE  Goal
  <2>1. Open' = Open /\ \A t \in Open : Stream(t)' = Stream(t)
    BY <1>9 DEF Open, Stream, Pending
  <2>2. QED  BY <1>1, <1>2, <1>9, <2>1
<1>10. QED
  <2>1. ASSUME NEW s \in Sessions,
               HandleAcceptError(s) \/ \E n \in 1 .. MaxPackets : HandleReceive(s, n)
        PROVE  UNCHANGED <<peer, chat, joined, s2c, writes, m_SendDataQueue, link>>
    BY <2>1 DEF HandleAcceptError, HandleReceive, sessionVars, sendVars, clientVars,
                historyVars
  <2>2. ASSUME NEW c \in Clients, ClientSend(c)
        PROVE  UNCHANGED <<peer, chat, joined, s2c, writes, m_SendDataQueue, link>>
    BY <2>2 DEF ClientSend, sessionVars, sendVars, historyVars
  <2>3. UNCHANGED vars =>
           UNCHANGED <<peer, chat, joined, s2c, writes, m_SendDataQueue, link>>
    BY DEF vars, sessionVars, sendVars, clientVars, historyVars
  <2>4. UNCHANGED <<peer, chat, joined, s2c, writes, m_SendDataQueue, link>> => Goal
    <3>1. SUFFICES ASSUME UNCHANGED <<peer, chat, joined, s2c, writes,
                                      m_SendDataQueue, link>>
                   PROVE  Goal
      OBVIOUS
    <3>2. \A c \in Clients : (\E t \in Open : peer[t] = c) /\ link'[c] = "open"
                             => link[c] = "open"
      BY <3>1
    <3> HIDE DEF Goal
    <3>3. QED  BY <1>9, <3>1, <3>2
  <2>5. ASSUME NEW c \in Clients, ClientConnect(c) \/ ClientClose(c)
        PROVE  Goal
    <3>1. UNCHANGED <<peer, chat, joined, s2c, writes, m_SendDataQueue>>
      BY <2>5 DEF ClientConnect, ClientClose, sessionVars, sendVars, historyVars
    <3>2. \/ link[c] = "away" /\ link' = [link EXCEPT ![c] = "open"]
          \/ link' = [link EXCEPT ![c] = "closed"]
      BY <2>5 DEF ClientConnect, ClientClose
    <3>3. \A d \in Clients : (\E t \in Open : peer[t] = d) => link[d] # "away"
      BY DEF IInv, WaitingOnce
    <3>4. \A d \in Clients : (\E t \in Open : peer[t] = d) /\ link'[d] = "open"
                             => link[d] = "open"
      BY <1>2, <3>2, <3>3 DEF TypeOK
    <3> HIDE DEF Goal
    <3>5. QED  BY <1>9, <3>1, <3>4
  <2> HIDE DEF Goal
  <2>6. Goal
    BY <1>3, <1>4, <1>5, <1>6, <1>7, <1>8, <2>1, <2>2, <2>3, <2>4, <2>5
       DEF Next, Receive, Process, SendStep
  <2>7. QED  BY <2>6 DEF Goal

LEMMA InitRInv == Init => RInv
<1> SUFFICES ASSUME Init PROVE RInv
  OBVIOUS
<1>1. IInv
  BY InitInv
<1>2. Len(chat) = 0 /\ Open = {}
  BY DEF Init, Open
<1>3. KnownRefs
  BY <1>2 DEF Init, KnownRefs, RefsUpTo
<1>4. NothingYet /\ OwnWords
  BY DEF Init, NothingYet, OwnWords
<1>5. EveryMessageOnce
  BY <1>2 DEF EveryMessageOnce
<1>6. QED  BY <1>1, <1>3, <1>4, <1>5 DEF RInv

LEMMA RoomInvariance == Spec => []RInv
<1>1. IInv /\ [Next]_vars => IInv'
  BY TypeStep, PoolStep, ReaderStep, WriteStep, WaitingStep DEF IInv
<1>2. RInv /\ [Next]_vars => RInv'
  BY <1>1, KnownRefsStep, NothingYetStep, OwnWordsStep, EveryStep DEF RInv
<1>3. QED  BY InitRInv, <1>2, PTL DEF Spec

(* Each connected client gets each message said since it was accepted      *)
(* once, and in the order all get them - however often sessions have been  *)
(* closed and used again, and whatever waits in their queues (PostSend,    *)
(* handle_write, handle_accept, closeSession).                             *)
THEOREM MessagesOnce == Spec => []EveryMessageOnce
<1>1. RInv => EveryMessageOnce
  BY DEF RInv
<1>2. QED  BY RoomInvariance, <1>1, PTL

-----------------------------------------------------------------------------
(* The state of the room.                                                  *)
Members   == [c \in Clients |-> RoomMember(c)]
Authors   == [k \in DOMAIN chat |-> chat[k].text]
SeenBy(c) == {k \in joined[c] + 1 .. Len(chat) : Notice(k) \in Range(s2c[c])}
Seen      == [c \in Clients |-> SeenBy(c)]

LEMMA RefInRange ==
  ASSUME NEW str, NEW n \in Nat, RefsUpTo(str, n), NEW k, Notice(k) \in Range(str)
  PROVE  k \in 1 .. n
<1>1. PICK i \in DOMAIN str : str[i] = Notice(k)
  BY DEF Range
<1>2. Notice(k).nID = "NOTICE_CHAT" /\ Notice(k).ref = k
  BY DEF Notice
<1>3. QED  BY <1>1, <1>2 DEF RefsUpTo

LEMMA MembersSame ==
  ASSUME UNCHANGED <<peer, link, backlog>>
  PROVE  Members' = Members
BY DEF Members, RoomMember, Open, Range

LEMMA SeenSame ==
  ASSUME UNCHANGED <<joined, chat, s2c>>
  PROVE  Seen' = Seen /\ Authors' = Authors
BY DEF Seen, SeenBy, Authors, Range

LEMMA RoomInit == Init => Room!Init
<1> SUFFICES ASSUME Init PROVE Room!Init
  OBVIOUS
<1>1. Members = [c \in Clients |-> "out"]
  BY DEF Init, Members, RoomMember, Open
<1>2. Authors = <<>>
  BY DEF Init, Authors
<1>3. Seen = [c \in Clients |-> {}]
  BY DEF Init, Seen, SeenBy
<1>4. joined = [c \in Clients |-> 0]
  BY DEF Init
<1>5. QED  BY <1>1, <1>2, <1>3, <1>4 DEF Room!Init, Members, Authors, Seen, SeenBy

LEMMA AcceptJoins ==
  ASSUME RInv, NEW s \in Sessions, HandleAccept(s)
  PROVE  Room!Next
<1> USE DEF RInv
<1>c. Head(backlog) \in Clients
  BY TailContents DEF HandleAccept, IInv, TypeOK
<1> SUFFICES ASSUME NEW c \in Clients, c = Head(backlog)
             PROVE  Room!Next
  BY <1>c
<1>1. /\ s \in accepting /\ backlog # <<>> /\ backlog' = Tail(backlog)
      /\ peer' = [peer EXCEPT ![s] = c]
      /\ joined' = [joined EXCEPT ![c] = Len(chat)]
      /\ UNCHANGED <<link, chat, s2c>>
  BY DEF HandleAccept, clientVars
<1>2. /\ Range(backlog) = Range(backlog') \cup {c}
      /\ peer \in [Sessions -> Clients \cup {None}]
      /\ joined \in [Clients -> Nat]
      /\ chat \in Seq([szName : Clients \cup {None}, text : Clients])
  BY <1>1, TailContents DEF IInv, TypeOK
<1>3. s \notin Open /\ \A t \in Open : peer[t] # c
  BY <1>1, <1>2 DEF IInv, SessionConservation, WaitingOnce
<1>4. Open' = Open \cup {s} /\ peer'[s] = c /\ \A t \in Open : peer'[t] = peer[t]
  BY <1>1, <1>2, <1>3, NoneAssumption DEF Open
<1>5. RoomMember(c) = "out"
  BY <1>2, <1>3 DEF RoomMember
<1>6. RoomMember(c)' = "in"
  <2>1. \E t \in Open' : peer'[t] = c
    BY <1>4
  <2>2. QED  BY <2>1 DEF RoomMember
<1>7. ASSUME NEW d \in Clients, d # c
      PROVE  RoomMember(d)' = RoomMember(d)
  <2>1. (\E t \in Open' : peer'[t] = d) <=> (\E t \in Open : peer[t] = d)
    BY <1>4, <1>7
  <2>2. d \in Range(backlog') <=> d \in Range(backlog)
    BY <1>2, <1>7
  <2>3. QED  BY <1>1, <2>1, <2>2 DEF RoomMember
<1>8. Members' = [Members EXCEPT ![c] = "in"]
  <2>1. Members' = [d \in Clients |-> IF d = c THEN "in" ELSE RoomMember(d)]
    BY <1>6, <1>7 DEF Members
  <2>2. QED  BY <1>2, <2>1 DEF Members
<1>9. Seen' = Seen
  <2>1. ASSUME NEW d \in Clients
        PROVE  SeenBy(d)' = SeenBy(d)
    <3>1. CASE d = c
      <4>1. s2c[c] = <<>>
        BY <1>2 DEF NothingYet
      <4>2. Range(s2c[c]) = {}
        BY <4>1 DEF Range
      <4>3. QED  BY <1>1, <3>1, <4>2 DEF SeenBy
    <3>2. CASE d # c
      BY <1>1, <1>2, <3>2 DEF SeenBy
    <3>3. QED  BY <3>1, <3>2
  <2>2. QED  BY <2>1 DEF Seen
<1>10. Authors' = Authors
  BY <1>1 DEF Authors
<1>11. Len(Authors) = Len(chat)
  BY <1>2, LenProperties DEF Authors
<1>12. Members[c] = "out"
  BY <1>2, <1>5 DEF Members
<1>13. Room!Join(c)
  BY <1>1, <1>8, <1>9, <1>10, <1>11, <1>12 DEF Room!Join, Members, Authors, Seen, SeenBy
<1>14. QED  BY <1>13 DEF Room!Next

LEMMA ErrorLeaves ==
  ASSUME RInv, NEW s \in Sessions, HandleReceiveError(s)
  PROVE  Room!Next
<1> USE DEF RInv
<1>1. s \in Open /\ peer[s] \in Clients
  BY DEF HandleReceiveError, IInv, OneReader, Open, TypeOK
<1> SUFFICES ASSUME NEW c \in Clients, c = peer[s]
             PROVE  Room!Next
  BY <1>1
<1>2. /\ link[c] = "closed"
      /\ peer' = [peer EXCEPT ![s] = None]
      /\ peer \in [Sessions -> Clients \cup {None}]
      /\ UNCHANGED <<link, backlog, chat, joined, s2c>>
  BY DEF HandleReceiveError, CloseSession, clientVars, historyVars, IInv, TypeOK
<1>3. c \notin Range(backlog) /\ \A t \in Open : peer[t] = c => t = s
  BY <1>1 DEF IInv, WaitingOnce, OneReader
<1>4. Open' = Open \ {s} /\ \A t \in Open' : peer'[t] = peer[t]
  BY <1>1, <1>2 DEF Open
<1>5. RoomMember(c) = "in"
  BY <1>1 DEF RoomMember
<1>6. RoomMember(c)' = "left"
  <2>1. ~ \E t \in Open' : peer'[t] = c
    BY <1>3, <1>4
  <2>2. ~ (link'[c] = "away" \/ c \in Range(backlog'))
    BY <1>2, <1>3
  <2>3. QED  BY <2>1, <2>2 DEF RoomMember
<1>7. ASSUME NEW d \in Clients, d # c
      PROVE  RoomMember(d)' = RoomMember(d)
  <2>1. (\E t \in Open' : peer'[t] = d) <=> (\E t \in Open : peer[t] = d)
    BY <1>4, <1>7
  <2>2. QED  BY <1>2, <2>1 DEF RoomMember
<1>8. Members' = [Members EXCEPT ![c] = "left"]
  <2>1. Members' = [d \in Clients |-> IF d = c THEN "left" ELSE RoomMember(d)]
    BY <1>6, <1>7 DEF Members
  <2>2. QED  BY <2>1 DEF Members
<1>9. Seen' = Seen /\ Authors' = Authors
  BY <1>2, SeenSame
<1>10. Members[c] = "in"
  BY <1>5 DEF Members
<1>11. Room!Leave(c)
  BY <1>2, <1>8, <1>9, <1>10 DEF Room!Leave, Members, Authors, Seen, SeenBy
<1>12. QED  BY <1>11 DEF Room!Next

LEMMA ChatSays ==
  ASSUME RInv, NEW s \in Sessions, ProcessReqChat(s)
  PROVE  Room!Next
<1> USE DEF RInv
<1>1. /\ s \in Open /\ peer[s] \in Clients
      /\ UNCHANGED <<peer, s2c, joined, link, backlog>>
  BY ProcessFacts DEF Open, IInv, TypeOK
<1> SUFFICES ASSUME NEW c \in Clients, c = peer[s]
             PROVE  Room!Next
  BY <1>1
<1>2. /\ Len(chat) \in Nat
      /\ Len(chat') = Len(chat) + 1
      /\ DOMAIN chat = 1 .. Len(chat)
      /\ DOMAIN chat' = 1 .. Len(chat) + 1
      /\ \A k \in 1 .. Len(chat) : chat'[k] = chat[k]
      /\ chat'[Len(chat) + 1].text = c
  BY ChatGrows
<1>3. Members' = Members
  BY <1>1, MembersSame
<1>4. Members[c] = "in"
  BY <1>1 DEF Members, RoomMember
<1>5. Authors' = Append(Authors, c)
  <2>1. \A k \in 1 .. Len(chat) : chat[k].text \in Clients
    <3>1. chat \in Seq([szName : Clients \cup {None}, text : Clients])
      BY DEF IInv, TypeOK
    <3>2. \A k \in 1 .. Len(chat) :
             chat[k] \in [szName : Clients \cup {None}, text : Clients]
      BY <3>1, ElementOfSeq
    <3>3. QED  BY <3>2
  <2>2. Authors \in [1 .. Len(chat) -> Clients]
    BY <1>2, <2>1 DEF Authors
  <2>3. Authors \in Seq(Clients)
    BY <1>2, <2>2, SeqDef
  <2>4. Len(Authors) = Len(chat)
    BY <1>2, <2>2, <2>3, LenProperties
  <2>5. /\ Append(Authors, c) \in Seq(Clients)
        /\ Len(Append(Authors, c)) = Len(chat) + 1
        /\ \A k \in 1 .. Len(chat) : Append(Authors, c)[k] = Authors[k]
        /\ Append(Authors, c)[Len(chat) + 1] = c
    BY <2>3, <2>4, AppendProperties
  <2>6. Authors' = [k \in 1 .. Len(chat) + 1 |-> chat'[k].text]
    BY <1>2 DEF Authors
  <2>7. \A k \in 1 .. Len(chat) + 1 :
           k \in 1 .. Len(chat) \/ k = Len(chat) + 1
    BY <1>2
  <2>8. \A k \in 1 .. Len(chat) : Authors[k] = chat[k].text
    BY <1>2 DEF Authors
  <2>9. \A k \in 1 .. Len(chat) + 1 : chat'[k].text = Append(Authors, c)[k]
    BY <1>2, <2>5, <2>7, <2>8
  <2>10. Append(Authors, c) \in [1 .. Len(chat) + 1 -> Clients]
    BY <2>5, LenProperties
  <2>11. QED  BY <2>6, <2>9, <2>10
<1>6. Seen' = Seen
  <2>1. ASSUME NEW d \in Clients
        PROVE  SeenBy(d)' = SeenBy(d)
    <3>1. RefsUpTo(s2c[d], Len(chat))
      BY DEF KnownRefs
    <3>2. Notice(Len(chat) + 1) \notin Range(s2c[d])
      <4>1. Len(chat) + 1 \notin 1 .. Len(chat)
        BY <1>2
      <4>2. QED  BY <1>2, <3>1, <4>1, RefInRange
    <3>3. joined[d] \in Nat
      BY DEF IInv, TypeOK
    <3>4. \A k \in joined[d] + 1 .. Len(chat) + 1 :
             k \in joined[d] + 1 .. Len(chat) \/ k = Len(chat) + 1
      BY <1>2, <3>3
    <3>5. \A k \in joined[d] + 1 .. Len(chat) : k \in joined[d] + 1 .. Len(chat) + 1
      BY <1>2, <3>3
    <3>6. SeenBy(d)' = {k \in joined[d] + 1 .. Len(chat) + 1 : Notice(k) \in Range(s2c[d])}
      BY <1>1, <1>2 DEF SeenBy, Notice
    <3>7. QED  BY <3>2, <3>4, <3>5, <3>6 DEF SeenBy
  <2>2. QED  BY <2>1 DEF Seen
<1>7. Room!Say(c)
  BY <1>1, <1>3, <1>4, <1>5, <1>6 DEF Room!Say, Members, Authors, Seen, SeenBy
<1>8. QED  BY <1>7 DEF Room!Next

(* What the end of a stream shows of its parts: of the fresh notices, those*)
(* before a position are the ones with smaller refs.                       *)
LEMMA StreamOrder ==
  ASSUME NEW u \in Seq(Reply), NEW q \in Seq(Reply), q # <<>>,
         NEW j \in Nat, NEW n \in Nat, Delivered(u \o q, j, n),
         NEW k, Head(q) = Notice(k), k \in j + 1 .. n
  PROVE  /\ Notice(k) \notin Range(u)
         /\ \A i \in j + 1 .. k - 1 : Notice(i) \in Range(u)
<1> DEFINE str == u \o q
           l   == Len(u) + 1
<1>1. /\ str \in Seq(Reply) /\ DOMAIN str = 1 .. Len(str)
      /\ Len(str) = Len(u) + Len(q) /\ Len(u) \in Nat /\ Len(q) \in Nat \ {0}
      /\ DOMAIN u = 1 .. Len(u) /\ DOMAIN q = 1 .. Len(q)
      /\ \A i \in 1 .. Len(u) + Len(q) :
            str[i] = IF i <= Len(u) THEN u[i] ELSE q[i - Len(u)]
  BY ConcatProperties, LenProperties, EmptySeq
<1>2. Head(q) = q[1]
  BY HeadTailProperties
<1> HIDE DEF str
<1>3. l \in DOMAIN str /\ str[l] = Notice(k)
  BY <1>1, <1>2
<1>4. \A i \in DOMAIN u : i \in DOMAIN str /\ str[i] = u[i] /\ i < l
  BY <1>1
<1>5. \A i \in DOMAIN str : i < l => i \in DOMAIN u
  BY <1>1
<1> HIDE DEF l
<1>6. Notice(k).nID = "NOTICE_CHAT" /\ Notice(k).ref = k /\ k > j /\ k \in Nat
  BY DEF Notice
<1>7. l \in FreshIn(str, j)
  BY <1>3, <1>6 DEF FreshIn
<1>8. Delivered(str, j, n)
  BY DEF str
<1>9. ASSUME Notice(k) \in Range(u)
      PROVE  FALSE
  <2>1. PICK i \in DOMAIN u : u[i] = Notice(k)
    BY <1>9 DEF Range
  <2>2. i \in FreshIn(str, j) /\ str[i].ref = k /\ i < l
    BY <1>4, <1>6, <2>1 DEF FreshIn
  <2>3. str[i].ref < str[l].ref
    BY <1>7, <1>8, <2>2 DEF Delivered
  <2>4. QED  BY <1>3, <1>6, <2>2, <2>3
<1>10. ASSUME NEW m \in j + 1 .. k - 1
       PROVE  Notice(m) \in Range(u)
  <2>1. m \in j + 1 .. n /\ m < k
    BY <1>6
  <2>2. PICK i \in FreshIn(str, j) : str[i].ref = m
    BY <1>8, <2>1 DEF Delivered
  <2>3. i \in DOMAIN str /\ str[i].nID = "NOTICE_CHAT"
    BY <2>2 DEF FreshIn
  <2>4. i < l
    <3>1. SUFFICES ASSUME i > l \/ i = l
                   PROVE  FALSE
      BY <1>1, <2>3 DEF l
    <3>2. CASE i = l
      BY <1>3, <1>6, <2>1, <2>2, <3>2
    <3>3. CASE i > l
      <4>1. str[l].ref < str[i].ref
        BY <1>7, <1>8, <2>2, <3>3 DEF Delivered
      <4>2. QED  BY <1>3, <1>6, <2>1, <2>2, <4>1
    <3>4. QED  BY <3>1, <3>2, <3>3
  <2>5. i \in DOMAIN u
    BY <1>5, <2>3, <2>4
  <2>6. u[i] = Notice(m)
    <3>1. u[i] \in Reply /\ u[i] = str[i]
      BY <1>1, <1>4, <2>5, ElementOfSeq
    <3>2. QED  BY <2>2, <2>3, <3>1, NoticeRef
  <2>7. QED  BY <2>5, <2>6 DEF Range
<1>11. QED  BY <1>9, <1>10

LEMMA TransmitDelivers ==
  ASSUME RInv, NEW s \in Sessions, NEW i \in DOMAIN writes[s], Transmit(s, i)
  PROVE  Room!Next \/ UNCHANGED Room!vars
<1> USE DEF RInv
<1> DEFINE q == m_SendDataQueue[s]
           pkt == Head(q)
<1>1. /\ s \in Open /\ q # <<>> /\ Pending(s) = q
      /\ s2c' = [s2c EXCEPT ![peer[s]] =
                    IF link[peer[s]] = "open" THEN Append(@, pkt) ELSE @]
      /\ UNCHANGED <<peer, link, backlog, chat, joined>>
  BY TransmitFacts
<1>2. peer[s] \in Clients /\ q \in Seq(Reply) /\ pkt \in Reply
  BY <1>1, StreamType, TailContents DEF IInv, TypeOK
<1> SUFFICES ASSUME NEW c \in Clients, c = peer[s]
             PROVE  Room!Next \/ UNCHANGED Room!vars
  BY <1>2
<1>3. /\ s2c \in [Clients -> Seq(Reply)] /\ s2c[c] \in Seq(Reply)
      /\ joined[c] \in Nat /\ Len(chat) \in Nat
  BY LenProperties DEF IInv, TypeOK
<1>4. Stream(s) = s2c[c] \o q
  BY <1>1 DEF Stream
<1> HIDE DEF q, pkt
<1>5. Members' = Members
  BY <1>1, MembersSame
<1>6. Authors' = Authors
  BY <1>1 DEF Authors
<1>7. Members[c] = "in"
  BY <1>1 DEF Members, RoomMember
<1>8. \A d \in Clients : d # c => SeenBy(d)' = SeenBy(d)
  BY <1>1, <1>3 DEF SeenBy
<1>9. CASE link[c] # "open"
  <2>1. s2c' = s2c
    BY <1>1, <1>3, <1>9
  <2>2. Seen' = Seen
    BY <1>1, <2>1, SeenSame
  <2>3. QED
    BY <1>1, <1>5, <1>6, <2>2 DEF Room!vars, Members, Authors, Seen, SeenBy
<1>10. CASE link[c] = "open"
  <2>1. s2c'[c] = Append(s2c[c], pkt)
    BY <1>1, <1>3, <1>10
  <2>2. Range(s2c'[c]) = Range(s2c[c]) \cup {pkt}
    BY <1>2, <1>3, <2>1, AppendContents
  <2>3. SeenBy(c)' = {k \in joined[c] + 1 .. Len(chat) :
                         Notice(k) \in Range(s2c[c]) \cup {pkt}}
    BY <1>1, <2>2 DEF SeenBy, Notice
  <2>4. CASE \E k \in joined[c] + 1 .. Len(chat) : pkt = Notice(k)
    <3>1. PICK k \in joined[c] + 1 .. Len(chat) : pkt = Notice(k)
      BY <2>4
    <3>2. \A m : Notice(m) = pkt <=> m = k
      BY <3>1 DEF Notice
    <3>3. SeenBy(c)' = SeenBy(c) \cup {k}
      BY <2>3, <3>1, <3>2 DEF SeenBy
    <3>4. Delivered(s2c[c] \o q, joined[c], Len(chat))
      <4>1. \A t \in Open : link[peer[t]] = "open" =>
               Delivered(Stream(t), joined[peer[t]], Len(chat))
        BY DEF EveryMessageOnce, Delivered, Fresh, FreshIn
      <4>2. QED  BY <1>1, <1>4, <1>10, <4>1
    <3>5. /\ Notice(k) \notin Range(s2c[c])
          /\ \A m \in joined[c] + 1 .. k - 1 : Notice(m) \in Range(s2c[c])
      BY <1>1, <1>2, <1>3, <3>1, <3>4, StreamOrder DEF pkt
    <3>6. \A m \in joined[c] + 1 .. k : m \in SeenBy(c) <=> m # k
      <4>1. TAKE m \in joined[c] + 1 .. k
      <4>2. m \in joined[c] + 1 .. Len(chat)
            /\ (m # k => m \in joined[c] + 1 .. k - 1)
        BY <1>3, <3>1
      <4>3. QED  BY <3>5, <4>2 DEF SeenBy
    <3>7. Seen' = [Seen EXCEPT ![c] = @ \cup {k}]
      <4>1. Seen' = [d \in Clients |-> IF d = c THEN SeenBy(c) \cup {k} ELSE SeenBy(d)]
        BY <1>8, <3>3 DEF Seen
      <4>2. QED  BY <4>1 DEF Seen
    <3>8. Seen[c] = SeenBy(c)
      BY DEF Seen
    <3>9. Len(Authors) = Len(chat)
      <4>1. chat \in Seq([szName : Clients \cup {None}, text : Clients])
        BY DEF IInv, TypeOK
      <4>2. QED  BY <4>1, LenProperties DEF Authors
    <3>10. /\ k \in joined[c] + 1 .. Len(Authors)
           /\ \A m \in joined[c] + 1 .. k : m \in Seen[c] <=> m # k
      BY <3>1, <3>6, <3>8, <3>9
    <3>11. Room!Deliver(c)
      BY <1>1, <1>5, <1>6, <1>7, <3>7, <3>10
         DEF Room!Deliver, Members, Authors, Seen, SeenBy
    <3>12. QED  BY <3>11 DEF Room!Next
  <2>5. CASE ~ \E k \in joined[c] + 1 .. Len(chat) : pkt = Notice(k)
    <3>1. SeenBy(c)' = SeenBy(c)
      BY <2>3, <2>5 DEF SeenBy
    <3>2. Seen' = Seen
      BY <1>8, <3>1 DEF Seen
    <3>3. QED
      BY <1>1, <1>5, <1>6, <3>2 DEF Room!vars, Members, Authors, Seen, SeenBy
  <2>6. QED  BY <2>4, <2>5
<1>11. QED  BY <1>9, <1>10

(* Steps the room does not see.                                            *)
LEMMA RoomStutters ==
  ASSUME RInv, UNCHANGED <<peer, chat, joined, s2c>>,
         \A c \in Clients : RoomMember(c)' = RoomMember(c)
  PROVE  UNCHANGED Room!vars
<1>1. Members' = Members
  BY DEF Members
<1>2. Seen' = Seen /\ Authors' = Authors
  BY SeenSame
<1>3. QED  BY <1>1, <1>2 DEF Room!vars, Members, Authors, Seen, SeenBy

LEMMA RoomStep == RInv /\ [Next]_vars => [Room!Next]_Room!vars
<1> SUFFICES ASSUME RInv, [Next]_vars
             PROVE  Room!Next \/ UNCHANGED Room!vars
  OBVIOUS
<1> USE DEF RInv
<1>1. ASSUME NEW s \in Sessions,
             HandleAccept(s) \/ HandleReceiveError(s) \/ ProcessReqChat(s)
      PROVE  Room!Next
  BY <1>1, AcceptJoins, ErrorLeaves, ChatSays
<1>2. ASSUME NEW s \in Sessions, NEW i \in DOMAIN writes[s], Transmit(s, i)
      PROVE  Room!Next \/ UNCHANGED Room!vars
  BY <1>2, TransmitDelivers
<1>3. ASSUME UNCHANGED <<peer, link, backlog, chat, joined, s2c>>
      PROVE  UNCHANGED Room!vars
  <2>1. \A c \in Clients : RoomMember(c)' = RoomMember(c)
    BY <1>3 DEF RoomMember, Open
  <2>2. QED  BY <1>3, <2>1, RoomStutters
<1>4. ASSUME NEW c \in Clients, ClientConnect(c) \/ ClientClose(c)
      PROVE  UNCHANGED Room!vars
  <2>1. UNCHANGED <<peer, chat, joined, s2c>> /\ Open' = Open
    BY <1>4 DEF ClientConnect, ClientClose, sessionVars, historyVars, Open
  <2>2. link \in [Clients -> {"away", "open", "closed"}] /\ backlog \in Seq(Clients)
    BY DEF IInv, TypeOK
  <2>3. ASSUME NEW d \in Clients
        PROVE  RoomMember(d)' = RoomMember(d)
    <3>1. CASE ClientConnect(c)
      <4>1. /\ link[c] = "away" /\ link' = [link EXCEPT ![c] = "open"]
            /\ backlog' = Append(backlog, c)
        BY <3>1 DEF ClientConnect
      <4>2. Range(backlog') = Range(backlog) \cup {c}
        BY <2>2, <4>1, AppendContents
      <4>3. (link'[d] = "away" \/ d \in Range(backlog'))
               <=> (link[d] = "away" \/ d \in Range(backlog))
        BY <2>2, <4>1, <4>2
      <4>4. QED  BY <2>1, <4>3 DEF RoomMember
    <3>2. CASE ClientClose(c)
      <4>1. /\ link[c] = "open" /\ link' = [link EXCEPT ![c] = "closed"]
            /\ backlog' = backlog
        BY <3>2 DEF ClientClose
      <4>2. (link'[d] = "away") <=> (link[d] = "away")
        BY <2>2, <4>1
      <4>3. QED  BY <2>1, <4>1, <4>2 DEF RoomMember
    <3>3. QED  BY <1>4, <3>1, <3>2
  <2>4. QED  BY <2>1, <2>3, RoomStutters
<1>5. QED
  <2>1. ASSUME NEW s \in Sessions,
               \/ HandleAcceptError(s)
               \/ \E n \in 1 .. MaxPackets : HandleReceive(s, n)
               \/ ProcessReqIn(s)
               \/ HandleWrite(s)
        PROVE  UNCHANGED <<peer, link, backlog, chat, joined, s2c>>
    BY <2>1 DEF HandleAcceptError, HandleReceive, ProcessReqIn, HandleWrite,
                sessionVars, clientVars, historyVars
  <2>2. ASSUME NEW c \in Clients, ClientSend(c)
        PROVE  UNCHANGED <<peer, link, backlog, chat, joined, s2c>>
    BY <2>2 DEF ClientSend, sessionVars, historyVars
  <2>3. UNCHANGED vars => UNCHANGED <<peer, link, backlog, chat, joined, s2c>>
    BY DEF vars, sessionVars, clientVars, historyVars
  <2>4. QED  BY <1>1, <1>2, <1>3, <1>4, <2>1, <2>2, <2>3
             DEF Next, Receive, Process, SendStep

(* Every step of the server, however its sessions are used again and its   *)
(* queues fall behind, is a step of the room or is not seen there: members *)
(* hear the one history from when they join until they leave, nothing      *)
(* skipped, nothing twice (handle_accept, ProcessPacket, PostSend,         *)
(* handle_write, closeSession).                                            *)
THEOREM ServerIsRoom == Spec => ImplementsRoom
<1>1. Init => Room!Init
  BY RoomInit
<1>2. RInv /\ [Next]_vars => [Room!Next]_Room!vars
  BY RoomStep
<1>3. QED  BY RoomInvariance, <1>1, <1>2, PTL DEF Spec, ImplementsRoom, Room!Spec

-----------------------------------------------------------------------------
(* NoMixUp.  Each session that has been used has an owner, the client it   *)
(* was used for; the ids are handed out in turn, so as long as not more    *)
(* clients have been accepted than there are sessions no session gets a    *)
(* second one.                                                             *)

Served == {c \in Clients : link[c] # "away"} \ Range(backlog)

(* The packets str are for client c, which was accepted after j broadcasts.*)
Meant(c, j, str) ==
    \A pkt \in Range(str) : \/ pkt.nID = "RES_IN" /\ pkt.ref = c
                            \/ pkt.nID = "NOTICE_CHAT" /\ pkt.ref > j

Answers(str) == \E pkt \in Range(str) : pkt.nID = "RES_IN"
Chats(str)   == \E pkt \in Range(str) : pkt.nID = "REQ_CHAT"

OneOwner(owner) ==
    /\ \A s \in Sessions : owner[s] \in Served \cup {None}
    /\ \A s, t \in Sessions : owner[s] = owner[t] /\ owner[s] # None => s = t
    /\ \A s \in Open : owner[s] = peer[s]

(* The ids that have not been used come before those that have.            *)
FreshFirst(owner) ==
    /\ \A i, j \in DOMAIN m_SessionQueue :
          i < j /\ owner[m_SessionQueue[i]] # None => owner[m_SessionQueue[j]] # None
    /\ \A s \in accepting : owner[s] # None =>
          \A i \in DOMAIN m_SessionQueue : owner[m_SessionQueue[i]] # None

(* What a session holds is its owner's; one not used holds nothing.        *)
OwnData(owner) ==
    \A s \in Sessions :
        /\ m_Name[s] \in {None, owner[s]}
        /\ owner[s] = None => m_SendDataQueue[s] = <<>>
        /\ Meant(owner[s], joined[owner[s]], m_SendDataQueue[s])

(* A session whose client may chat, or has chatted, has its name.          *)
MayChat(s) == \/ Answers(s2c[peer[s]])
              \/ Answers(m_SendDataQueue[s])
              \/ Chats(c2s[peer[s]])
              \/ handling = s /\ Chats(batch)

Named ==
    /\ \A s \in Open : MayChat(s) => m_Name[s] = peer[s]
    /\ \A c \in Clients : link[c] = "away" \/ c \in Range(backlog) => ~Chats(c2s[c])

Clean ==
    /\ \A k \in DOMAIN chat : chat[k].szName = chat[k].text
    /\ \A c \in Clients : Meant(c, joined[c], s2c[c])

Owned(owner) == OneOwner(owner) /\ FreshFirst(owner) /\ OwnData(owner) /\ Named /\ Clean

Owners == NoReuse => \E owner \in [Sessions -> Clients \cup {None}] : Owned(owner)

NInv == RInv /\ IsFiniteSet(Served) /\ Owners

LEMMA MeantParts ==
  ASSUME NEW c, NEW j, NEW str \in Seq(Reply), Meant(c, j, str)
  PROVE  /\ \A pkt \in Reply : (\/ pkt.nID = "RES_IN" /\ pkt.ref = c
                                \/ pkt.nID = "NOTICE_CHAT" /\ pkt.ref > j)
                                 => Meant(c, j, Append(str, pkt))
         /\ str # <<>> => /\ Meant(c, j, Tail(str))
                          /\ \/ Head(str).nID = "RES_IN" /\ Head(str).ref = c
                             \/ Head(str).nID = "NOTICE_CHAT" /\ Head(str).ref > j
<1>1. \A pkt \in Reply : Range(Append(str, pkt)) = Range(str) \cup {pkt}
  BY AppendContents
<1>2. str # <<>> => Range(str) = Range(Tail(str)) \cup {Head(str)}
  BY TailContents
<1>3. QED  BY <1>1, <1>2 DEF Meant

LEMMA ChatsSplit ==
  ASSUME NEW str \in Seq(Request), NEW n \in Nat, 1 <= n, n <= Len(str)
  PROVE  /\ Chats(SubSeq(str, 1, n)) => Chats(str)
         /\ Chats(SubSeq(str, n + 1, Len(str))) => Chats(str)
<1>1. Len(str) \in Nat /\ DOMAIN str = 1 .. Len(str)
      /\ \A i \in 1 .. Len(str) : str[i] \in Request
  BY LenProperties, ElementOfSeq
<1>2. n \in 0 .. Len(str)
  BY <1>1
<1>3. Range(SubSeq(str, 1, n)) \subseteq Range(str)
  <2> DEFINE u == SubSeq(str, 1, n)
  <2>1. \A i \in 1 .. n : i \in 1 .. Len(str) /\ str[i] \in Request
    BY <1>1
  <2>2. /\ u \in Seq(Request) /\ Len(u) = IF 1 <= n THEN n - 1 + 1 ELSE 0
        /\ \A i \in 1 .. n - 1 + 1 : u[i] = str[1 + i - 1]
    BY <2>1, SubSeqProperties
  <2>3. Len(u) = n /\ \A i \in 1 .. n : i \in 1 .. n - 1 + 1 /\ 1 + i - 1 = i
    BY <2>2
  <2>4. DOMAIN u = 1 .. n
    BY <2>2, <2>3, LenProperties
  <2> HIDE DEF u
  <2>5. \A i \in 1 .. n : u[i] = str[i]
    BY <2>2, <2>3
  <2>6. Range(u) \subseteq Range(str)
    BY <1>1, <2>1, <2>4, <2>5 DEF Range
  <2>7. QED  BY <2>6 DEF u
<1>4. Range(SubSeq(str, n + 1, Len(str))) \subseteq Range(str)
  <2> DEFINE u == SubSeq(str, n + 1, Len(str))
  <2>1. /\ u \in Seq(Request) /\ Len(u) = Len(str) - n
        /\ \A i \in 1 .. Len(str) - n : u[i] = str[n + i]
    BY <1>2, SuffixFacts
  <2>2. DOMAIN u = 1 .. Len(str) - n
    BY <2>1, LenProperties
  <2>3. \A i \in 1 .. Len(str) - n : n + i \in 1 .. Len(str)
    BY <1>1
  <2> HIDE DEF u
  <2>4. Range(u) \subseteq Range(str)
    BY <1>1, <2>1, <2>2, <2>3 DEF Range
  <2>5. QED  BY <2>4 DEF u
<1>5. QED  BY <1>3, <1>4 DEF Chats

(* Not all the sessions can have owners when another client is accepted.   *)
LEMMA OneIsFresh ==
  ASSUME NEW owner \in [Sessions -> Clients \cup {None}], NEW S,
         IsFiniteSet(S), Cardinality(S) < MaxSessions,
         \A s \in Sessions : owner[s] \in S \cup {None},
         \A s, t \in Sessions : owner[s] = owner[t] /\ owner[s] # None => s = t
  PROVE  \E s \in Sessions : owner[s] = None
<1> SUFFICES ASSUME \A s \in Sessions : owner[s] # None
             PROVE  FALSE
  OBVIOUS
<1>1. owner \in Injection(Sessions, S)
  BY DEF Injection, IsInjective
<1>2. Cardinality(Sessions) <= Cardinality(S)
  BY <1>1, FS_Injection
<1>3. Cardinality(Sessions) = MaxSessions
  <2>1. /\ 0 \in Int /\ MaxSessions - 1 \in Int
        /\ ~(0 > MaxSessions - 1) /\ MaxSessions - 1 - 0 + 1 = MaxSessions
    BY PoolAssumption
  <2>2. Cardinality(0 .. MaxSessions - 1) = MaxSessions - 1 - 0 + 1
    BY <2>1, FS_Interval
  <2>3. QED  BY <2>1, <2>2 DEF Sessions
<1>4. Cardinality(S) \in Nat
  BY FS_CardinalityType
<1>5. QED  BY <1>2, <1>3, <1>4, PoolAssumption

(* Who has been accepted, before and after a step.                         *)
LEMMA ServedGrows ==
  ASSUME IInv, NEW s \in Sessions, HandleAccept(s)
  PROVE  /\ Head(backlog) \in Clients /\ Head(backlog) \notin Served
         /\ Served' = Served \cup {Head(backlog)}
         /\ Range(backlog) = Range(backlog') \cup {Head(backlog)}
         /\ Head(backlog) \notin Range(backlog')
<1>1. /\ backlog # <<>> /\ backlog' = Tail(backlog) /\ link' = link
      /\ backlog \in Seq(Clients) /\ Distinct(backlog)
  BY DEF HandleAccept, clientVars, IInv, TypeOK, WaitingOnce
<1>2. /\ Head(backlog) \in Clients
      /\ Range(backlog) = Range(backlog') \cup {Head(backlog)}
      /\ Head(backlog) \notin Range(backlog')
  BY <1>1, TailContents
<1>3. link[Head(backlog)] # "away"
  BY <1>2 DEF IInv, WaitingOnce
<1>4. QED  BY <1>1, <1>2, <1>3 DEF Served

LEMMA ServedSame ==
  ASSUME IInv, [Next]_vars, \A s \in Sessions : ~HandleAccept(s)
  PROVE  Served' = Served
<1>1. ASSUME NEW c \in Clients, ClientConnect(c)
      PROVE  Served' = Served
  <2>1. /\ link[c] = "away" /\ link' = [link EXCEPT ![c] = "open"]
        /\ backlog' = Append(backlog, c)
        /\ link \in [Clients -> {"away", "open", "closed"}] /\ backlog \in Seq(Clients)
    BY <1>1 DEF ClientConnect, IInv, TypeOK
  <2>2. Range(backlog') = Range(backlog) \cup {c}
    BY <2>1, AppendContents
  <2>3. QED  BY <2>1, <2>2 DEF Served
<1>2. ASSUME NEW c \in Clients, ClientClose(c)
      PROVE  Served' = Served
  <2>1. /\ link[c] = "open" /\ link' = [link EXCEPT ![c] = "closed"]
        /\ backlog' = backlog /\ link \in [Clients -> {"away", "open", "closed"}]
    BY <1>2 DEF ClientClose, IInv, TypeOK
  <2>2. QED  BY <2>1 DEF Served
<1>3. ASSUME UNCHANGED <<link, backlog>>
      PROVE  Served' = Served
  BY <1>3 DEF Served
<1>4. ASSUME NEW s \in Sessions,
             \/ HandleAcceptError(s)
             \/ \E n \in 1 .. MaxPackets : HandleReceive(s, n)
             \/ HandleReceiveError(s)
             \/ ProcessReqIn(s)
             \/ ProcessReqChat(s)
             \/ HandleWrite(s)
             \/ \E i \in DOMAIN writes[s] : Transmit(s, i)
      PROVE  UNCHANGED <<link, backlog>>
  BY <1>4 DEF HandleAcceptError, HandleReceive, HandleReceiveError, ProcessReqIn,
              ProcessReqChat, HandleWrite, Transmit, clientVars
<1>5. ASSUME NEW c \in Clients, ClientSend(c)
      PROVE  UNCHANGED <<link, backlog>>
  BY <1>5 DEF ClientSend
<1>6. UNCHANGED vars => UNCHANGED <<link, backlog>>
  BY DEF vars, clientVars
<1>7. QED  BY <1>1, <1>2, <1>3, <1>4, <1>5, <1>6
           DEF Next, Receive, Process, SendStep

(* PostAccept takes the next id, and the used ones stay behind the others. *)
LEMMA FreshFirstTail ==
  ASSUME NEW owner, NEW q \in Seq(Sessions), PostAccept(q, {}),
         \A i, j \in DOMAIN q : i < j /\ owner[q[i]] # None => owner[q[j]] # None
  PROVE  FreshFirst(owner)'
<1>1. CASE q = <<>>
  BY <1>1 DEF PostAccept, FreshFirst
<1>2. CASE q # <<>>
  <2> DEFINE r == Tail(q)
  <2>1. m_SessionQueue' = r /\ accepting' = {q[1]}
    BY <1>2, HeadTailProperties DEF PostAccept
  <2>2. /\ r \in Seq(Sessions) /\ Len(r) = Len(q) - 1 /\ Len(q) \in Nat \ {0}
        /\ \A i \in 1 .. Len(r) : r[i] = q[i + 1]
    BY <1>2, HeadTailProperties, EmptySeq
  <2>3. DOMAIN r = 1 .. Len(r) /\ DOMAIN q = 1 .. Len(q)
    BY <2>2, LenProperties
  <2> HIDE DEF r
  <2>4. \A i \in 1 .. Len(r) : i + 1 \in 1 .. Len(q) /\ 1 \in 1 .. Len(q) /\ 1 < i + 1
    BY <2>2
  <2>5. \A i, j \in 1 .. Len(r) : i < j => i + 1 < j + 1
    BY <2>2
  <2>6. \A i, j \in DOMAIN r : i < j /\ owner[r[i]] # None => owner[r[j]] # None
    BY <2>2, <2>3, <2>4, <2>5
  <2>7. owner[q[1]] # None => \A i \in DOMAIN r : owner[r[i]] # None
    BY <2>2, <2>3, <2>4
  <2>8. QED  BY <2>1, <2>6, <2>7 DEF FreshFirst
<1>3. QED  BY <1>1, <1>2

(* handle_accept: the session has not been used, and gets its owner.       *)
LEMMA AcceptOwners ==
  ASSUME RInv, NEW owner \in [Sessions -> Clients \cup {None}], Owned(owner),
         IsFiniteSet(Served), NEW s \in Sessions, HandleAccept(s), NoReuse'
  PROVE  \E new \in [Sessions -> Clients \cup {None}] : Owned(new)'
<1> USE DEF RInv
<1>1. PICK c \in Clients : c = Head(backlog)
  BY ServedGrows
<1>2. /\ c \notin Served /\ Served' = Served \cup {c}
      /\ Range(backlog) = Range(backlog') \cup {c} /\ c \notin Range(backlog')
  BY <1>1, ServedGrows
<1>3. Cardinality(Served) < MaxSessions
  <2>1. Cardinality(Served') <= MaxSessions
    BY DEF NoReuse, Served
  <2>2. Cardinality(Served') = Cardinality(Served) + 1
    BY <1>2, FS_AddElement
  <2>3. Cardinality(Served) \in Nat
    BY FS_CardinalityType
  <2>4. QED  BY <2>1, <2>2, <2>3, PoolAssumption
<1>4. accepting = {s} /\ Lost = {} /\ s \notin Open /\ Open \subseteq Sessions
  <2>1. accepting = {s}
    BY DEF HandleAccept, IInv, AcceptPosted
  <2>2. QED  BY <2>1 DEF IInv, SessionConservation, Open
<1>5. owner[s] = None
  <2> SUFFICES ASSUME owner[s] # None
               PROVE  \A t \in Sessions : owner[t] # None
    <3>1. \E t \in Sessions : owner[t] = None
      BY <1>3, OneIsFresh DEF Owned, OneOwner
    <3>2. QED  BY <3>1
  <2> TAKE t \in Sessions
  <2>1. t \in Range(m_SessionQueue) \/ t = s \/ t \in Open
    BY <1>4 DEF Lost
  <2>2. t \in Open => owner[t] # None
    BY DEF Owned, OneOwner, Open
  <2>3. t \in Range(m_SessionQueue) => owner[t] # None
    BY <1>4 DEF Owned, FreshFirst, Range
  <2>4. QED  BY <2>1, <2>2, <2>3
<1>6. PICK new \in [Sessions -> Clients \cup {None}] : new = [owner EXCEPT ![s] = c]
  OBVIOUS
<1>7. /\ new[s] = c
      /\ \A t \in Sessions : t # s => new[t] = owner[t]
      /\ \A t \in Sessions : owner[t] # c
  BY <1>2, <1>6, NoneAssumption DEF Owned, OneOwner
<1>8. /\ peer' = [peer EXCEPT ![s] = c]
      /\ joined' = [joined EXCEPT ![c] = Len(chat)]
      /\ UNCHANGED <<handling, batch, m_Name, m_SendDataQueue, link, chat, c2s, s2c>>
  BY <1>1 DEF HandleAccept, sendVars, clientVars
<1>9. /\ peer \in [Sessions -> Clients \cup {None}]
      /\ joined \in [Clients -> Nat]
      /\ m_SessionQueue \in Seq(Sessions)
      /\ Range(m_SessionQueue) \subseteq Sessions
      /\ \A d \in Clients : s2c[d] \in Seq(Reply)
  BY RangeType DEF IInv, TypeOK
<1>10. Open' = Open \cup {s}
  BY <1>8, <1>9, NoneAssumption DEF Open
<1>11. OneOwner(new)'
  <2>1. \A t \in Sessions : new[t] \in Served' \cup {None}
    BY <1>2, <1>7 DEF Owned, OneOwner
  <2>2. \A t, u \in Sessions : new[t] = new[u] /\ new[t] # None => t = u
    BY <1>7 DEF Owned, OneOwner
  <2>3. \A t \in Open' : new[t] = peer'[t]
    BY <1>4, <1>7, <1>8, <1>9, <1>10 DEF Owned, OneOwner
  <2>4. QED  BY <2>1, <2>2, <2>3 DEF OneOwner
<1>12. FreshFirst(new)'
  <2>1. \A i \in DOMAIN m_SessionQueue : new[m_SessionQueue[i]] = owner[m_SessionQueue[i]]
    <3>1. s \notin Range(m_SessionQueue)
      BY <1>4 DEF IInv, SessionConservation
    <3>2. QED  BY <1>7, <1>9, <3>1 DEF Range
  <2>2. \A i, j \in DOMAIN m_SessionQueue :
           i < j /\ new[m_SessionQueue[i]] # None => new[m_SessionQueue[j]] # None
    BY <2>1 DEF Owned, FreshFirst
  <2>3. PostAccept(m_SessionQueue, {})
    <3>1. accepting \ {s} = {}
      BY <1>4
    <3>2. QED  BY <3>1 DEF HandleAccept
  <2>4. QED  BY <1>9, <2>2, <2>3, FreshFirstTail
<1>13. OwnData(new)'
  <2> SUFFICES ASSUME NEW t \in Sessions
               PROVE  /\ m_Name[t] \in {None, new[t]}
                      /\ new[t] = None => m_SendDataQueue[t] = <<>>
                      /\ Meant(new[t], joined'[new[t]], m_SendDataQueue[t])
    BY <1>8 DEF OwnData
  <2>1. CASE t = s
    <3>1. m_Name[s] = None /\ m_SendDataQueue[s] = <<>>
      BY <1>5 DEF Owned, OwnData
    <3>2. Range(m_SendDataQueue[s]) = {}
      BY <3>1 DEF Range
    <3>3. QED  BY <2>1, <3>1, <3>2 DEF Meant
  <2>2. CASE t # s
    <3>1. new[t] = owner[t] /\ owner[t] # c
      BY <1>7, <2>2
    <3>2. CASE owner[t] \in Clients
      <4>1. joined'[owner[t]] = joined[owner[t]]
        BY <1>8, <1>9, <3>1, <3>2
      <4>2. QED  BY <3>1, <4>1 DEF Owned, OwnData
    <3>3. CASE owner[t] = None
      <4>1. m_SendDataQueue[t] = <<>>
        BY <3>3 DEF Owned, OwnData
      <4>2. Range(m_SendDataQueue[t]) = {}
        BY <4>1 DEF Range
      <4>3. QED  BY <3>1, <4>1, <4>2 DEF Owned, OwnData, Meant
    <3>4. QED  BY <3>2, <3>3
  <2>3. QED  BY <2>1, <2>2
<1>14. s2c[c] = <<>> /\ Range(s2c[c]) = {} /\ ~Chats(c2s[c]) /\ c \in Range(backlog)
  <2>1. c \in Range(backlog)
    BY <1>2
  <2>2. s2c[c] = <<>>
    BY <2>1 DEF NothingYet
  <2>3. QED  BY <2>1, <2>2 DEF Owned, Named, Range
<1>15. Named'
  <2>1. \A d \in Clients : link[d] = "away" \/ d \in Range(backlog') => ~Chats(c2s[d])
    BY <1>2 DEF Owned, Named
  <2>2. ASSUME NEW t \in Open, MayChat(t)'
        PROVE  m_Name[t] = peer'[t]
    <3>1. peer'[t] = peer[t]
      BY <1>4, <1>8, <1>9, <2>2
    <3>2. MayChat(t)
      BY <1>8, <2>2, <3>1 DEF MayChat, Answers, Chats
    <3>3. QED  BY <2>2, <3>1, <3>2 DEF Owned, Named
  <2>3. ~MayChat(s)'
    <3>1. peer'[s] = c
      BY <1>8, <1>9
    <3>2. ~Answers(s2c[c]) /\ ~Chats(c2s[c])
      BY <1>14 DEF Answers
    <3>3. ~Answers(m_SendDataQueue[s])
      <4>1. m_SendDataQueue[s] = <<>>
        BY <1>5 DEF Owned, OwnData
      <4>2. Range(m_SendDataQueue[s]) = {}
        BY <4>1 DEF Range
      <4>3. QED  BY <4>2 DEF Answers
    <3>4. handling # s
      BY NoneAssumption DEF HandleAccept, Sessions
    <3>5. QED  BY <1>8, <3>1, <3>2, <3>3, <3>4 DEF MayChat, Answers, Chats
  <2>4. QED  BY <1>8, <1>10, <2>1, <2>2, <2>3 DEF Named, Chats
<1>16. Clean'
  <2>1. \A k \in DOMAIN chat : chat[k].szName = chat[k].text
    BY DEF Owned, Clean
  <2>2. ASSUME NEW d \in Clients
        PROVE  Meant(d, joined'[d], s2c[d])
    <3>1. CASE d = c
      BY <1>14, <3>1 DEF Meant
    <3>2. CASE d # c
      <4>1. joined'[d] = joined[d]
        BY <1>8, <1>9, <3>2
      <4>2. QED  BY <4>1 DEF Owned, Clean
    <3>3. QED  BY <3>1, <3>2
  <2>3. QED  BY <1>8, <2>1, <2>2 DEF Clean
<1>17. Owned(new)'
  BY <1>11, <1>12, <1>13, <1>15, <1>16 DEF Owned
<1>18. QED  BY <1>17

(* Steps that move no connection, no id and no owner.                      *)
LEMMA OwnersStay ==
  ASSUME NEW owner, OneOwner(owner), FreshFirst(owner), Served' = Served,
         UNCHANGED <<peer, m_SessionQueue, accepting>>
  PROVE  OneOwner(owner)' /\ FreshFirst(owner)'
<1>1. Open' = Open
  BY DEF Open
<1>2. QED  BY <1>1 DEF OneOwner, FreshFirst

(* closeSession: the id goes behind the others.                            *)
LEMMA CloseOwners ==
  ASSUME RInv, NEW owner \in [Sessions -> Clients \cup {None}], Owned(owner),
         Served' = Served, NEW s \in Sessions, HandleReceiveError(s)
  PROVE  Owned(owner)'
<1> USE DEF RInv
<1>1. /\ s \in Open /\ handling = None
      /\ UNCHANGED <<handling, batch, m_Name, m_SendDataQueue, link, chat, joined,
                     backlog, c2s, s2c>>
  BY DEF HandleReceiveError, IInv, OneReader, clientVars, historyVars
<1>2. owner[s] # None
  BY <1>1 DEF Owned, OneOwner, Open
<1>3. /\ Open' \subseteq Open /\ \A t \in Open' : peer'[t] = peer[t]
  BY DEF HandleReceiveError, CloseSession, Open, IInv, TypeOK
<1>4. OneOwner(owner)'
  BY <1>3 DEF Owned, OneOwner
<1> DEFINE q == m_SessionQueue
           r == Append(q, s)
<1>5. q \in Seq(Sessions)
  BY DEF IInv, TypeOK
<1>6. /\ r \in Seq(Sessions) /\ DOMAIN q = 1 .. Len(q) /\ DOMAIN r = 1 .. Len(q) + 1
      /\ Len(q) \in Nat /\ r[Len(q) + 1] = s
      /\ \A i \in 1 .. Len(q) : r[i] = q[i]
  <2>1. /\ r \in Seq(Sessions) /\ Len(r) = Len(q) + 1
        /\ r[Len(q) + 1] = s
        /\ \A i \in 1 .. Len(q) : r[i] = q[i]
    BY <1>5, AppendProperties
  <2>2. QED  BY <1>5, <2>1, LenProperties
<1> HIDE DEF r
<1>7. \A i, j \in DOMAIN r : i < j /\ owner[r[i]] # None => owner[r[j]] # None
  <2> SUFFICES ASSUME NEW i \in DOMAIN r, NEW j \in DOMAIN r, i < j,
                      owner[r[i]] # None
               PROVE  owner[r[j]] # None
    OBVIOUS
  <2>1. CASE j = Len(q) + 1
    BY <1>2, <1>6, <2>1
  <2>2. CASE j # Len(q) + 1
    <3>1. i \in DOMAIN q /\ j \in DOMAIN q
      BY <1>6, <2>2
    <3>2. r[i] = q[i] /\ r[j] = q[j]
      BY <1>6, <3>1
    <3>3. QED  BY <3>1, <3>2 DEF Owned, FreshFirst
  <2>3. QED  BY <2>1, <2>2
<1>8. FreshFirst(owner)'
  <2>1. CASE m_bIsAccepting = FALSE
    <3>1. accepting = {}
      BY <2>1 DEF IInv, AcceptPosted
    <3>2. PostAccept(r, {})
      BY <2>1, <3>1 DEF HandleReceiveError, CloseSession, r
    <3>3. QED  BY <1>6, <1>7, <3>2, FreshFirstTail
  <2>2. CASE m_bIsAccepting = TRUE
    <3>1. m_SessionQueue' = r /\ accepting' = accepting
      BY <2>2 DEF HandleReceiveError, CloseSession, r
    <3>2. ASSUME NEW t \in accepting, owner[t] # None, NEW i \in DOMAIN r
          PROVE  owner[r[i]] # None
      <4>1. CASE i = Len(q) + 1
        BY <1>2, <1>6, <4>1
      <4>2. CASE i # Len(q) + 1
        <5>1. i \in DOMAIN q
          BY <1>6, <4>2
        <5>2. r[i] = q[i]
          BY <1>6, <5>1
        <5>3. QED  BY <3>2, <5>1, <5>2 DEF Owned, FreshFirst
      <4>3. QED  BY <4>1, <4>2
    <3>3. QED  BY <1>7, <3>1, <3>2 DEF FreshFirst
  <2>3. QED  BY <2>1, <2>2 DEF IInv, TypeOK
<1>9. OwnData(owner)' /\ Clean'
  BY <1>1 DEF Owned, OwnData, Clean
<1>10. Named'
  <2>1. \A t \in Open' : MayChat(t)' => MayChat(t)
    BY <1>1, <1>3 DEF MayChat
  <2>2. QED  BY <1>1, <1>3, <2>1 DEF Owned, Named
<1>11. QED  BY <1>4, <1>8, <1>9, <1>10 DEF Owned

(* What ProcessPacket leaves of the batch.                                 *)
LEMMA BatchRest ==
  ASSUME IInv, batch # <<>>, batch' = Tail(batch)
  PROVE  /\ Chats(batch') => Chats(batch)
         /\ Head(batch).nID = "REQ_CHAT" => Chats(batch)
<1>1. Range(batch) = Range(Tail(batch)) \cup {Head(batch)}
  BY TailContents DEF IInv, TypeOK
<1>2. QED  BY <1>1 DEF Chats

(* REQ_IN: the session gets its owner's name and answers its owner.        *)
LEMMA LoginOwners ==
  ASSUME RInv, NEW owner \in [Sessions -> Clients \cup {None}], Owned(owner),
         Served' = Served, NEW s \in Sessions, ProcessReqIn(s)
  PROVE  Owned(owner)'
<1> USE DEF RInv
<1> DEFINE c == peer[s]
<1>1. /\ s \in Open /\ Head(batch).text = c
      /\ ResIn(c) \in Reply
      /\ UNCHANGED <<peer, s2c, joined, link, backlog, c2s, chat,
                     m_SessionQueue, accepting>>
  BY ProcessFacts DEF ProcessReqIn, historyVars, serverVars
<1>2. owner[s] = c /\ c \in Clients /\ c # None
  BY <1>1, NoneAssumption DEF Owned, OneOwner, Open, IInv, TypeOK
<1>3. /\ m_Name' = [m_Name EXCEPT ![s] = c]
      /\ PostSend({s}, ResIn(c))
      /\ batch # <<>> /\ handling = s /\ batch' = Tail(batch) /\ handling' \in {s, None}
  BY <1>1 DEF ProcessReqIn, NextPacket
<1>4. /\ m_Name \in [Sessions -> Clients \cup {None}]
      /\ \A t \in Sessions : m_SendDataQueue[t] \in Seq(Reply)
  BY DEF IInv, TypeOK
<1>5. \A t \in Sessions : m_SendDataQueue'[t] =
         IF t = s THEN Append(m_SendDataQueue[t], ResIn(c)) ELSE m_SendDataQueue[t]
  BY <1>3 DEF PostSend, QueueAfterSend
<1>6. \A t \in Sessions : m_Name'[t] = IF t = s THEN c ELSE m_Name[t]
  BY <1>3, <1>4
<1>7. OneOwner(owner)' /\ FreshFirst(owner)'
  BY <1>1, OwnersStay DEF Owned
<1>8. OwnData(owner)'
  <2> SUFFICES ASSUME NEW t \in Sessions
               PROVE  /\ m_Name'[t] \in {None, owner[t]}
                      /\ owner[t] = None => m_SendDataQueue'[t] = <<>>
                      /\ Meant(owner[t], joined[owner[t]], m_SendDataQueue'[t])
    BY <1>1 DEF OwnData
  <2>1. CASE t = s
    <3>1. Meant(c, joined[c], m_SendDataQueue[s])
      BY <1>2 DEF Owned, OwnData
    <3>2. ResIn(c).nID = "RES_IN" /\ ResIn(c).ref = c
      BY DEF ResIn
    <3>3. Meant(c, joined[c], Append(m_SendDataQueue[s], ResIn(c)))
      BY <1>1, <1>4, <3>1, <3>2, MeantParts
    <3>4. QED  BY <1>2, <1>5, <1>6, <2>1, <3>3
  <2>2. CASE t # s
    BY <1>5, <1>6, <2>2 DEF Owned, OwnData
  <2>3. QED  BY <2>1, <2>2
<1>9. Named'
  <2>1. \A d \in Clients : link[d] = "away" \/ d \in Range(backlog) => ~Chats(c2s[d])
    BY DEF Owned, Named
  <2>2. ASSUME NEW t \in Open, t # s, MayChat(t)'
        PROVE  m_Name'[t] = peer[t]
    <3>1. t \in Sessions /\ t # None
      BY NoneAssumption DEF Open, Sessions
    <3>2. m_SendDataQueue'[t] = m_SendDataQueue[t] /\ handling' # t
      BY <1>3, <1>5, <2>2, <3>1
    <3>3. MayChat(t)
      BY <1>1, <2>2, <3>2 DEF MayChat
    <3>4. QED  BY <1>6, <2>2, <3>1, <3>3 DEF Owned, Named
  <2>3. Open' = Open
    BY <1>1 DEF Open
  <2>4. m_Name'[s] = peer[s]
    BY <1>6
  <2>5. QED  BY <1>1, <2>1, <2>2, <2>3, <2>4 DEF Named
<1>10. Clean'
  BY <1>1 DEF Owned, Clean
<1>11. QED  BY <1>7, <1>8, <1>9, <1>10 DEF Owned

(* REQ_CHAT: the session has its owner's name, and the notice is new to    *)
(* all that are accepted.                                                  *)
LEMMA ChatOwners ==
  ASSUME RInv, NEW owner \in [Sessions -> Clients \cup {None}], Owned(owner),
         Served' = Served, NEW s \in Sessions, ProcessReqChat(s)
  PROVE  Owned(owner)'
<1> USE DEF RInv
<1> DEFINE c == peer[s]
           k == Len(chat) + 1
<1>1. /\ s \in Open /\ Head(batch).text = c
      /\ Len(chat) \in Nat /\ Notice(k) \in Reply
      /\ UNCHANGED <<peer, s2c, joined, link, backlog, c2s, m_Name,
                     m_SessionQueue, accepting>>
  BY ProcessFacts DEF ProcessReqChat, serverVars
<1>2. /\ PostSend(Open, Notice(k))
      /\ chat' = Append(chat, [szName |-> m_Name[s], text |-> c])
      /\ Head(batch).nID = "REQ_CHAT"
      /\ batch # <<>> /\ handling = s /\ batch' = Tail(batch) /\ handling' \in {s, None}
  BY <1>1 DEF ProcessReqChat, NextPacket
<1>3. m_Name[s] = c
  BY <1>1, <1>2, BatchRest DEF Owned, Named, MayChat
<1>4. \A t \in Sessions : m_SendDataQueue'[t] =
         IF t \in Open THEN Append(m_SendDataQueue[t], Notice(k)) ELSE m_SendDataQueue[t]
  BY <1>2 DEF PostSend, QueueAfterSend
<1>5. /\ \A t \in Sessions : m_SendDataQueue[t] \in Seq(Reply)
      /\ Notice(k).nID = "NOTICE_CHAT" /\ Notice(k).ref = k
  BY DEF IInv, TypeOK, Notice
<1>6. OneOwner(owner)' /\ FreshFirst(owner)'
  BY <1>1, OwnersStay DEF Owned
<1>7. OwnData(owner)'
  <2> SUFFICES ASSUME NEW t \in Sessions
               PROVE  /\ m_Name[t] \in {None, owner[t]}
                      /\ owner[t] = None => m_SendDataQueue'[t] = <<>>
                      /\ Meant(owner[t], joined[owner[t]], m_SendDataQueue'[t])
    BY <1>1 DEF OwnData
  <2>1. CASE t \in Open
    <3>1. owner[t] \in Clients /\ owner[t] # None
      BY <2>1, NoneAssumption DEF Owned, OneOwner, Open, IInv, TypeOK
    <3>2. joined[owner[t]] <= Len(chat) /\ joined[owner[t]] \in Nat
      BY <3>1 DEF KnownRefs, IInv, TypeOK
    <3>3. Notice(k).ref > joined[owner[t]]
      BY <1>1, <1>5, <3>2
    <3>4. Meant(owner[t], joined[owner[t]], m_SendDataQueue[t])
      BY DEF Owned, OwnData
    <3> HIDE DEF k
    <3>5. Meant(owner[t], joined[owner[t]], Append(m_SendDataQueue[t], Notice(k)))
      BY <1>1, <1>5, <3>3, <3>4, MeantParts
    <3>6. QED  BY <1>4, <2>1, <3>1, <3>5 DEF Owned, OwnData
  <2>2. CASE t \notin Open
    BY <1>4, <2>2 DEF Owned, OwnData
  <2>3. QED  BY <2>1, <2>2
<1>8. Named'
  <2>1. \A d \in Clients : link[d] = "away" \/ d \in Range(backlog) => ~Chats(c2s[d])
    BY DEF Owned, Named
  <2>2. ASSUME NEW t \in Open, MayChat(t)'
        PROVE  m_Name[t] = peer[t]
    <3>1. t \in Sessions /\ t # None
      BY NoneAssumption DEF Open, Sessions
    <3>2. CASE t = s
      BY <1>3, <3>2
    <3>3. CASE t # s
      <4>1. handling' # t
        BY <1>2, <3>1, <3>3
      <4>2. Answers(m_SendDataQueue'[t]) => Answers(m_SendDataQueue[t])
        <5>1. Range(Append(m_SendDataQueue[t], Notice(k)))
                 = Range(m_SendDataQueue[t]) \cup {Notice(k)}
          BY <1>1, <1>5, <3>1, AppendContents
        <5>2. QED  BY <1>4, <1>5, <3>1, <5>1 DEF Answers
      <4>3. MayChat(t)
        BY <1>1, <2>2, <4>1, <4>2 DEF MayChat, Answers
      <4>4. QED  BY <4>3 DEF Owned, Named
    <3>4. QED  BY <3>2, <3>3
  <2>3. Open' = Open
    BY <1>1 DEF Open
  <2>4. QED  BY <1>1, <2>1, <2>2, <2>3 DEF Named
<1>9. Clean'
  <2>1. /\ DOMAIN chat = 1 .. Len(chat)
        /\ DOMAIN chat' = 1 .. Len(chat) + 1
        /\ \A i \in 1 .. Len(chat) : chat'[i] = chat[i]
    BY ChatGrows
  <2>2. chat'[Len(chat) + 1] = [szName |-> m_Name[s], text |-> c]
    <3> DEFINE Entry == [szName : Clients \cup {None}, text : Clients]
               e == [szName |-> m_Name[s], text |-> c]
    <3>1. chat \in Seq(Entry) /\ e \in Entry
      BY <1>1 DEF IInv, TypeOK, Open
    <3> HIDE DEF Entry, e
    <3>2. Append(chat, e)[Len(chat) + 1] = e
      BY <3>1, AppendProperties
    <3>3. QED  BY <1>2, <3>2 DEF e
  <2>3. ASSUME NEW i \in DOMAIN chat'
        PROVE  chat'[i].szName = chat'[i].text
    <3>1. CASE i = Len(chat) + 1
      BY <1>3, <2>2, <3>1
    <3>2. CASE i # Len(chat) + 1
      <4>1. i \in 1 .. Len(chat)
        BY <1>1, <2>1, <3>2
      <4>2. QED  BY <2>1, <4>1 DEF Owned, Clean
    <3>3. QED  BY <3>1, <3>2
  <2>4. QED  BY <1>1, <2>3 DEF Owned, Clean
<1>10. QED  BY <1>6, <1>7, <1>8, <1>9 DEF Owned

(* The other steps of a session: what it reads is its client's, what it    *)
(* still has to send becomes less.                                         *)
LEMMA ReceiveOwners ==
  ASSUME RInv, NEW owner \in [Sessions -> Clients \cup {None}], Owned(owner),
         Served' = Served, NEW s \in Sessions, NEW n \in 1 .. MaxPackets,
         HandleReceive(s, n)
  PROVE  Owned(owner)'
<1> USE DEF RInv
<1> DEFINE c == peer[s]
<1>1. /\ s \in Open /\ c \in Clients
      /\ UNCHANGED <<peer, m_SessionQueue, accepting, m_Name, m_SendDataQueue, link,
                     chat, joined, backlog, s2c>>
      /\ handling = None /\ handling' = s
      /\ batch' = SubSeq(c2s[c], 1, n)
      /\ c2s' = [c2s EXCEPT ![c] = SubSeq(c2s[c], n + 1, Len(c2s[c]))]
      /\ n <= Len(c2s[c])
  BY DEF HandleReceive, serverVars, sendVars, clientVars, historyVars, IInv, OneReader,
         Open, TypeOK
<1>2. c2s \in [Clients -> Seq(Request)] /\ n \in Nat /\ 1 <= n
  BY BoundAssumption DEF IInv, TypeOK
<1>3. /\ Chats(batch') => Chats(c2s[c])
      /\ \A d \in Clients : Chats(c2s'[d]) => Chats(c2s[d])
  <2>1. c2s[c] \in Seq(Request)
    BY <1>1, <1>2
  <2>2. /\ Chats(SubSeq(c2s[c], 1, n)) => Chats(c2s[c])
        /\ Chats(SubSeq(c2s[c], n + 1, Len(c2s[c]))) => Chats(c2s[c])
    BY <1>1, <1>2, <2>1, ChatsSplit
  <2>3. \A d \in Clients : c2s'[d] = IF d = c THEN SubSeq(c2s[c], n + 1, Len(c2s[c]))
                                     ELSE c2s[d]
    BY <1>1, <1>2
  <2>4. QED  BY <1>1, <2>2, <2>3
<1>4. OneOwner(owner)' /\ FreshFirst(owner)'
  BY <1>1, OwnersStay DEF Owned
<1>5. OwnData(owner)' /\ Clean'
  BY <1>1 DEF Owned, OwnData, Clean
<1>6. Named'
  <2>1. \A d \in Clients : link[d] = "away" \/ d \in Range(backlog) => ~Chats(c2s'[d])
    BY <1>3 DEF Owned, Named
  <2>2. ASSUME NEW t \in Open, MayChat(t)'
        PROVE  MayChat(t)
    <3>1. peer[t] \in Clients
      BY DEF Open, IInv, TypeOK
    <3>2. /\ handling' = t => t = s
          /\ Chats(c2s'[peer[t]]) => Chats(c2s[peer[t]])
      BY <1>1, <1>3, <3>1
    <3>3. QED  BY <1>1, <1>3, <2>2, <3>2 DEF MayChat
  <2>3. Open' = Open
    BY <1>1 DEF Open
  <2>4. QED  BY <1>1, <2>1, <2>2, <2>3 DEF Owned, Named
<1>7. QED  BY <1>4, <1>5, <1>6 DEF Owned

LEMMA WriteOwners ==
  ASSUME RInv, NEW owner \in [Sessions -> Clients \cup {None}], Owned(owner),
         Served' = Served, NEW s \in Sessions, HandleWrite(s)
  PROVE  Owned(owner)'
<1> USE DEF RInv
<1>1. /\ UNCHANGED <<peer, m_SessionQueue, accepting, handling, batch, m_Name, link,
                     chat, joined, backlog, c2s, s2c>>
      /\ m_SendDataQueue' = [m_SendDataQueue EXCEPT ![s] = Tail(m_SendDataQueue[s])]
      /\ m_SendDataQueue[s] # <<>>
  BY DEF HandleWrite, serverVars, sessionVars, clientVars, historyVars, IInv, OneWrite
<1>2. /\ m_SendDataQueue \in [Sessions -> Seq(Reply)]
      /\ \A t \in Sessions : m_SendDataQueue'[t] =
            IF t = s THEN Tail(m_SendDataQueue[s]) ELSE m_SendDataQueue[t]
  BY <1>1 DEF IInv, TypeOK
<1>3. Range(m_SendDataQueue[s])
         = Range(Tail(m_SendDataQueue[s])) \cup {Head(m_SendDataQueue[s])}
  BY <1>1, <1>2, TailContents
<1>4. \A t \in Sessions : Range(m_SendDataQueue'[t]) \subseteq Range(m_SendDataQueue[t])
  BY <1>2, <1>3
<1>5. OneOwner(owner)' /\ FreshFirst(owner)'
  BY <1>1, OwnersStay DEF Owned
<1>6. OwnData(owner)'
  BY <1>1, <1>2, <1>4 DEF Owned, OwnData, Meant
<1>7. Named'
  <2>1. \A t \in Open : MayChat(t)' => MayChat(t)
    BY <1>1, <1>4 DEF MayChat, Answers, Open
  <2>2. QED  BY <1>1, <2>1 DEF Owned, Named, Open
<1>8. Clean'
  BY <1>1 DEF Owned, Clean
<1>9. QED  BY <1>5, <1>6, <1>7, <1>8 DEF Owned

LEMMA TransmitOwners ==
  ASSUME RInv, NEW owner \in [Sessions -> Clients \cup {None}], Owned(owner),
         Served' = Served, NEW s \in Sessions, NEW i \in DOMAIN writes[s],
         Transmit(s, i)
  PROVE  Owned(owner)'
<1> USE DEF RInv
<1> DEFINE c == peer[s]
           pkt == Head(m_SendDataQueue[s])
<1>1. /\ s \in Open /\ c \in Clients
      /\ m_SendDataQueue[s] # <<>> /\ m_SendDataQueue' = m_SendDataQueue
      /\ UNCHANGED <<peer, link, backlog, chat, joined, c2s, batch, handling>>
      /\ s2c' = [s2c EXCEPT ![c] = IF link[c] = "open" THEN Append(@, pkt) ELSE @]
  BY TransmitFacts DEF Open, IInv, TypeOK
<1>2. UNCHANGED <<m_SessionQueue, accepting, m_Name>>
  BY DEF Transmit, serverVars, sessionVars
<1>3. m_SendDataQueue[s] \in Seq(Reply) /\ s2c \in [Clients -> Seq(Reply)]
  BY DEF IInv, TypeOK
<1>4. pkt \in Reply /\ pkt \in Range(m_SendDataQueue[s])
  BY <1>1, <1>3, TailContents
<1>5. s2c[c] \in Seq(Reply) /\ Range(Append(s2c[c], pkt)) = Range(s2c[c]) \cup {pkt}
  BY <1>1, <1>3, <1>4, AppendContents
<1>6. Range(s2c'[c]) \subseteq Range(s2c[c]) \cup {pkt}
  BY <1>1, <1>3, <1>5
<1>7. \A d \in Clients : d # c => s2c'[d] = s2c[d]
  BY <1>1, <1>3
<1>8. OneOwner(owner)' /\ FreshFirst(owner)'
  BY <1>1, <1>2, OwnersStay DEF Owned
<1>9. OwnData(owner)'
  BY <1>1, <1>2 DEF Owned, OwnData
<1>10. Named'
  <2>1. ASSUME NEW t \in Open, MayChat(t)'
        PROVE  MayChat(t)
    <3>1. CASE t = s
      <4>1. Answers(s2c'[c]) => Answers(s2c[c]) \/ Answers(m_SendDataQueue[s])
        BY <1>4, <1>6 DEF Answers
      <4>2. QED  BY <1>1, <2>1, <3>1, <4>1 DEF MayChat
    <3>2. CASE t # s
      <4>1. peer[t] # c /\ peer[t] \in Clients
        BY <1>1, <3>2 DEF IInv, OneReader, Open, TypeOK
      <4>2. s2c'[peer[t]] = s2c[peer[t]]
        BY <1>7, <4>1
      <4>3. QED  BY <1>1, <2>1, <4>2 DEF MayChat
    <3>3. QED  BY <3>1, <3>2
  <2>2. QED  BY <1>1, <1>2, <2>1 DEF Owned, Named, Open
<1>11. Clean'
  <2>1. owner[s] = c
    BY <1>1 DEF Owned, OneOwner
  <2>2. \/ pkt.nID = "RES_IN" /\ pkt.ref = c
        \/ pkt.nID = "NOTICE_CHAT" /\ pkt.ref > joined[c]
    BY <1>4, <2>1 DEF Owned, OwnData, Meant
  <2>3. Meant(c, joined[c], s2c'[c])
    BY <1>1, <1>6, <2>2 DEF Owned, Clean, Meant
  <2>4. \A d \in Clients : Meant(d, joined[d], s2c'[d])
    BY <1>7, <2>3 DEF Owned, Clean
  <2>5. QED  BY <1>1, <2>4 DEF Owned, Clean
<1>12. QED  BY <1>8, <1>9, <1>10, <1>11 DEF Owned

(* The clients.  One that has had an answer was accepted.                  *)
LEMMA SendOwners ==
  ASSUME RInv, NEW owner \in [Sessions -> Clients \cup {None}], Owned(owner),
         Served' = Served, NEW c \in Clients, ClientSend(c)
  PROVE  Owned(owner)'
<1> USE DEF RInv
<1>1. /\ UNCHANGED <<peer, m_SessionQueue, accepting, handling, batch, m_Name,
                     m_SendDataQueue, link, chat, joined, backlog, s2c>>
      /\ link[c] = "open"
  BY DEF ClientSend, serverVars, sessionVars, sendVars, historyVars
<1>2. PICK pkt \in {ReqIn(c)} \cup (IF LoggedIn(c) THEN {ReqChat(c)} ELSE {}) :
         c2s' = [c2s EXCEPT ![c] = Append(c2s[c], pkt)]
  BY DEF ClientSend
<1>3. pkt \in Request /\ c2s \in [Clients -> Seq(Request)]
  <2>1. ReqIn(c) \in Request /\ ReqChat(c) \in Request
    BY DEF ReqIn, ReqChat, Request
  <2>2. pkt \in Request
    BY <1>2, <2>1
  <2>3. QED  BY <2>2 DEF IInv, TypeOK
<1>4. pkt.nID = "REQ_CHAT" => Answers(s2c[c])
  BY <1>2 DEF ReqIn, ReqChat, LoggedIn, Answers, Range
<1>5. Chats(c2s'[c]) => Chats(c2s[c]) \/ Answers(s2c[c])
  <2>1. Range(Append(c2s[c], pkt)) = Range(c2s[c]) \cup {pkt}
    BY <1>3, AppendContents
  <2>2. c2s'[c] = Append(c2s[c], pkt)
    BY <1>2, <1>3
  <2>3. QED  BY <1>4, <2>1, <2>2 DEF Chats
<1>6. \A d \in Clients : d # c => c2s'[d] = c2s[d]
  BY <1>2, <1>3
<1>7. OneOwner(owner)' /\ FreshFirst(owner)'
  BY <1>1, OwnersStay DEF Owned
<1>8. OwnData(owner)' /\ Clean'
  BY <1>1 DEF Owned, OwnData, Clean
<1>9. Named'
  <2>1. ASSUME NEW t \in Open, MayChat(t)'
        PROVE  MayChat(t)
    <3>1. peer[t] \in Clients
      BY DEF Open, IInv, TypeOK
    <3>2. Chats(c2s'[peer[t]]) => Chats(c2s[peer[t]]) \/ Answers(s2c[peer[t]])
      BY <1>5, <1>6, <3>1
    <3>3. QED  BY <1>1, <2>1, <3>2 DEF MayChat
  <2>2. ASSUME NEW d \in Clients, link[d] = "away" \/ d \in Range(backlog)
        PROVE  ~Chats(c2s'[d])
    <3>1. CASE d # c
      BY <1>6, <2>2, <3>1 DEF Owned, Named
    <3>2. CASE d = c
      <4>1. s2c[c] = <<>>
        BY <2>2, <3>2 DEF NothingYet
      <4>2. Range(s2c[c]) = {}
        BY <4>1 DEF Range
      <4>3. QED  BY <1>5, <2>2, <3>2, <4>2 DEF Owned, Named, Answers
    <3>3. QED  BY <3>1, <3>2
  <2>3. QED  BY <1>1, <2>1, <2>2 DEF Owned, Named, Open
<1>10. QED  BY <1>7, <1>8, <1>9 DEF Owned

LEMMA LinkOwners ==
  ASSUME RInv, NEW owner \in [Sessions -> Clients \cup {None}], Owned(owner),
         Served' = Served, NEW c \in Clients, ClientConnect(c) \/ ClientClose(c)
  PROVE  Owned(owner)'
<1> USE DEF RInv
<1>1. UNCHANGED <<peer, m_SessionQueue, accepting, handling, batch, m_Name,
                  m_SendDataQueue, chat, joined, c2s, s2c>>
  BY DEF ClientConnect, ClientClose, serverVars, sessionVars, sendVars, historyVars
<1>2. \A d \in Clients : link'[d] = "away" \/ d \in Range(backlog')
                            => link[d] = "away" \/ d \in Range(backlog)
  <2>1. /\ link \in [Clients -> {"away", "open", "closed"}]
        /\ backlog \in Seq(Clients)
    BY DEF IInv, TypeOK
  <2>2. CASE ClientConnect(c)
    <3>1. /\ link[c] = "away" /\ link' = [link EXCEPT ![c] = "open"]
          /\ backlog' = Append(backlog, c)
      BY <2>2 DEF ClientConnect
    <3>2. Range(backlog') = Range(backlog) \cup {c}
      BY <2>1, <3>1, AppendContents
    <3>3. QED  BY <2>1, <3>1, <3>2
  <2>3. CASE ClientClose(c)
    BY <2>1, <2>3 DEF ClientClose
  <2>4. QED  BY <2>2, <2>3
<1>3. OneOwner(owner)' /\ FreshFirst(owner)'
  BY <1>1, OwnersStay DEF Owned
<1>4. OwnData(owner)' /\ Clean'
  BY <1>1 DEF Owned, OwnData, Clean
<1>5. Named'
  BY <1>1, <1>2 DEF Owned, Named, MayChat, Open
<1>6. QED  BY <1>3, <1>4, <1>5 DEF Owned

LEMMA NoOwners ==
  ASSUME RInv, NEW owner \in [Sessions -> Clients \cup {None}], Owned(owner),
         Served' = Served, (\E s \in Sessions : HandleAcceptError(s)) \/ UNCHANGED vars
  PROVE  Owned(owner)'
<1>1. /\ UNCHANGED <<peer, m_SessionQueue, handling, batch, m_Name, m_SendDataQueue,
                     link, chat, joined, backlog, c2s, s2c>>
      /\ accepting' \subseteq accepting
  BY DEF HandleAcceptError, vars, serverVars, sessionVars, sendVars, clientVars,
         historyVars
<1>2. OneOwner(owner)' /\ FreshFirst(owner)'
  BY <1>1 DEF Owned, OneOwner, FreshFirst, Open
<1>3. OwnData(owner)' /\ Clean'
  BY <1>1 DEF Owned, OwnData, Clean
<1>4. Named'
  BY <1>1 DEF Owned, Named, MayChat, Open
<1>5. QED  BY <1>2, <1>3, <1>4 DEF Owned

-----------------------------------------------------------------------------
LEMMA OwnersStep == NInv /\ [Next]_vars => IsFiniteSet(Served') /\ Owners'
<1> SUFFICES ASSUME NInv, [Next]_vars
             PROVE  IsFiniteSet(Served') /\ Owners'
  OBVIOUS
<1> USE DEF NInv
<1>1. CASE \E s \in Sessions : HandleAccept(s)
  <2>1. PICK s \in Sessions : HandleAccept(s)
    BY <1>1
  <2>2. /\ Served' = Served \cup {Head(backlog)}
        /\ Head(backlog) \notin Served
    BY <2>1, ServedGrows DEF RInv
  <2>3. /\ IsFiniteSet(Served')
        /\ Cardinality(Served') = Cardinality(Served) + 1
        /\ Cardinality(Served) \in Nat
    BY <2>2, FS_AddElement, FS_CardinalityType
  <2>4. ASSUME NoReuse'
        PROVE  \E new \in [Sessions -> Clients \cup {None}] : Owned(new)'
    <3>1. NoReuse
      <4>1. Cardinality(Served') <= MaxSessions
        BY <2>4 DEF NoReuse, Served
      <4>2. Cardinality(Served) <= MaxSessions
        BY <2>3, <4>1, PoolAssumption
      <4>3. QED  BY <4>2 DEF NoReuse, Served
    <3>2. PICK owner \in [Sessions -> Clients \cup {None}] : Owned(owner)
      BY <3>1 DEF Owners
    <3>3. QED  BY <2>1, <2>4, <3>2, AcceptOwners
  <2>5. QED  BY <2>3, <2>4 DEF Owners
<1>2. CASE \A s \in Sessions : ~HandleAccept(s)
  <2>1. Served' = Served
    BY <1>2, ServedSame DEF RInv
  <2>2. NoReuse' = NoReuse
    BY <2>1 DEF NoReuse, Served
  <2>3. ASSUME NEW owner \in [Sessions -> Clients \cup {None}], Owned(owner)
        PROVE  Owned(owner)'
    <3>1. ASSUME NEW s \in Sessions,
                 HandleReceiveError(s) \/ ProcessReqIn(s) \/ ProcessReqChat(s)
          PROVE  Owned(owner)'
      BY <2>1, <2>3, <3>1, CloseOwners, LoginOwners, ChatOwners
    <3>2. ASSUME NEW s \in Sessions,
                 \/ \E n \in 1 .. MaxPackets : HandleReceive(s, n)
                 \/ HandleWrite(s)
                 \/ \E i \in DOMAIN writes[s] : Transmit(s, i)
          PROVE  Owned(owner)'
      BY <2>1, <2>3, <3>2, ReceiveOwners, WriteOwners, TransmitOwners
    <3>3. ASSUME NEW c \in Clients, ClientConnect(c) \/ ClientSend(c) \/ ClientClose(c)
          PROVE  Owned(owner)'
      BY <2>1, <2>3, <3>3, SendOwners, LinkOwners
    <3>4. ASSUME (\E s \in Sessions : HandleAcceptError(s)) \/ UNCHANGED vars
          PROVE  Owned(owner)'
      BY <2>1, <2>3, <3>4, NoOwners
    <3>5. QED  BY <1>2, <3>1, <3>2, <3>3, <3>4 DEF Next, Receive, Process, SendStep
  <2>4. QED  BY <2>1, <2>2, <2>3 DEF Owners
<1>3. QED  BY <1>1, <1>2

LEMMA InitOwners == Init => IsFiniteSet(Served) /\ Owners
<1> SUFFICES ASSUME Init
             PROVE  IsFiniteSet(Served) /\ Owners
  OBVIOUS
<1>1. Served = {}
  BY DEF Init, Served
<1>2. IsFiniteSet(Served)
  BY <1>1, FS_EmptySet
<1>3. PICK owner \in [Sessions -> Clients \cup {None}] : owner = [s \in Sessions |-> None]
  OBVIOUS
<1>4. Open = {} /\ \A s \in Sessions : owner[s] = None
  BY <1>3 DEF Init, Open
<1>5. Range(m_SessionQueue) \subseteq Sessions /\ accepting \subseteq Sessions
  BY InitType, RangeType DEF TypeOK
<1>6. OneOwner(owner) /\ FreshFirst(owner)
  BY <1>4, <1>5 DEF OneOwner, FreshFirst, Range
<1>7. Range(<<>>) = {}
  BY DEF Range
<1>8. OwnData(owner) /\ Named /\ Clean
  BY <1>4, <1>7 DEF Init, OwnData, Named, Clean, Meant, Chats
<1>9. QED  BY <1>2, <1>6, <1>8 DEF Owners, Owned

(* As long as no session has been used for two clients, whatever the order *)
(* of accepts, logins, messages and disconnections, every message is under *)
(* its author's name, and a client receives the answer to its own login    *)
(* and what was said since it came, and nothing else (ProcessPacket,       *)
(* SetName, PostSend, closeSession's push_back and PostAccept's pop_front).*)
THEOREM NotMixedUp == Spec => []NoMixUp
<1>1. Init => NInv
  BY InitRInv, InitOwners DEF NInv
<1>2. NInv /\ [Next]_vars => NInv'
  <2>1. IInv /\ [Next]_vars => IInv'
    BY TypeStep, PoolStep, ReaderStep, WriteStep, WaitingStep DEF IInv
  <2>2. RInv /\ [Next]_vars => RInv'
    BY <2>1, KnownRefsStep, NothingYetStep, OwnWordsStep, EveryStep DEF RInv
  <2>3. QED  BY <2>2, OwnersStep DEF NInv
<1>3. NInv => NoMixUp
  BY DEF NInv, Owners, Owned, Clean, Meant, NoMixUp
<1>4. QED  BY <1>1, <1>2, <1>3, PTL DEF Spec
=============================================================================
