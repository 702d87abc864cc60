----------------------------- MODULE ChatServer -----------------------------
(***************************************************************************)
(* The chat server of TCPChatServer/: class ChatServer (ChatServer.h) and  *)
(* its pool of class Session objects (ServerSession.cpp).                  *)
(*                                                                         *)
(* One thread runs the io_context, so completion handlers never overlap:   *)
(* an action below is one handler, or one turn of the packet loop inside   *)
(* handle_receive (`handling` names the session whose handler is on the    *)
(* stack).  What does interleave is the network: connections arrive, data  *)
(* is transmitted and peers vanish between, and during, any two handlers.  *)
(* A closed socket does not recall the handlers of its outstanding         *)
(* operations; they run later, when the session may already serve the next *)
(* client.                                                                 *)
(*                                                                         *)
(* A packet is one message here; how packets are cut out of the byte       *)
(* stream is the subject of PacketFraming.                                 *)
(***************************************************************************)
EXTENDS Integers, Sequences, FiniteSets, Functions

CONSTANTS
    MaxSessions,    \* argument of ChatServer::Init, the size of the session pool
    Clients,        \* client processes; each connects at most once
    None,           \* no client, no name
    MaxPackets,     \* bound: packets one client sends
    AcceptMayFail   \* whether async_accept may complete with an error

ASSUME PoolAssumption   == MaxSessions \in Nat \ {0}
ASSUME NoneAssumption   == None \notin Clients /\ None \notin 0 .. MaxSessions - 1
ASSUME BoundAssumption  == MaxPackets \in Nat /\ AcceptMayFail \in BOOLEAN

Sessions == 0 .. MaxSessions - 1

VARIABLES
    m_SessionQueue,   \* ids waiting to be handed to async_accept
    m_bIsAccepting,
    accepting,        \* sessions whose socket an outstanding async_accept holds
    peer,             \* peer[s]: client at the other end of s; None: socket closed
    reading,          \* sessions with an outstanding async_read_some
    handling,         \* session whose handle_receive is running, or None
    batch,            \* packets of that handler's buffer not yet processed
    m_SendDataQueue,  \* m_SendDataQueue[s]: packets, the front one being written
    writes,           \* writes[s]: async_writes not completed; .to is the client the
                      \* bytes still go to, None once sent, failed or cancelled
    m_Name,           \* m_Name[s]: name given by the last REQ_IN on session s
    backlog,          \* connections the kernel has established, not yet accepted
    link,             \* link[c]: "away", "open" or "closed", as the client sees it
    c2s,              \* c2s[c]: packets sent by c that the server has not read
    sent,             \* sent[c]: how many packets c has sent (for MaxPackets)
    s2c,              \* s2c[c]: packets c has received, in order
    chat,             \* history: the broadcasts, in order
    joined            \* history: joined[c] is Len(chat) when c was accepted

serverVars  == <<m_SessionQueue, m_bIsAccepting, accepting>>
sessionVars == <<peer, reading, handling, batch, m_Name>>
sendVars    == <<m_SendDataQueue, writes>>
clientVars  == <<link, sent>>
historyVars == <<chat, joined>>
vars == <<serverVars, sessionVars, sendVars, clientVars, historyVars,
          backlog, c2s, s2c>>

-----------------------------------------------------------------------------
(* Packets.  A name is the client that chose it; the text of a message is  *)
(* identified by its author.  RES_IN and NOTICE_CHAT carry a reference to  *)
(* the login, or the entry of `chat`, they were made for.                  *)

ReqIn(c)   == [nID |-> "REQ_IN", text |-> c]
ReqChat(c) == [nID |-> "REQ_CHAT", text |-> c]
ResIn(c)   == [nID |-> "RES_IN", ref |-> c]
Notice(k)  == [nID |-> "NOTICE_CHAT", ref |-> k]

Request == [nID : {"REQ_IN", "REQ_CHAT"}, text : Clients]
Reply   == [nID : {"RES_IN"}, ref : Clients] \cup [nID : {"NOTICE_CHAT"}, ref : Nat]

Open == {s \in Sessions : peer[s] # None}

-----------------------------------------------------------------------------
(* Session::PostSend.  `imm` is bImmediately; q is the queue before the    *)
(* call.  A packet is written at once only when nothing else is.           *)

QueueAfterSend(q, imm, pkt) == IF imm THEN q ELSE Append(q, pkt)

(* Fault: the queue is taken for busy one packet too late.                 *)
WritesAfterSendLate(w, q, imm, pkt, to) ==
    IF imm = FALSE /\ Len(QueueAfterSend(q, imm, pkt)) > 2
    THEN w
    ELSE Append(w, [data |-> pkt, to |-> to])

WritesAfterSend(w, q, imm, pkt, to) ==
    IF imm = FALSE /\ Len(QueueAfterSend(q, imm, pkt)) > 1
    THEN w
    ELSE Append(w, [data |-> pkt, to |-> to])

PostSend(receivers, pkt) ==
    /\ m_SendDataQueue' =
         [s \in Sessions |-> IF s \in receivers
                             THEN QueueAfterSend(m_SendDataQueue[s], FALSE, pkt)
                             ELSE m_SendDataQueue[s]]
    /\ writes' =
         [s \in Sessions |-> IF s \in receivers
                             THEN WritesAfterSend(writes[s], m_SendDataQueue[s],
                                                  FALSE, pkt, peer[s])
                             ELSE writes[s]]

(* ChatServer::PostAccept, called with the queue q and the outstanding     *)
(* accepts acc that the calling handler has left.                          *)
PostAcceptNoPop(q, acc) ==    \* fault: pop_front forgotten
    \/ /\ q = <<>>
       /\ m_bIsAccepting' = FALSE
       /\ m_SessionQueue' = q
       /\ accepting' = acc
    \/ /\ q # <<>>
       /\ m_bIsAccepting' = TRUE
       /\ m_SessionQueue' = q
       /\ accepting' = acc \cup {Head(q)}

PostAccept(q, acc) ==
    \/ /\ q = <<>>
       /\ m_bIsAccepting' = FALSE
       /\ m_SessionQueue' = q
       /\ accepting' = acc
    \/ /\ q # <<>>
       /\ m_bIsAccepting' = TRUE
       /\ m_SessionQueue' = Tail(q)
       /\ accepting' = acc \cup {Head(q)}

-----------------------------------------------------------------------------
(* The state after ChatServer::Init and Start.                             *)
Init ==
    /\ m_SessionQueue = [i \in 1 .. MaxSessions - 1 |-> i]
    /\ m_bIsAccepting = TRUE
    /\ accepting = {0}
    /\ peer = [s \in Sessions |-> None]
    /\ reading = {}
    /\ handling = None
    /\ batch = <<>>
    /\ m_SendDataQueue = [s \in Sessions |-> <<>>]
    /\ writes = [s \in Sessions |-> <<>>]
    /\ m_Name = [s \in Sessions |-> None]
    /\ backlog = <<>>
    /\ link = [c \in Clients |-> "away"]
    /\ c2s = [c \in Clients |-> <<>>]
    /\ sent = [c \in Clients |-> 0]
    /\ s2c = [c \in Clients |-> <<>>]
    /\ chat = <<>>
    /\ joined = [c \in Clients |-> 0]

-----------------------------------------------------------------------------
(* Completion handlers.  Each starts only when no handler is running.      *)

(* handle_accept without an error: Session::Init and PostReceive on the    *)
(* session, then the next PostAccept.  Session::Init resets the receive    *)
(* mark only: m_SendDataQueue and m_Name stay as the last client left them.*)
HandleAccept(s) ==
    /\ handling = None
    /\ s \in accepting
    /\ backlog # <<>>
    /\ peer' = [peer EXCEPT ![s] = Head(backlog)]
    /\ joined' = [joined EXCEPT ![Head(backlog)] = Len(chat)]
    /\ backlog' = Tail(backlog)
    /\ reading' = reading \cup {s}
    /\ PostAccept(m_SessionQueue, accepting \ {s})
    /\ UNCHANGED <<handling, batch, m_Name, sendVars, clientVars, chat, c2s, s2c>>

(* handle_accept with an error only logs it: no PostAccept, and            *)
(* m_bIsAccepting keeps saying that an accept is outstanding.              *)
HandleAcceptError(s) ==
    /\ AcceptMayFail
    /\ handling = None
    /\ s \in accepting
    /\ accepting' = accepting \ {s}
    /\ UNCHANGED <<m_SessionQueue, m_bIsAccepting, sessionVars, sendVars,
                   clientVars, historyVars, backlog, c2s, s2c>>

(* handle_receive without an error: the read has brought in n packets; the *)
(* loop over them starts.                                                  *)
HandleReceive(s, n) ==
    /\ handling = None
    /\ s \in reading
    /\ n <= Len(c2s[peer[s]])
    /\ handling' = s
    /\ reading' = reading \ {s}
    /\ batch' = SubSeq(c2s[peer[s]], 1, n)
    /\ c2s' = [c2s EXCEPT ![peer[s]] = SubSeq(@, n + 1, Len(@))]
    /\ UNCHANGED <<serverVars, peer, m_Name, sendVars, clientVars,
                   historyVars, backlog, s2c>>

(* The end of one turn of the loop; after the last one, PostReceive.       *)
NextPacket(s) ==
    /\ batch' = Tail(batch)
    /\ \/ /\ Len(batch) > 1
          /\ UNCHANGED <<handling, reading>>
       \/ /\ Len(batch) = 1
          /\ handling' = None
          /\ reading' = reading \cup {s}

(* ProcessPacket, case REQ_IN.                                             *)
ProcessReqInWholePacket(s) ==    \* fault: SetName(pData)
    /\ handling = s
    /\ batch # <<>>
    /\ Head(batch).nID = "REQ_IN"
    /\ m_Name' = [m_Name EXCEPT ![s] = Head(batch)]
    /\ PostSend({s}, ResIn(Head(batch).text))
    /\ NextPacket(s)
    /\ UNCHANGED <<serverVars, peer, clientVars, historyVars, backlog, c2s, s2c>>

ProcessReqInToAll(s) ==    \* fault: RES_IN broadcast like a notice
    /\ handling = s
    /\ batch # <<>>
    /\ Head(batch).nID = "REQ_IN"
    /\ m_Name' = [m_Name EXCEPT ![s] = Head(batch).text]
    /\ PostSend(Open, ResIn(Head(batch).text))
    /\ NextPacket(s)
    /\ UNCHANGED <<serverVars, peer, clientVars, historyVars, backlog, c2s, s2c>>

ProcessReqIn(s) ==
    /\ handling = s
    /\ batch # <<>>
    /\ Head(batch).nID = "REQ_IN"
    /\ m_Name' = [m_Name EXCEPT ![s] = Head(batch).text]
    /\ PostSend({s}, ResIn(Head(batch).text))
    /\ NextPacket(s)
    /\ UNCHANGED <<serverVars, peer, clientVars, historyVars, backlog, c2s, s2c>>

(* ProcessPacket, case REQ_CHAT: a NOTICE_CHAT under the session's name to *)
(* every session whose socket is open, the sender's included.              *)
ProcessReqChatNoEcho(s) ==    \* fault: the sender is left out
    /\ handling = s
    /\ batch # <<>>
    /\ Head(batch).nID = "REQ_CHAT"
    /\ chat' = Append(chat, [szName |-> m_Name[s], text |-> Head(batch).text])
    /\ PostSend(Open \ {s}, Notice(Len(chat) + 1))
    /\ NextPacket(s)
    /\ UNCHANGED <<serverVars, peer, m_Name, clientVars, joined, backlog, c2s, s2c>>

ProcessReqChat(s) ==
    /\ handling = s
    /\ batch # <<>>
    /\ Head(batch).nID = "REQ_CHAT"
    /\ chat' = Append(chat, [szName |-> m_Name[s], text |-> Head(batch).text])
    /\ PostSend(Open, Notice(Len(chat) + 1))
    /\ NextPacket(s)
    /\ UNCHANGED <<serverVars, peer, m_Name, clientVars, joined, backlog, c2s, s2c>>

(* ChatServer::closeSession.  Closing the socket cancels its writes, whose *)
(* handlers are still to run, and the id goes back to the queue at once.   *)
CloseSessionAlwaysAccept(s) ==    \* fault: m_bIsAccepting is not tested
    /\ peer' = [peer EXCEPT ![s] = None]
    /\ writes' = [writes EXCEPT ![s] =
                    [i \in DOMAIN @ |-> [@[i] EXCEPT !.to = None]]]
    /\ PostAccept(Append(m_SessionQueue, s), accepting)

CloseSessionNoAccept(s) ==    \* fault: no PostAccept
    /\ peer' = [peer EXCEPT ![s] = None]
    /\ writes' = [writes EXCEPT ![s] =
                    [i \in DOMAIN @ |-> [@[i] EXCEPT !.to = None]]]
    /\ m_SessionQueue' = Append(m_SessionQueue, s)
    /\ UNCHANGED <<m_bIsAccepting, accepting>>

CloseSession(s) ==
    /\ peer' = [peer EXCEPT ![s] = None]
    /\ writes' = [writes EXCEPT ![s] =
                    [i \in DOMAIN @ |-> [@[i] EXCEPT !.to = None]]]
    /\ \/ /\ m_bIsAccepting = FALSE
          /\ PostAccept(Append(m_SessionQueue, s), accepting)
       \/ /\ m_bIsAccepting = TRUE
          /\ m_SessionQueue' = Append(m_SessionQueue, s)
          /\ UNCHANGED <<m_bIsAccepting, accepting>>

(* handle_receive with an error: end of file or reset by the peer, which   *)
(* may overtake packets the server has not read.                           *)
HandleReceiveErrorReads(s) ==    \* fault: falls through to PostReceive
    /\ handling = None
    /\ s \in reading
    /\ link[peer[s]] = "closed"
    /\ CloseSession(s)
    /\ UNCHANGED <<reading, handling, batch, m_Name, m_SendDataQueue, clientVars,
                   historyVars, backlog, c2s, s2c>>

HandleReceiveError(s) ==
    /\ handling = None
    /\ s \in reading
    /\ link[peer[s]] = "closed"
    /\ reading' = reading \ {s}
    /\ CloseSession(s)
    /\ UNCHANGED <<handling, batch, m_Name, m_SendDataQueue, clientVars,
                   historyVars, backlog, c2s, s2c>>

(* handle_write; it never looks at `error`.  PostSend(true) hands the next *)
(* packet to whatever connection the session's socket now has; on a closed *)
(* socket the write fails at once (to = None) and its handler runs later.  *)
HandleWriteStops(s) ==    \* fault: the next packet is not posted
    /\ handling = None
    /\ writes[s] # <<>>
    /\ Head(writes[s]).to = None
    /\ m_SendDataQueue' = [m_SendDataQueue EXCEPT ![s] = Tail(@)]
    /\ writes' = [writes EXCEPT ![s] = Tail(@)]
    /\ UNCHANGED <<serverVars, sessionVars, clientVars, historyVars, backlog,
                   c2s, s2c>>

HandleWriteBack(s) ==    \* fault: back() is posted, not front()
    /\ handling = None
    /\ writes[s] # <<>>
    /\ Head(writes[s]).to = None
    /\ m_SendDataQueue' = [m_SendDataQueue EXCEPT ![s] = Tail(@)]
    /\ writes' = [writes EXCEPT ![s] =
                    LET q == Tail(m_SendDataQueue[s])
                    IN  IF q = <<>> THEN Tail(@)
                        ELSE WritesAfterSend(Tail(@), q, TRUE, q[Len(q)], peer[s])]
    /\ UNCHANGED <<serverVars, sessionVars, clientVars, historyVars, backlog,
                   c2s, s2c>>

HandleWrite(s) ==
    /\ handling = None
    /\ writes[s] # <<>>
    /\ Head(writes[s]).to = None
    /\ m_SendDataQueue' = [m_SendDataQueue EXCEPT ![s] = Tail(@)]
    /\ writes' = [writes EXCEPT ![s] =
                    LET q == Tail(m_SendDataQueue[s])
                    IN  IF q = <<>> THEN Tail(@)
                        ELSE WritesAfterSend(Tail(@), q, TRUE, Head(q), peer[s])]
    /\ UNCHANGED <<serverVars, sessionVars, clientVars, historyVars, backlog,
                   c2s, s2c>>

-----------------------------------------------------------------------------
(* The network and the clients.                                            *)

(* The bytes of the i-th outstanding write reach the client, or are lost   *)
(* because it is gone.  Writes on one socket are transmitted in order.     *)
Transmit(s, i) ==
    /\ writes[s][i].to # None
    /\ \A j \in 1 .. i - 1 : writes[s][j].to = None
    /\ writes' = [writes EXCEPT ![s][i].to = None]
    /\ LET c == writes[s][i].to IN
       s2c' = [s2c EXCEPT ![c] = IF link[c] = "open"
                                 THEN Append(@, writes[s][i].data) ELSE @]
    /\ UNCHANGED <<serverVars, sessionVars, m_SendDataQueue, clientVars,
                   historyVars, backlog, c2s>>

ClientConnect(c) ==
    /\ link[c] = "away"
    /\ link' = [link EXCEPT ![c] = "open"]
    /\ backlog' = Append(backlog, c)
    /\ UNCHANGED <<serverVars, sessionVars, sendVars, historyVars, sent, c2s, s2c>>

LoggedIn(c) == \E i \in DOMAIN s2c[c] : s2c[c][i].nID = "RES_IN"

(* The client sends REQ_IN until it has processed a RES_IN, REQ_CHAT after.*)
ClientSend(c) ==
    /\ link[c] = "open"
    /\ sent[c] < MaxPackets
    /\ sent' = [sent EXCEPT ![c] = @ + 1]
    /\ \E pkt \in {ReqIn(c)} \cup (IF LoggedIn(c) THEN {ReqChat(c)} ELSE {}) :
          c2s' = [c2s EXCEPT ![c] = Append(@, pkt)]
    /\ UNCHANGED <<serverVars, sessionVars, sendVars, historyVars, link,
                   backlog, s2c>>

(* The client process ends, or its connection breaks.                      *)
ClientClose(c) ==
    /\ link[c] = "open"
    /\ link' = [link EXCEPT ![c] = "closed"]
    /\ UNCHANGED <<serverVars, sessionVars, sendVars, historyVars, sent,
                   backlog, c2s, s2c>>

-----------------------------------------------------------------------------
Receive(s) ==
    \/ \E n \in 1 .. MaxPackets : HandleReceive(s, n)
    \/ HandleReceiveError(s)

Process(s) == ProcessReqIn(s) \/ ProcessReqChat(s)

SendStep(s) == \E i \in DOMAIN writes[s] : Transmit(s, i)

Next ==
    \/ \E s \in Sessions :
          \/ HandleAccept(s)
          \/ HandleAcceptError(s)
          \/ Receive(s)
          \/ Process(s)
          \/ HandleWrite(s)
          \/ SendStep(s)
    \/ \E c \in Clients : ClientConnect(c) \/ ClientSend(c) \/ ClientClose(c)

Spec == Init /\ [][Next]_vars

(* io_context::run executes every completion that stays ready, and the     *)
(* kernel transmits what a live connection has been given.                 *)
Fairness ==
    \A s \in Sessions :
        /\ WF_vars(HandleAccept(s))
        /\ WF_vars(Receive(s))
        /\ WF_vars(Process(s))
        /\ WF_vars(HandleWrite(s))
        /\ WF_vars(SendStep(s))

FairSpec == Spec /\ Fairness

-----------------------------------------------------------------------------
TypeOK ==
    /\ m_SessionQueue \in Seq(Sessions)
    /\ m_bIsAccepting \in BOOLEAN
    /\ accepting \subseteq Sessions
    /\ peer \in [Sessions -> Clients \cup {None}]
    /\ reading \subseteq Sessions
    /\ handling \in Sessions \cup {None}
    /\ batch \in Seq(Request)
    /\ m_SendDataQueue \in [Sessions -> Seq(Reply)]
    /\ writes \in [Sessions -> Seq([data : Reply, to : Clients \cup {None}])]
    /\ m_Name \in [Sessions -> Clients \cup {None}]
    /\ backlog \in Seq(Clients)
    /\ link \in [Clients -> {"away", "open", "closed"}]
    /\ c2s \in [Clients -> Seq(Request)]
    /\ sent \in [Clients -> 0 .. MaxPackets]
    /\ s2c \in [Clients -> Seq(Reply)]
    /\ chat \in Seq([szName : Clients \cup {None}, text : Clients])
    /\ joined \in [Clients -> Nat]

-----------------------------------------------------------------------------
(* Safety.                                                                 *)

Lost == Sessions \ (Range(m_SessionQueue) \cup accepting \cup Open)

(* An id is in exactly one place - once in the queue, held by the accept,  *)
(* or open - whatever the order of accepts, errors and disconnections;     *)
(* only the accept that failed leaks one, and then m_bIsAccepting is stale.*)
(* (PostAccept, handle_accept, closeSession)                               *)
SessionConservation ==
    /\ \A i, j \in DOMAIN m_SessionQueue :
          m_SessionQueue[i] = m_SessionQueue[j] => i = j
    /\ Range(m_SessionQueue) \cap accepting = {}
    /\ Range(m_SessionQueue) \cap Open = {}
    /\ accepting \cap Open = {}
    /\ \A s, t \in Lost : s = t
    /\ Lost # {} <=> m_bIsAccepting /\ accepting = {}

(* At most one async_accept is outstanding, and while an id is free one    *)
(* is, unless an accept has failed.  (m_bIsAccepting guards both sides)    *)
AcceptPosted ==
    /\ \A s, t \in accepting : s = t
    /\ accepting # {} => m_bIsAccepting
    /\ m_SessionQueue # <<>> => m_bIsAccepting
    /\ ~AcceptMayFail => (m_bIsAccepting <=> accepting # {})

(* Every open socket has exactly one outstanding read, or its handler is   *)
(* running and will post the next; a closed one has none, so a reused      *)
(* session never has two.  No client is served by two sessions.            *)
OneReader ==
    /\ reading \cup ({handling} \ {None}) = Open
    /\ handling \notin reading
    /\ handling = None <=> batch = <<>>
    /\ \A s, t \in Open : peer[s] = peer[t] => s = t

(* A session has exactly one async_write outstanding while its queue holds *)
(* packets and none otherwise, across disconnections and reuse; its buffer *)
(* is the queue's front, so handle_write frees what was written and never  *)
(* pops an empty queue; and its bytes go to the connection that is open.   *)
OneWrite ==
    \A s \in Sessions :
        IF m_SendDataQueue[s] = <<>>
        THEN writes[s] = <<>>
        ELSE /\ Len(writes[s]) = 1
             /\ Head(writes[s]).data = Head(m_SendDataQueue[s])
             /\ Head(writes[s]).to \in {None, peer[s]}

(* What session s has delivered to its client and still has to deliver.    *)
Pending(s) ==
    IF writes[s] # <<>> /\ Head(writes[s]).to = None
    THEN Tail(m_SendDataQueue[s])
    ELSE m_SendDataQueue[s]
Stream(s) == s2c[peer[s]] \o Pending(s)

(* The notices in it that were broadcast after the client was accepted.    *)
Fresh(s) == {i \in DOMAIN Stream(s) : /\ Stream(s)[i].nID = "NOTICE_CHAT"
                                      /\ Stream(s)[i].ref > joined[peer[s]]}

(* Every client that is connected gets every message broadcast since it    *)
(* was accepted, once, in the order all clients see - even on a session    *)
(* that was reused with the former client's packets still in its queue.    *)
EveryMessageOnce ==
    \A s \in Open :
        link[peer[s]] = "open" =>
            /\ {Stream(s)[i].ref : i \in Fresh(s)}
                 = joined[peer[s]] + 1 .. Len(chat)
            /\ \A i, j \in Fresh(s) :
                  i < j => Stream(s)[i].ref < Stream(s)[j].ref

(* No more clients have been accepted than there are sessions.  The queue  *)
(* of ids is first in, first out, so none has been used twice.             *)
NoReuse ==
    Cardinality({c \in Clients : link[c] # "away"} \ Range(backlog)) <= MaxSessions

(* Until a session is used again, clients are not mixed up: a message is   *)
(* broadcast under the name its author logged in with, and nobody receives *)
(* what was meant for another one, an answer to a foreign login or a notice*)
(* from before it was accepted - with sessions of other clients opened,    *)
(* named and closed around it.  (ProcessPacket, SetName, PostSend)         *)
NoMixUp ==
    NoReuse =>
        /\ \A k \in DOMAIN chat : chat[k].szName = chat[k].text
        /\ \A c \in Clients : \A pkt \in Range(s2c[c]) :
              \/ pkt.nID = "RES_IN" /\ pkt.ref = c
              \/ pkt.nID = "NOTICE_CHAT" /\ pkt.ref > joined[c]

(* An id put in the queue is that of a session not in use, as the comment  *)
(* in closeSession has it: when the session gets its next client, no packet*)
(* of the last one is left in it to be sent.                               *)
ReusedSessionIsUnused ==
    [][\A s \in Sessions : s \notin Open /\ s \in Open' => Pending(s) = <<>>]_vars

(* After a session was closed the server waits for a connection again.     *)
CloseResumesAccepting ==
    [][\A s \in Sessions : s \in Open /\ s \notin Open' => accepting' # {}]_vars

-----------------------------------------------------------------------------
(* Liveness.                                                               *)

(* A client that has connected is accepted, unless from some time on every *)
(* session is held by a client that stays.                                 *)
WaitingIsServed ==
    []<>(\E s \in Sessions : s \notin Open \/ link[peer[s]] = "closed")
    => \A c \in Clients : c \in Range(backlog) ~> c \notin Range(backlog)

=============================================================================
