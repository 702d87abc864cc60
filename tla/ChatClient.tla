----------------------------- MODULE ChatClient -----------------------------
(***************************************************************************)
(* The chat client of TCPChatClient/client.cpp: class ChatClient and main. *)
(*                                                                         *)
(* Two threads: main reads lines and posts packets; the thread it starts   *)
(* runs the io_context, hence the completion handlers.  They share the     *)
(* send queue, guarded by m_lock, and, with no guard at all, m_bIsLogin    *)
(* and the socket.  Each step below is a stretch of one thread in which    *)
(* the other cannot interfere; the critical sections are split at every    *)
(* access to the queue, so that it is the lock that keeps them whole.      *)
(***************************************************************************)
EXTENDS Integers, Sequences

CONSTANTS
    MaxLines,         \* bound: lines the user types
    MaxReceived       \* bound: packets the server sends

ASSUME BoundAssumption == MaxLines \in Nat /\ MaxReceived \in Nat

VARIABLES
    pc,               \* main: "input" | "enter" | "push" | "write" |
                      \*       "stop" | "close" | "join" | "end"
    SendPkt,          \* main: the packet being posted
    ioPc,             \* io thread: "run" (between handlers) | "enter" | "pop" |
                      \*       "front" | "enterSend" | "send" | "done"
    m_lock,           \* "free" or its owner, "main" or "io"
    m_SendDataQueue,
    writes,           \* async_writes not completed: data, and whether it is
                      \* still "going" or "done" (sent, failed or cancelled)
    socket,           \* "connecting" | "refused" | "connected" | "broken" |
                      \* "closed"; is_open() is false for "closed" only
    connecting,       \* async_connect has not completed
    reading,          \* async_read_some has not completed
    stopped,          \* io_context::stop was called
    m_bIsLogin,
    inbox,            \* packets from the server, not yet read
    served,           \* history: all packets the server has sent
    upAt,             \* history: packets posted when the connection came up
    typed,            \* lines read so far (for MaxLines)
    posted,           \* history: the packets PostSend has put in the queue
    wire              \* history: the packets the server has received

mainVars   == <<pc, SendPkt, typed>>
queueVars  == <<m_lock, m_SendDataQueue, writes>>
serverVars == <<inbox, served, upAt>>
vars == <<mainVars, ioPc, queueVars, socket, connecting, reading, stopped,
          m_bIsLogin, serverVars, posted, wire>>

Packet == [nID : {"REQ_IN", "REQ_CHAT"}, line : 1 .. MaxLines]
NoPacket == [nID |-> "none", line |-> 0]
ServerPacket == {"RES_IN", "NOTICE_CHAT"}

is_open == socket # "closed"

(* async_write on the socket as it is now.                                 *)
Started(pkt) == [data |-> pkt,
                 st |-> IF socket = "connected" THEN "going" ELSE "done"]
Cancelled == [i \in DOMAIN writes |-> [writes[i] EXCEPT !.st = "done"]]

-----------------------------------------------------------------------------
(* After Connect and the start of the thread.  async_connect opens the     *)
(* socket before it tries to connect.                                      *)
Init ==
    /\ pc = "input"
    /\ SendPkt = NoPacket
    /\ ioPc = "run"
    /\ m_lock = "free"
    /\ m_SendDataQueue = <<>>
    /\ writes = <<>>
    /\ socket = "connecting"
    /\ connecting = TRUE
    /\ reading = FALSE
    /\ stopped = FALSE
    /\ m_bIsLogin = FALSE
    /\ inbox = <<>>
    /\ served = <<>>
    /\ upAt = 0
    /\ typed = 0
    /\ posted = <<>>
    /\ wire = <<>>

-----------------------------------------------------------------------------
(* The main thread.                                                        *)

(* A line, with the socket closed: "not connected", next line.             *)
LineRefused ==
    /\ pc = "input"
    /\ typed < MaxLines
    /\ ~is_open
    /\ typed' = typed + 1
    /\ UNCHANGED <<pc, SendPkt, ioPc, queueVars, socket, connecting, reading,
                   stopped, m_bIsLogin, serverVars, posted, wire>>

(* Fault: a packet posted without its Init().                              *)
LineAcceptedNoInit ==
    /\ pc = "input"
    /\ typed < MaxLines
    /\ is_open
    /\ typed' = typed + 1
    /\ SendPkt' = [NoPacket EXCEPT !.line = typed + 1]
    /\ pc' = "enter"
    /\ UNCHANGED <<ioPc, queueVars, socket, connecting, reading, stopped,
                   m_bIsLogin, serverVars, posted, wire>>

(* Fault: the first line counts as the login, confirmed or not.            *)
LineAcceptedUnconfirmed ==
    /\ pc = "input"
    /\ typed < MaxLines
    /\ is_open
    /\ typed' = typed + 1
    /\ SendPkt' = [nID |-> IF typed > 0 THEN "REQ_CHAT" ELSE "REQ_IN",
                   line |-> typed + 1]
    /\ pc' = "enter"
    /\ UNCHANGED <<ioPc, queueVars, socket, connecting, reading, stopped,
                   m_bIsLogin, serverVars, posted, wire>>

(* A line: the user's name until the login is confirmed, then a message.   *)
LineAccepted ==
    /\ pc = "input"
    /\ typed < MaxLines
    /\ is_open
    /\ typed' = typed + 1
    /\ SendPkt' = [nID |-> IF m_bIsLogin THEN "REQ_CHAT" ELSE "REQ_IN",
                   line |-> typed + 1]
    /\ pc' = "enter"
    /\ UNCHANGED <<ioPc, queueVars, socket, connecting, reading, stopped,
                   m_bIsLogin, serverVars, posted, wire>>

(* getline fails: end of input, or a line of MAX_MESSAGE_LEN characters or *)
(* more; or the line is empty.                                             *)
Quit ==
    /\ pc = "input"
    /\ pc' = "stop"
    /\ UNCHANGED <<SendPkt, typed, ioPc, queueVars, socket, connecting, reading,
                   stopped, m_bIsLogin, serverVars, posted, wire>>

(* PostSend(false, ...): EnterCriticalSection.                             *)
PostSendEnter ==
    /\ pc = "enter"
    /\ m_lock = "free"
    /\ m_lock' = "main"
    /\ pc' = "push"
    /\ UNCHANGED <<SendPkt, typed, ioPc, m_SendDataQueue, writes, socket, connecting,
                   reading, stopped, m_bIsLogin, serverVars, posted, wire>>

(* Fault: m_lock is left before the size test.                             *)
PostSendPushUnlocked ==
    /\ pc = "push"
    /\ m_SendDataQueue' = Append(m_SendDataQueue, SendPkt)
    /\ posted' = Append(posted, SendPkt)
    /\ pc' = "write"
    /\ m_lock' = "free"
    /\ UNCHANGED <<SendPkt, typed, ioPc, writes, socket, connecting,
                   reading, stopped, m_bIsLogin, serverVars, wire>>

PostSendPush ==
    /\ pc = "push"
    /\ m_SendDataQueue' = Append(m_SendDataQueue, SendPkt)
    /\ posted' = Append(posted, SendPkt)
    /\ pc' = "write"
    /\ UNCHANGED <<SendPkt, typed, ioPc, m_lock, writes, socket, connecting,
                   reading, stopped, m_bIsLogin, serverVars, wire>>

(* The size test, async_write if it is the only packet, and                *)
(* LeaveCriticalSection.                                                   *)
PostSendWrite ==
    /\ pc = "write"
    /\ \/ /\ Len(m_SendDataQueue) < 2
          /\ writes' = Append(writes, Started(SendPkt))
       \/ /\ Len(m_SendDataQueue) >= 2
          /\ UNCHANGED writes
    /\ m_lock' = "free"
    /\ pc' = "input"
    /\ UNCHANGED <<SendPkt, typed, ioPc, m_SendDataQueue, socket, connecting,
                   reading, stopped, m_bIsLogin, serverVars, posted, wire>>

(* After the input loop: io_service.stop().                                *)
Stop ==
    /\ pc = "stop"
    /\ stopped' = TRUE
    /\ pc' = "close"
    /\ UNCHANGED <<SendPkt, typed, ioPc, queueVars, socket, connecting, reading,
                   m_bIsLogin, serverVars, posted, wire>>

MainClose ==
    /\ pc = "close"
    /\ socket' = "closed"
    /\ writes' = Cancelled
    /\ pc' = "join"
    /\ UNCHANGED <<SendPkt, typed, ioPc, m_lock, m_SendDataQueue, connecting,
                   reading, stopped, m_bIsLogin, serverVars, posted, wire>>

(* thread.join() returns; ~ChatClient frees what is still queued.          *)
Join ==
    /\ pc = "join"
    /\ ioPc = "done"
    /\ m_lock = "free"
    /\ m_SendDataQueue' = <<>>
    /\ pc' = "end"
    /\ UNCHANGED <<SendPkt, typed, ioPc, m_lock, writes, socket, connecting,
                   reading, stopped, m_bIsLogin, serverVars, posted, wire>>

-----------------------------------------------------------------------------
(* The io thread.                                                          *)

Ready == ioPc = "run" /\ ~stopped

(* handle_connect: PostReceive if it succeeded; otherwise nothing, and the *)
(* socket stays open.                                                      *)
HandleConnect ==
    /\ Ready
    /\ connecting
    /\ socket # "connecting"
    /\ connecting' = FALSE
    /\ reading' = (socket \in {"connected", "broken"})
    /\ UNCHANGED <<mainVars, ioPc, queueVars, socket, stopped, m_bIsLogin,
                   serverVars, posted, wire>>

(* handle_receive with n packets; RES_IN means LoginOK.  PostReceive again.*)
HandleReceive(n) ==
    /\ Ready
    /\ reading
    /\ n <= Len(inbox)
    /\ is_open
    /\ m_bIsLogin' = (m_bIsLogin \/ \E i \in 1 .. n : inbox[i] = "RES_IN")
    /\ inbox' = SubSeq(inbox, n + 1, Len(inbox))
    /\ UNCHANGED <<mainVars, ioPc, queueVars, socket, connecting, reading,
                   stopped, served, upAt, posted, wire>>

(* handle_receive with an error: Close.                                    *)
HandleReceiveError ==
    /\ Ready
    /\ reading
    /\ socket \in {"broken", "closed"}
    /\ reading' = FALSE
    /\ socket' = "closed"
    /\ writes' = Cancelled
    /\ UNCHANGED <<mainVars, ioPc, m_lock, m_SendDataQueue, connecting, stopped,
                   m_bIsLogin, serverVars, posted, wire>>

(* handle_write, in four steps.  It does not look at its error either.     *)
HandleWrite ==
    /\ Ready
    /\ writes # <<>>
    /\ Head(writes).st = "done"
    /\ writes' = Tail(writes)
    /\ ioPc' = "enter"
    /\ UNCHANGED <<mainVars, m_lock, m_SendDataQueue, socket, connecting, reading,
                   stopped, m_bIsLogin, serverVars, posted, wire>>

HandleWriteEnter ==
    /\ ioPc = "enter"
    /\ m_lock = "free"
    /\ m_lock' = "io"
    /\ ioPc' = "pop"
    /\ UNCHANGED <<mainVars, m_SendDataQueue, writes, socket, connecting, reading,
                   stopped, m_bIsLogin, serverVars, posted, wire>>

(* Fault: pop_back.                                                        *)
HandleWritePopBack ==
    /\ ioPc = "pop"
    /\ m_SendDataQueue' = SubSeq(m_SendDataQueue, 1, Len(m_SendDataQueue) - 1)
    /\ ioPc' = "front"
    /\ UNCHANGED <<mainVars, m_lock, writes, socket, connecting, reading,
                   stopped, m_bIsLogin, serverVars, posted, wire>>

HandleWritePop ==
    /\ ioPc = "pop"
    /\ m_SendDataQueue' = Tail(m_SendDataQueue)
    /\ ioPc' = "front"
    /\ UNCHANGED <<mainVars, m_lock, writes, socket, connecting, reading,
                   stopped, m_bIsLogin, serverVars, posted, wire>>

(* Fault: the handler returns from inside the lock if nothing is left.     *)
HandleWriteFrontKeepsLock ==
    /\ ioPc = "front"
    /\ ioPc' = IF m_SendDataQueue = <<>> THEN "run" ELSE "enterSend"
    /\ m_lock' = IF m_SendDataQueue = <<>> THEN m_lock ELSE "free"
    /\ UNCHANGED <<mainVars, m_SendDataQueue, writes, socket, connecting, reading,
                   stopped, m_bIsLogin, serverVars, posted, wire>>

(* Fault: what was queued during a write is left to the next PostSend.     *)
HandleWriteFrontForgets ==
    /\ ioPc = "front"
    /\ ioPc' = "run"
    /\ m_lock' = "free"
    /\ UNCHANGED <<mainVars, m_SendDataQueue, writes, socket, connecting, reading,
                   stopped, m_bIsLogin, serverVars, posted, wire>>

(* pData is the new front, if any; LeaveCriticalSection.                   *)
HandleWriteFront ==
    /\ ioPc = "front"
    /\ ioPc' = IF m_SendDataQueue = <<>> THEN "run" ELSE "enterSend"
    /\ m_lock' = "free"
    /\ UNCHANGED <<mainVars, m_SendDataQueue, writes, socket, connecting, reading,
                   stopped, m_bIsLogin, serverVars, posted, wire>>

(* PostSend(true, ...) with pData; nothing else removes it from the front. *)
ResendEnter ==
    /\ ioPc = "enterSend"
    /\ m_lock = "free"
    /\ m_lock' = "io"
    /\ ioPc' = "send"
    /\ UNCHANGED <<mainVars, m_SendDataQueue, writes, socket, connecting, reading,
                   stopped, m_bIsLogin, serverVars, posted, wire>>

ResendWrite ==
    /\ ioPc = "send"
    /\ writes' = Append(writes, Started(Head(m_SendDataQueue)))
    /\ m_lock' = "free"
    /\ ioPc' = "run"
    /\ UNCHANGED <<mainVars, m_SendDataQueue, socket, connecting, reading,
                   stopped, m_bIsLogin, serverVars, posted, wire>>

(* io_context::run returns when it was stopped or has nothing left to wait *)
(* for, and is not called again.                                           *)
RunReturns ==
    /\ ioPc = "run"
    /\ stopped \/ (~connecting /\ ~reading /\ writes = <<>>)
    /\ ioPc' = "done"
    /\ UNCHANGED <<mainVars, queueVars, socket, connecting, reading, stopped,
                   m_bIsLogin, serverVars, posted, wire>>

-----------------------------------------------------------------------------
(* The network and the server.                                             *)

ConnectEnds ==
    /\ socket = "connecting"
    /\ socket' \in {"connected", "refused"}
    /\ upAt' = Len(posted)
    /\ UNCHANGED <<mainVars, ioPc, queueVars, connecting, reading, stopped,
                   m_bIsLogin, inbox, served, posted, wire>>

Transmit ==
    /\ socket = "connected"
    /\ \E i \in DOMAIN writes :
          /\ writes[i].st = "going"
          /\ \A j \in 1 .. i - 1 : writes[j].st = "done"
          /\ writes' = [writes EXCEPT ![i].st = "done"]
          /\ wire' = Append(wire, writes[i].data)
    /\ UNCHANGED <<mainVars, ioPc, m_lock, m_SendDataQueue, socket, connecting,
                   reading, stopped, m_bIsLogin, serverVars, posted>>

(* The server may send either packet at any time: answers to this client,  *)
(* broadcasts of what others say, and, on a session of ChatServer that is  *)
(* used again, what it still held for the session's last client - so a     *)
(* RES_IN may come before this client has sent anything.                   *)
ServerSends ==
    /\ socket = "connected"
    /\ Len(served) < MaxReceived
    /\ \E pkt \in ServerPacket :
          /\ inbox' = Append(inbox, pkt)
          /\ served' = Append(served, pkt)
    /\ UNCHANGED <<mainVars, ioPc, queueVars, socket, connecting, reading,
                   stopped, m_bIsLogin, upAt, posted, wire>>

ConnectionBreaks ==
    /\ socket = "connected"
    /\ socket' = "broken"
    /\ writes' = Cancelled
    /\ UNCHANGED <<mainVars, ioPc, m_lock, m_SendDataQueue, connecting, reading,
                   stopped, m_bIsLogin, serverVars, posted, wire>>

-----------------------------------------------------------------------------
PostSendStep == PostSendEnter \/ PostSendPush \/ PostSendWrite
ExitStep == Stop \/ MainClose \/ Join
IoStep == \/ HandleConnect
          \/ \E n \in 1 .. MaxReceived : HandleReceive(n)
          \/ HandleReceiveError
          \/ HandleWrite
          \/ HandleWriteEnter \/ HandleWritePop \/ HandleWriteFront
          \/ ResendEnter \/ ResendWrite
          \/ RunReturns

Next == \/ LineRefused \/ LineAccepted \/ Quit
        \/ PostSendStep \/ ExitStep \/ IoStep
        \/ ConnectEnds \/ Transmit \/ ServerSends \/ ConnectionBreaks

Spec == Init /\ [][Next]_vars

(* Both threads are scheduled; whoever waits for m_lock gets it in the end *)
(* (a Windows critical section does not starve a waiter); the connection   *)
(* carries what it was given.  The user need not type anything.            *)
FairSpec == /\ Spec
            /\ SF_vars(PostSendEnter)
            /\ WF_vars(PostSendPush) /\ WF_vars(PostSendWrite)
            /\ WF_vars(ExitStep)
            /\ SF_vars(HandleWriteEnter) /\ SF_vars(ResendEnter)
            /\ WF_vars(IoStep)
            /\ WF_vars(Transmit)

-----------------------------------------------------------------------------
TypeOK ==
    /\ pc \in {"input", "enter", "push", "write", "stop", "close", "join", "end"}
    /\ SendPkt \in Packet \cup {NoPacket}
    /\ ioPc \in {"run", "enter", "pop", "front", "enterSend", "send", "done"}
    /\ m_lock \in {"free", "main", "io"}
    /\ m_SendDataQueue \in Seq(Packet)
    /\ writes \in Seq([data : Packet, st : {"going", "done"}])
    /\ socket \in {"connecting", "refused", "connected", "broken", "closed"}
    /\ connecting \in BOOLEAN
    /\ reading \in BOOLEAN
    /\ stopped \in BOOLEAN
    /\ m_bIsLogin \in BOOLEAN
    /\ inbox \in Seq(ServerPacket)
    /\ served \in Seq(ServerPacket)
    /\ upAt \in 0 .. Len(posted)
    /\ typed \in 0 .. MaxLines
    /\ posted \in Seq(Packet)
    /\ wire \in Seq(Packet)

(* The two threads together keep one async_write outstanding while packets *)
(* are queued: never two, which would mix packets on the wire and make     *)
(* handle_write pop once too often; and never none, which would leave the  *)
(* queue waiting for ever.  The one outstanding is of the queue's front.   *)
(* (PostSend's size test against handle_write, which releases m_lock       *)
(* between pop_front and PostSend)                                         *)
OneWriter ==
    LET inHandler == ioPc \in {"enter", "pop"}        \* completed, not popped
        owed == \/ ioPc \in {"enterSend", "send"}     \* io will start it
                \/ ioPc = "front" /\ m_SendDataQueue # <<>>
                \/ pc = "write" /\ Len(m_SendDataQueue) = 1 /\ ~inHandler
    IN  pc # "end" =>
        /\ Len(writes) <= 1
        /\ writes # <<>> => /\ m_SendDataQueue # <<>>
                            /\ Head(writes).data = Head(m_SendDataQueue)
                            /\ ~inHandler /\ ~owed
        /\ inHandler => m_SendDataQueue # <<>> /\ ~owed
        /\ m_SendDataQueue # <<>> => writes # <<>> \/ inHandler \/ owed

(* What is queued and has not reached the server or been given up.         *)
Unsent ==
    IF ioPc \in {"enter", "pop"} \/ (writes # <<>> /\ Head(writes).st = "done")
    THEN Tail(m_SendDataQueue)
    ELSE m_SendDataQueue

(* While the connection is up, what the server has received and what is    *)
(* still queued are the packets posted, in order and without a gap, but for*)
(* some at the beginning that were given up; and these were all posted     *)
(* before the connection was up.  (PostSend, handle_write)                 *)
FifoWhileConnected ==
    socket = "connected" =>
        \E k \in 0 .. upAt :
            wire \o Unsent = SubSeq(posted, k + 1, Len(posted))

(* The client keeps to the rule by which ChatServer's clients send         *)
(* (ClientSend): no message reaches the server before it has sent this     *)
(* client a RES_IN - in answer to its own name or, on a session used again,*)
(* to its last client's - and no name after a message.  m_bIsLogin is read *)
(* when a line is typed, by another thread than the one that sets it, and  *)
(* the packet may be sent much later, behind others.                       *)
(* (main, LoginOK, PostSend, handle_write)                                 *)
Peer == INSTANCE ChatPeer WITH
            requests <- [i \in DOMAIN wire |-> wire[i].nID]

FollowsProtocol == Peer!Spec

(* Leaving the input loop always ends the program: stop, close and join    *)
(* wait for nobody who waits for them.                                     *)
QuitTerminates == pc = "stop" ~> pc = "end"

(* A packet still to be sent when the connection is up reaches the server, *)
(* whichever thread has to start its write, unless the connection breaks or*)
(* the user quits.                                                         *)
PostedIsSent ==
    \A k \in 1 .. MaxLines :
        socket = "connected" /\ (\E i \in DOMAIN Unsent : Unsent[i].line = k)
        ~> \/ \E i \in DOMAIN wire : wire[i].line = k
           \/ socket # "connected" \/ stopped
=============================================================================
