----------------------------- MODULE EchoServer -----------------------------
(***************************************************************************)
(* The 1:1 asynchronous echo server, maybe_portfolio/server.cpp: classes   *)
(* Server and TCP_Server.  maybe_portfolio/client.cpp is the same file.    *)
(*                                                                         *)
(* One thread runs the io_context and every action of the server is one    *)
(* completion handler.  m_WriteMessage is a single string, which the next  *)
(* receive assigns whether or not the async_write before has finished with *)
(* it; async_write sends in pieces, each looking at the string's memory    *)
(* when it is transmitted.                                                 *)
(*                                                                         *)
(* The bytes of the client's stream are its positions 1, 2, ...; "RE:" is  *)
(* one unit of a reply.                                                    *)
(***************************************************************************)
EXTENDS Integers, Sequences, FiniteSets, SequencesExt

CONSTANTS
    Clients,
    BufferSize,     \* size of m_ReceiveBuffer (128)
    MaxText,        \* characters that fit sprintf_s behind "RE:" (123)
    Zeros,          \* positions of the stream at which the client sends '\0'
    MaxBytes,       \* bound: bytes the client sends
    None

ASSUME BufferAssumption == MaxText \in Nat /\ BufferSize \in Nat /\ MaxText < BufferSize
ASSUME StreamAssumption == MaxBytes \in Nat /\ Zeros \subseteq 1 .. MaxBytes
ASSUME NoneAssumption   == None \notin Clients

VARIABLES
    main,             \* "running", "returned" from io_service.run(), "aborted"
    accepting,        \* an async_accept is outstanding
    client,           \* the client m_Socket is connected to, or None
    reading,          \* an async_read_some is outstanding
    m_ReceiveBuffer,
    m_WriteMessage,
    writes,           \* pieces posted and not transmitted, in order:
                      \* .text is what async_write was called for, .done how
                      \* much is sent, .live that m_WriteMessage still has it
    finished,         \* pieces transmitted whose handlers have not run, in order
    backlog,          \* connections the kernel has established, not yet accepted
    link,             \* link[c]: "away", "open" or "closed", as the client sees it
    sent,             \* bytes `client` has sent (what waits in the backlog, nobody reads)
    taken,            \* bytes of `client` the server has read
    toClient,         \* units the client has received
    replies,          \* history: the replies written, in order
    overwritten       \* history: a reply was assigned over one not yet sent

ioVars == <<main, accepting, client, reading, m_ReceiveBuffer>>
writeVars == <<m_WriteMessage, writes, finished, replies, overwritten>>
netVars == <<backlog, link, sent>>
vars == <<ioVars, writeVars, netVars, taken, toClient>>

NUL == 0
RE == -1
Junk == -2

Byte(k) == IF k \in Zeros THEN NUL ELSE k

-----------------------------------------------------------------------------
(* TCP_Server's constructor and StartAccept.                               *)
Init ==
    /\ main = "running"
    /\ accepting = TRUE
    /\ client = None
    /\ reading = FALSE
    /\ m_ReceiveBuffer = [i \in 1 .. BufferSize |-> NUL]
    /\ m_WriteMessage = <<>>
    /\ writes = <<>>
    /\ finished = <<>>
    /\ backlog = <<>>
    /\ link = [c \in Clients |-> "away"]
    /\ sent = 0
    /\ taken = 0
    /\ toClient = <<>>
    /\ replies = <<>>
    /\ overwritten = FALSE

(* handle_accept: PostReceive, and no further accept; an error does nothing.*)
HandleAccept ==
    /\ main = "running"
    /\ accepting
    /\ accepting' = FALSE
    /\ \/ /\ backlog # <<>>
          /\ client' = Head(backlog)
          /\ backlog' = Tail(backlog)
          /\ reading' = TRUE
          /\ m_ReceiveBuffer' = [i \in 1 .. BufferSize |-> NUL]
       \/ UNCHANGED <<client, backlog, reading, m_ReceiveBuffer>>
    /\ UNCHANGED <<main, link, sent, writeVars, taken, toClient>>

-----------------------------------------------------------------------------
(* PostReceive's memset, then the read's n bytes over its front.  (The     *)
(* model clears the buffer when the read completes.)                       *)
FilledNotCleared(n) ==    \* fault: no memset
    [i \in 1 .. BufferSize |-> IF i <= n THEN Byte(taken + i) ELSE m_ReceiveBuffer[i]]

Filled(n) ==
    [i \in 1 .. BufferSize |-> IF i <= n THEN Byte(taken + i) ELSE NUL]

(* The C string a buffer holds.                                            *)
CString(buf) == SubSeq(buf, 1, SelectInSeq(buf \o <<NUL>>, LAMBDA b : b = NUL) - 1)

(* sprintf_s calls the invalid parameter handler, which ends the process,  *)
(* when the text does not fit.                                             *)
FitsUnchecked(text) == TRUE    \* fault: a size that is too large

Fits(text) == Len(text) <= MaxText

Pieces == ToSet(writes \o finished)

Outdated(pieces) == [i \in DOMAIN pieces |-> [pieces[i] EXCEPT !.live = FALSE]]

(* m_WriteMessage is assigned and an async_write of it posted.             *)
Write(text) ==
    /\ m_WriteMessage' = text
    /\ writes' = Append(Outdated(writes), [text |-> text, done |-> 0, live |-> TRUE])
    /\ finished' = Outdated(finished)
    /\ overwritten' = (overwritten \/ \E w \in Pieces : w.done < Len(w.text))
    /\ replies' = Append(replies, text)

(* handle_receive without an error.                                        *)
HandleReceiveOnce ==    \* fault: no PostReceive at the end
    /\ main = "running"
    /\ reading
    /\ \E n \in 1 .. BufferSize :
          /\ n <= sent - taken
          /\ taken' = taken + n
          /\ m_ReceiveBuffer' = Filled(n)
    /\ LET text == CString(m_ReceiveBuffer')
       IN  \/ /\ Fits(text)
              /\ Write(<<RE>> \o text)
              /\ UNCHANGED main
           \/ /\ ~Fits(text)
              /\ main' = "aborted"
              /\ UNCHANGED writeVars
    /\ reading' = FALSE
    /\ UNCHANGED <<accepting, client, netVars, toClient>>

HandleReceive ==
    /\ main = "running"
    /\ reading
    /\ \E n \in 1 .. BufferSize :
          /\ n <= sent - taken
          /\ taken' = taken + n
          /\ m_ReceiveBuffer' = Filled(n)
    /\ LET text == CString(m_ReceiveBuffer')
       IN  \/ /\ Fits(text)
              /\ Write(<<RE>> \o text)
              /\ UNCHANGED main
           \/ /\ ~Fits(text)
              /\ main' = "aborted"
              /\ UNCHANGED writeVars
    /\ UNCHANGED <<reading, accepting, client, netVars, toClient>>

(* handle_receive with an error: end of file or reset, which may overtake  *)
(* bytes not yet read.  No further read is posted.                         *)
HandleReceiveError ==
    /\ main = "running"
    /\ reading
    /\ link[client] = "closed"
    /\ reading' = FALSE
    /\ UNCHANGED <<main, accepting, client, m_ReceiveBuffer, writeVars, netVars,
                   taken, toClient>>

(* A piece's handler: async_write posts what is left of its buffer behind  *)
(* what others have posted meanwhile, or calls handle_write, which is empty.*)
HandleWrite ==
    /\ main = "running"
    /\ finished # <<>>
    /\ finished' = Tail(finished)
    /\ LET w == Head(finished)
       IN  writes' = IF w.done < Len(w.text) THEN Append(writes, w) ELSE writes
    /\ UNCHANGED <<ioVars, m_WriteMessage, replies, overwritten, netVars, taken,
                   toClient>>

(* io_service.run() returns when nothing is outstanding.                   *)
RunReturns ==
    /\ main = "running"
    /\ ~accepting /\ ~reading
    /\ Pieces = {}
    /\ main' = "returned"
    /\ UNCHANGED <<accepting, client, reading, m_ReceiveBuffer, writeVars, netVars,
                   taken, toClient>>

-----------------------------------------------------------------------------
(* The network and the clients.                                            *)

(* What the memory of unit j of piece w may hold: once the string has been *)
(* assigned, or its memory freed by that, any of what was, is, or never was*)
(* the message.                                                            *)
Memory(w, j) ==
    IF w.live THEN {w.text[j]}
    ELSE {w.text[j], Junk} \cup (IF j \in DOMAIN m_WriteMessage
                                 THEN {m_WriteMessage[j]} ELSE {})

(* n units of the first piece posted are sent; to a client that has gone   *)
(* the rest of the write fails.                                            *)
Transmit ==
    /\ main = "running"
    /\ writes # <<>>
    /\ writes' = Tail(writes)
    /\ LET w == Head(writes) IN
       \/ /\ link[client] = "open"
          /\ \E n \in 1 .. Len(w.text) - w.done :
                /\ finished' = Append(finished, [w EXCEPT !.done = @ + n])
                /\ \E piece \in [1 .. n -> -2 .. MaxBytes] :
                      /\ \A j \in 1 .. n : piece[j] \in Memory(w, w.done + j)
                      /\ toClient' = toClient \o piece
       \/ /\ link[client] = "closed"
          /\ finished' = Append(finished, [w EXCEPT !.done = Len(w.text)])
          /\ UNCHANGED toClient
    /\ UNCHANGED <<ioVars, m_WriteMessage, replies, overwritten, netVars, taken>>

ClientConnect(c) ==
    /\ link[c] = "away"
    /\ main = "running"
    /\ link' = [link EXCEPT ![c] = "open"]
    /\ backlog' = Append(backlog, c)
    /\ UNCHANGED <<ioVars, writeVars, sent, taken, toClient>>

ClientSend ==
    /\ client # None /\ link[client] = "open"
    /\ sent < MaxBytes
    /\ sent' = sent + 1
    /\ UNCHANGED <<ioVars, writeVars, backlog, link, taken, toClient>>

ClientClose(c) ==
    /\ link[c] = "open"
    /\ link' = [link EXCEPT ![c] = "closed"]
    /\ UNCHANGED <<ioVars, writeVars, backlog, sent, taken, toClient>>

-----------------------------------------------------------------------------
Next ==
    \/ HandleAccept
    \/ HandleReceive
    \/ HandleReceiveError
    \/ HandleWrite
    \/ RunReturns
    \/ Transmit
    \/ \E c \in Clients : ClientConnect(c) \/ ClientClose(c)
    \/ ClientSend

Spec == Init /\ [][Next]_vars

(* io_context::run executes what stays ready, the kernel transmits.  That  *)
(* an accept completes asks for a connection.                              *)
Fairness ==
    /\ WF_vars(backlog # <<>> /\ HandleAccept)
    /\ WF_vars(HandleReceive \/ HandleReceiveError)
    /\ WF_vars(HandleWrite)
    /\ WF_vars(RunReturns)
    /\ WF_vars(Transmit)

FairSpec == Spec /\ Fairness

-----------------------------------------------------------------------------
Unit == {RE, NUL} \cup 1 .. MaxBytes
Piece == [text : Seq(Unit), done : Nat, live : BOOLEAN]

TypeOK ==
    /\ main \in {"running", "returned", "aborted"}
    /\ accepting \in BOOLEAN /\ reading \in BOOLEAN /\ overwritten \in BOOLEAN
    /\ client \in Clients \cup {None}
    /\ m_ReceiveBuffer \in [1 .. BufferSize -> Unit]
    /\ m_WriteMessage \in Seq(Unit) /\ Len(m_WriteMessage) <= MaxText + 1
    /\ writes \in Seq(Piece) /\ finished \in Seq(Piece)
    /\ \A w \in Pieces : w.done <= Len(w.text)
    /\ backlog \in Seq(Clients)
    /\ link \in [Clients -> {"away", "open", "closed"}]
    /\ sent \in 0 .. MaxBytes /\ taken \in 0 .. sent
    /\ toClient \in Seq(Unit \cup {Junk})
    /\ replies \in Seq(Seq(Unit))

Answered == FlattenSeq(replies)

(* Each reply is "RE:" and bytes that follow one another in the client's   *)
(* stream, and no byte is in two replies: nothing of an earlier receive is *)
(* left in the buffer.                                                     *)
RepliesAreFresh ==
    \A i \in DOMAIN replies :
        /\ \A j \in 3 .. Len(replies[i]) : replies[i][j] = replies[i][j - 1] + 1
        /\ \A k \in 1 .. i - 1 : \A a \in 2 .. Len(replies[k]) :
              \A b \in 2 .. Len(replies[i]) : replies[k][a] < replies[i][b]

(* As long as no reply was assigned over one that was still being sent,    *)
(* the client has received fresh replies one after another, and with       *)
(* nothing outstanding all of them.  After such an overlap only the number *)
(* of bytes is right.  (PostReceive's memset, handle_receive, async_write) *)
RepliesExact ==
    /\ RepliesAreFresh
    /\ client # None /\ link[client] = "open" =>
          /\ ~overwritten => IsPrefix(toClient, Answered)
          /\ Len(toClient) <= Len(Answered)
          /\ Pieces = {} => Len(toClient) = Len(Answered)

ClientGone == client # None /\ link[client] = "closed"

EverythingIsRead ==
    \A k \in 1 .. MaxBytes :
        client # None /\ taken < k /\ sent >= k
        ~> taken >= k \/ ClientGone \/ main = "aborted"

EndsWithItsClient == ClientGone ~> main # "running"

(* A run of the server is for one client.  What that sends is read,        *)
(* whatever became of the writes before, unless it leaves or a text too    *)
(* long ends the server; and when it has left, io_service.run() returns,   *)
(* whoever else waits in the backlog.                                      *)
(* (handle_accept, handle_receive, with and without an error)              *)
ServesOneClient == EverythingIsRead /\ EndsWithItsClient
=============================================================================
