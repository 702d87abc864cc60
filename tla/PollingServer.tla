---------------------------- MODULE PollingServer ----------------------------
(***************************************************************************)
(* The echo servers on non-blocking Winsock sockets: main of src/server.cpp*)
(* and of portfolio/server.cpp.  One thread polls: accept, then recv and   *)
(* send with the one client accepted, until it goes; then accept again.    *)
(*                                                                         *)
(* They differ in accept when nobody waits (WSAEWOULDBLOCK): server.cpp    *)
(* tries again, portfolio/server.cpp, where that is commented out, ends.   *)
(* recv and send that would block are tried again by both, which changes   *)
(* nothing and is no step here.                                            *)
(***************************************************************************)
EXTENDS Integers, Sequences, FiniteSets, SequencesExt

CONSTANTS
    Clients,
    BufferSize,    \* size of recvBuffer
    PacketSize,    \* PACKET_SIZE, what recv may store: more, in server.cpp
    Zeros,         \* positions of a client's stream at which it sends '\0'
    MaxBytes,      \* bound: bytes a client sends
    None

ASSUME BufferAssumption == BufferSize \in Nat \ {0} /\ PacketSize \in Nat
ASSUME StreamAssumption == MaxBytes \in Nat /\ Zeros \subseteq 1 .. MaxBytes
ASSUME NoneAssumption   == None \notin Clients

VARIABLES
    retries,       \* TRUE: server.cpp; FALSE: portfolio/server.cpp
    pc,            \* "accept", "recv", "send", "ended"; "undefined" once recv
                   \* has written past recvBuffer
    hClient,       \* the client accepted last; its socket is never closed
    recvBuffer,    \* never cleared: the stack keeps it from one recv to the next
    backlog,       \* connections the kernel has established, not yet accepted
    link,          \* link[c]: "away", "open" or "closed", as the client sees it
    sent,          \* sent[c]: bytes c has sent
    taken,         \* taken[c]: how many of them recv has taken
    echoed,        \* echoed[c]: what c has received
    due,           \* history: what c is to receive, each recv up to its first '\0'
    bare,          \* history: a recv brought no '\0'
    short          \* history: a send to c took less than it was given, or failed

netVars == <<backlog, link, sent>>
vars == <<retries, pc, hClient, recvBuffer, netVars, taken, echoed, due, bare, short>>

NUL == <<None, 0>>
Junk == <<None, 1>>    \* memory nothing was received into

Byte(c, k) == IF k \in Zeros THEN NUL ELSE <<c, k>>

(* The n bytes a recv takes from c's stream.                               *)
Taken(c, n) == [i \in 1 .. n |-> Byte(c, taken[c] + i)]

(* strlen runs on into what earlier recvs left, and past the end.          *)
CString(s) == SubSeq(s, 1, SelectInSeq(s, LAMBDA b : b = NUL) - 1)
ToSendAll == recvBuffer    \* fault: sizeof(recvBuffer)

ToSend == CString(recvBuffer \o <<Junk, NUL>>)

-----------------------------------------------------------------------------
(* socket, ioctlsocket, bind and listen have succeeded.                    *)
Init ==
    /\ retries \in BOOLEAN
    /\ pc = "accept"
    /\ hClient = None
    /\ recvBuffer \in [1 .. BufferSize -> {NUL, Junk}]
    /\ backlog = <<>>
    /\ link = [c \in Clients |-> "away"]
    /\ sent = [c \in Clients |-> 0]
    /\ taken = [c \in Clients |-> 0]
    /\ echoed = [c \in Clients |-> <<>>]
    /\ due = [c \in Clients |-> <<>>]
    /\ bare = FALSE
    /\ short = [c \in Clients |-> FALSE]

Accept ==
    /\ pc = "accept"
    /\ backlog # <<>>
    /\ pc' = "recv"
    /\ hClient' = Head(backlog)
    /\ backlog' = Tail(backlog)
    /\ UNCHANGED <<retries, recvBuffer, link, sent, taken, echoed, due, bare, short>>

(* INVALID_SOCKET: nobody waits, or the connection is gone already.        *)
AcceptFails ==
    /\ pc = "accept"
    /\ \/ backlog = <<>> /\ ~retries
       \/ backlog # <<>> /\ link[Head(backlog)] = "closed"
    /\ pc' = "ended"
    /\ UNCHANGED <<retries, hClient, recvBuffer, netVars, taken, echoed, due, bare, short>>

(* recvLen > 0.                                                            *)
StoredTerminated(n) ==    \* fault: recvBuffer[recvLen] = 0
    [i \in 1 .. (IF n < BufferSize THEN BufferSize ELSE n + 1) |->
        IF i <= n THEN Byte(hClient, taken[hClient] + i)
        ELSE IF i = n + 1 THEN NUL ELSE recvBuffer[i]]

Stored(n) ==
    [i \in 1 .. BufferSize |->
        IF i <= n THEN Byte(hClient, taken[hClient] + i) ELSE recvBuffer[i]]

Recv ==
    /\ pc = "recv"
    /\ \E n \in 1 .. PacketSize :
          /\ n <= sent[hClient] - taken[hClient]
          /\ taken' = [taken EXCEPT ![hClient] = @ + n]
          /\ due' = [due EXCEPT ![hClient] = @ \o CString(Append(Taken(hClient, n), NUL))]
          /\ bare' = (bare \/ NUL \notin Range(Taken(hClient, n)))
          /\ \/ /\ n <= BufferSize
                /\ recvBuffer' = Stored(n)
                /\ pc' = "send"
             \/ /\ n > BufferSize /\ retries
                /\ pc' = "undefined"
                /\ UNCHANGED recvBuffer
    /\ UNCHANGED <<retries, hClient, netVars, echoed, short>>

(* recvLen = 0 or an error: the client has gone.  A reset overtakes bytes  *)
(* not yet taken.                                                          *)
RecvEndsAgain ==    \* fault: recvLen == 0 is polled again
    /\ pc = "recv"
    /\ link[hClient] = "closed"
    /\ taken[hClient] < sent[hClient]
    /\ pc' = "accept"
    /\ UNCHANGED <<retries, hClient, recvBuffer, netVars, taken, echoed, due, bare, short>>

RecvEnds ==
    /\ pc = "recv"
    /\ link[hClient] = "closed"
    /\ pc' = "accept"
    /\ UNCHANGED <<retries, hClient, recvBuffer, netVars, taken, echoed, due, bare, short>>

(* send takes any number of the bytes it is given; what it did not take is *)
(* not sent again.  It fails once the client has gone.                     *)
SendGivesUp ==    \* fault: WSAEWOULDBLOCK ends the loop
    /\ pc = "send"
    /\ pc' = "recv"
    /\ \/ UNCHANGED echoed
       \/ echoed' = [echoed EXCEPT ![hClient] = @ \o ToSend]
    /\ UNCHANGED <<retries, hClient, recvBuffer, netVars, taken, due, bare, short>>

Send ==
    /\ pc = "send"
    /\ pc' = "recv"
    /\ \/ /\ link[hClient] = "open"
          /\ \E n \in 0 .. Len(ToSend) :
                /\ n = 0 => ToSend = <<>>
                /\ echoed' = [echoed EXCEPT ![hClient] = @ \o SubSeq(ToSend, 1, n)]
                /\ short' = [short EXCEPT ![hClient] = @ \/ n < Len(ToSend)]
       \/ /\ link[hClient] = "closed"
          /\ short' = [short EXCEPT ![hClient] = TRUE]
          /\ UNCHANGED echoed
    /\ UNCHANGED <<retries, hClient, recvBuffer, netVars, taken, due, bare>>

-----------------------------------------------------------------------------
(* The clients.                                                            *)
ClientConnect(c) ==
    /\ link[c] = "away"
    /\ link' = [link EXCEPT ![c] = "open"]
    /\ backlog' = Append(backlog, c)
    /\ UNCHANGED <<retries, pc, hClient, recvBuffer, sent, taken, echoed, due, bare, short>>

ClientSend(c) ==
    /\ link[c] = "open"
    /\ sent[c] < MaxBytes
    /\ sent' = [sent EXCEPT ![c] = @ + 1]
    /\ UNCHANGED <<retries, pc, hClient, recvBuffer, backlog, link, taken, echoed,
                   due, bare, short>>

ClientClose(c) ==
    /\ link[c] = "open"
    /\ link' = [link EXCEPT ![c] = "closed"]
    /\ UNCHANGED <<retries, pc, hClient, recvBuffer, backlog, sent, taken, echoed,
                   due, bare, short>>

-----------------------------------------------------------------------------
Gone(c) == c # None /\ link[c] = "closed"

Server == Accept \/ AcceptFails \/ Recv \/ RecvEnds \/ Send

Next ==
    \/ Server
    \/ \E c \in Clients : ClientConnect(c) \/ ClientSend(c) \/ ClientClose(c)

Spec == Init /\ [][Next]_vars

(* The thread keeps polling.  Nothing says that send to a client that stays*)
(* and may not read goes through.                                          *)
FairSpec ==
    Spec /\ WF_vars(Accept \/ AcceptFails \/ Recv \/ RecvEnds \/ (Gone(hClient) /\ Send))

-----------------------------------------------------------------------------
Unit == {NUL, Junk} \cup (Clients \X (1 .. MaxBytes))

TypeOK ==
    /\ retries \in BOOLEAN
    /\ pc \in {"accept", "recv", "send", "ended", "undefined"}
    /\ hClient \in Clients \cup {None}
    /\ pc \in {"recv", "send"} => hClient # None
    /\ recvBuffer \in [1 .. BufferSize -> Unit]
    /\ backlog \in Seq(Clients)
    /\ link \in [Clients -> {"away", "open", "closed"}]
    /\ \A c \in Clients : sent[c] \in 0 .. MaxBytes /\ taken[c] \in 0 .. sent[c]
    /\ echoed \in [Clients -> Seq(Unit)]
    /\ due \in [Clients -> Seq(Unit)]
    /\ bare \in BOOLEAN
    /\ short \in [Clients -> BOOLEAN]

(* Nothing is about to be sent to c, and no send to it took less than it   *)
(* was given.                                                              *)
Settled(c) == ~short[c] /\ pc # "undefined" /\ ~(pc = "send" /\ hClient = c)

(* How many of due[c], in order, have come back to c among what it got.    *)
Returned(c) ==
    FoldLeft(LAMBDA k, b : IF k < Len(due[c]) /\ due[c][k + 1] = b THEN k + 1 ELSE k,
             0, echoed[c])

(* The bytes taken from c that are not to come back to it.                 *)
Dropped(c) == {k \in (1 .. taken[c]) \ Zeros : <<c, k>> \notin Range(due[c])}

(* The text of every recv, that is, its bytes up to its first '\0', has    *)
(* come back to its client in order, whatever stale bytes came between,    *)
(* unless a send to it took less than it was given; only the chunk about to*)
(* be sent is missing.  The bytes a recv brings behind a '\0' never come   *)
(* back, but these are all that is dropped: a byte is only if the one      *)
(* before it is a '\0' or was dropped.  (the recv and send loops; strlen)  *)
TextComesBack ==
    \A c \in Clients : /\ Settled(c) => Returned(c) = Len(due[c])
                       /\ \A k \in Dropped(c) : k - 1 \in Zeros \cup Dropped(c)

(* As long as every recv has brought a '\0', a client gets back just the   *)
(* text of each, up to its first '\0', and nothing that earlier ones, its  *)
(* own or another client's, have left in recvBuffer.  (strlen(recvBuffer)) *)
ExactIfTerminated ==
    \A c \in Clients :
        ~bare /\ Settled(c) => echoed[c] = due[c]

(* Who waits is accepted once the clients before it go, as long as no      *)
(* waiting client goes itself: accept is then tried again, and no client's *)
(* end is mistaken for the server's.  (server.cpp, the loops' continue and *)
(* break)                                                                  *)
NextIsAccepted ==
    /\ []<>(pc = "accept" \/ Gone(hClient))
    /\ [](\A c \in Clients : c \in ToSet(backlog) => link[c] = "open")
    /\ [](retries /\ pc # "undefined")
    => \A c \in Clients : c \in ToSet(backlog) ~> c \notin ToSet(backlog)
=============================================================================
