--------------------------- MODULE ChatServerRoom ---------------------------
(***************************************************************************)
(* ChatServer implements ChatRoom.  A client is a member while a session   *)
(* with an open socket is its own; what it has seen are the notices it has *)
(* received that were broadcast after it was accepted.  (A session used a  *)
(* second time also sends it notices from before: the room knows nothing   *)
(* of them.)                                                               *)
(***************************************************************************)
EXTENDS ChatServer

MaxChat == MaxPackets * Cardinality(Clients)

RoomMember(c) ==
    IF \E s \in Open : peer[s] = c THEN "in"
    ELSE IF link[c] = "away" \/ c \in Range(backlog) THEN "out"
    ELSE "left"

Room == INSTANCE ChatRoom WITH
            MaxHistory <- MaxChat,
            member  <- [c \in Clients |-> RoomMember(c)],
            history <- [k \in DOMAIN chat |-> chat[k].text],
            from    <- joined,
            seen    <- [c \in Clients |-> {k \in joined[c] + 1 .. Len(chat) :
                                              Notice(k) \in Range(s2c[c])}]

(* Whatever sessions are opened, closed and used again, and however far    *)
(* behind their queues are, every step is one of the room: clients see the *)
(* messages in one order, none is skipped, and nobody speaks or hears      *)
(* before it has joined or after it has left.                              *)
(* (handle_accept, ProcessPacket, closeSession, PostSend, handle_write)    *)
ImplementsRoom == Room!Spec

(* Every message broadcast while a client is on a session reaches it, or   *)
(* its session is closed: every completed write posts the next, whatever   *)
(* its error, and a broken connection is noticed.                          *)
(* (handle_write, handle_receive)                                          *)
MembersSeeAll == Room!Delivery
=============================================================================
