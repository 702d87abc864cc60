------------------------------ MODULE ChatPeer ------------------------------
(***************************************************************************)
(* How a client uses its connection to the chat server, without threads,   *)
(* locks or queues: it sends names until it sends a message, and messages  *)
(* only once the server has sent it a RES_IN.  ChatServer's clients do all  *)
(* that and more (ClientSend), and ChatClient is shown to do nothing else. *)
(* Whose login the RES_IN confirmed is left open: a session of ChatServer  *)
(* that is used again may still send its last client's.                    *)
(***************************************************************************)
EXTENDS Naturals, Sequences

VARIABLES
    requests,    \* what the client has sent, in order: "REQ_IN" or "REQ_CHAT"
    served       \* what the server has sent, in order

vars == <<requests, served>>

Confirmed == \E i \in DOMAIN served : served[i] = "RES_IN"
Talking == \E i \in DOMAIN requests : requests[i] = "REQ_CHAT"

Init == requests = <<>> /\ served = <<>>

Login ==
    /\ ~Talking
    /\ requests' = Append(requests, "REQ_IN")
    /\ UNCHANGED served

Say ==
    /\ Confirmed
    /\ requests' = Append(requests, "REQ_CHAT")
    /\ UNCHANGED served

(* The server sends what it likes, asked or not.                           *)
Serve ==
    /\ \E pkt \in {"RES_IN", "NOTICE_CHAT"} : served' = Append(served, pkt)
    /\ UNCHANGED requests

Next == Login \/ Say \/ Serve

Spec == Init /\ [][Next]_vars
=============================================================================
