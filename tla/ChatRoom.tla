------------------------------ MODULE ChatRoom ------------------------------
(***************************************************************************)
(* What the chat server promises, without sessions, sockets or queues: one *)
(* history of messages, and members who each see what is said from the     *)
(* time they join until they leave, without a gap and in the one order of  *)
(* the history.                                                            *)
(***************************************************************************)
EXTENDS Integers, Sequences

CONSTANTS
    Clients,
    MaxHistory    \* bound: the messages Delivery speaks of

VARIABLES
    member,     \* member[c]: "out", "in" or "left"
    history,    \* the authors of the messages, in the order they were said
    from,       \* from[c]: length of the history when c joined
    seen        \* seen[c]: positions in the history of what c has seen

vars == <<member, history, from, seen>>

Init ==
    /\ member = [c \in Clients |-> "out"]
    /\ history = <<>>
    /\ from = [c \in Clients |-> 0]
    /\ seen = [c \in Clients |-> {}]

Join(c) ==
    /\ member[c] = "out"
    /\ member' = [member EXCEPT ![c] = "in"]
    /\ from' = [from EXCEPT ![c] = Len(history)]
    /\ UNCHANGED <<history, seen>>

Say(c) ==
    /\ member[c] = "in"
    /\ history' = Append(history, c)
    /\ UNCHANGED <<member, from, seen>>

(* The first message since it joined that c has not seen.                  *)
Deliver(c) ==
    /\ member[c] = "in"
    /\ \E k \in from[c] + 1 .. Len(history) :
          /\ \A j \in from[c] + 1 .. k : j \in seen[c] <=> j # k
          /\ seen' = [seen EXCEPT ![c] = @ \cup {k}]
    /\ UNCHANGED <<member, history, from>>

Leave(c) ==
    /\ member[c] = "in"
    /\ member' = [member EXCEPT ![c] = "left"]
    /\ UNCHANGED <<history, from, seen>>

Next == \E c \in Clients : Join(c) \/ Say(c) \/ Deliver(c) \/ Leave(c)

Spec == Init /\ [][Next]_vars

(* Every member sees every message said since it joined, or leaves.        *)
Delivery ==
    \A c \in Clients, k \in 1 .. MaxHistory :
        member[c] = "in" /\ from[c] < k /\ k <= Len(history)
        ~> k \in seen[c] \/ member[c] = "left"
=============================================================================
