---------------------------- MODULE PacketFraming ----------------------------
(***************************************************************************)
(* How Session::handle_receive (ServerSession.cpp) cuts packets out of the *)
(* byte stream of a TCP connection; ChatClient::handle_receive is the same *)
(* code.  A read brings in any number of bytes, from a part of a header to *)
(* several packets; what is not yet a whole packet stays in m_PacketBuffer *)
(* until the next read.                                                    *)
(*                                                                         *)
(* A byte is its position in the stream of the connection, from 1;  Stale  *)
(* is a byte that no read of this connection has put there.                *)
(***************************************************************************)
EXTENDS Integers, Sequences

CONSTANTS
    HeaderLen,         \* sizeof(PACKET_HEADER)
    MAX_RECEIVE_BUFFER_LEN,
    NPackets,          \* bound: packets sent on one connection
    MaxConnections     \* bound: connections served by this session, in turn

RB == MAX_RECEIVE_BUFFER_LEN

ASSUME SizeAssumption == /\ HeaderLen \in Nat \ {0}
                         /\ MAX_RECEIVE_BUFFER_LEN \in Nat
                         /\ HeaderLen <= MAX_RECEIVE_BUFFER_LEN
ASSUME BoundAssumption == NPackets \in Nat /\ MaxConnections \in Nat \ {0}

Stale == 0

(* The packets of a connection: packet k is bytes cut[k-1]+1 .. cut[k].    *)
(* Every packet has a header and fits the receive buffer (Protocol.h).     *)
(* (The last conjunct follows from the second, by induction.)              *)
Streams ==
    {f \in [0 .. NPackets -> 0 .. NPackets * RB] :
        /\ f[0] = 0
        /\ \A k \in 1 .. NPackets : f[k] - f[k - 1] \in HeaderLen .. RB
        /\ \A j, k \in 0 .. NPackets : j < k => f[j] < f[k]}

VARIABLES
    cut,                  \* what the peer of this connection sends
    received,             \* bytes of it that reads have brought in
    m_PacketBuffer,
    m_nPacketBufferMark,
    nPacketData,          \* locals of handle_receive
    nReadData,
    pc,                   \* "idle" between handlers, "loop" in the packet loop
    processed,            \* history: the arguments of ProcessPacket
    connections           \* connections so far (for MaxConnections)

vars == <<cut, received, m_PacketBuffer, m_nPacketBufferMark, nPacketData,
          nReadData, pc, processed, connections>>

Slots == 0 .. 2 * RB - 1

(* nSize of the header at a position of the buffer: the size of the packet *)
(* that starts there; if none does, any value can stand there.             *)
IsPacketAt(pos, k) ==
    \A j \in 0 .. HeaderLen - 1 : m_PacketBuffer[pos + j] = cut[k - 1] + 1 + j
NSizeAt(pos) ==
    LET here == {k \in 1 .. NPackets : IsPacketAt(pos, k)}
    IN  IF here = {} THEN 0 .. 2 * RB
        ELSE {cut[k] - cut[k - 1] : k \in here}

-----------------------------------------------------------------------------
Init ==
    /\ cut \in Streams
    /\ received = 0
    /\ m_PacketBuffer = [i \in Slots |-> Stale]
    /\ m_nPacketBufferMark = 0
    /\ nPacketData = 0
    /\ nReadData = 0
    /\ pc = "idle"
    /\ processed = <<>>
    /\ connections = 1

NoPacketComplete ==
    \/ nPacketData < HeaderLen
    \/ /\ nPacketData >= HeaderLen
       /\ \E nSize \in NSizeAt(nReadData) : nSize > nPacketData

(* handle_receive up to the loop: the n bytes read go behind the mark.     *)
HandleReceive(n) ==
    /\ pc = "idle"
    /\ received + n <= cut[NPackets]
    /\ m_PacketBuffer' =
         [i \in Slots |-> IF i \in m_nPacketBufferMark .. m_nPacketBufferMark + n - 1
                          THEN received + 1 + (i - m_nPacketBufferMark)
                          ELSE m_PacketBuffer[i]]
    /\ received' = received + n
    /\ nPacketData' = m_nPacketBufferMark + n
    /\ nReadData' = 0
    /\ pc' = "loop"
    /\ UNCHANGED <<cut, m_nPacketBufferMark, processed, connections>>

(* One turn of the loop: a whole packet.                                   *)
ProcessPacketUnchecked(nSize) ==    \* fault: nSize is not compared
    /\ pc = "loop"
    /\ nPacketData > 0
    /\ nPacketData >= HeaderLen
    /\ nSize \in NSizeAt(nReadData)
    /\ processed' =
         Append(processed, [i \in 1 .. nSize |-> m_PacketBuffer[nReadData + i - 1]])
    /\ nPacketData' = nPacketData - nSize
    /\ nReadData' = nReadData + nSize
    /\ UNCHANGED <<cut, received, m_PacketBuffer, m_nPacketBufferMark, pc, connections>>

ProcessPacket(nSize) ==
    /\ pc = "loop"
    /\ nPacketData > 0
    /\ nPacketData >= HeaderLen
    /\ nSize \in NSizeAt(nReadData)
    /\ nSize <= nPacketData
    /\ processed' =
         Append(processed, [i \in 1 .. nSize |-> m_PacketBuffer[nReadData + i - 1]])
    /\ nPacketData' = nPacketData - nSize
    /\ nReadData' = nReadData + nSize
    /\ UNCHANGED <<cut, received, m_PacketBuffer, m_nPacketBufferMark, pc, connections>>

(* The loop ends: nothing left, part of a header, or part of a packet.  The*)
(* rest moves, by way of TempBuffer, to the front of the buffer.           *)
KeepInPlace ==    \* fault: the rest is not moved to the front
    /\ pc = "loop"
    /\ NoPacketComplete
    /\ m_nPacketBufferMark' = nReadData + nPacketData
    /\ pc' = "idle"
    /\ nPacketData' = 0
    /\ nReadData' = 0
    /\ UNCHANGED <<cut, received, m_PacketBuffer, processed, connections>>

KeepHeader ==    \* fault: <= instead of < in the test for a whole header
    /\ pc = "loop"
    /\ NoPacketComplete \/ nPacketData <= HeaderLen
    /\ m_PacketBuffer' =
         [i \in Slots |-> IF i < nPacketData THEN m_PacketBuffer[nReadData + i]
                          ELSE m_PacketBuffer[i]]
    /\ m_nPacketBufferMark' = nPacketData
    /\ pc' = "idle"
    /\ nPacketData' = 0
    /\ nReadData' = 0
    /\ UNCHANGED <<cut, received, processed, connections>>

KeepLooping ==    \* fault: continue instead of break
    /\ pc = "loop"
    /\ nPacketData = 0
    /\ m_nPacketBufferMark' = 0
    /\ pc' = "idle"
    /\ nReadData' = 0
    /\ UNCHANGED <<cut, received, m_PacketBuffer, nPacketData, processed, connections>>

Keep ==
    /\ pc = "loop"
    /\ NoPacketComplete
    /\ m_PacketBuffer' =
         [i \in Slots |-> IF i < nPacketData THEN m_PacketBuffer[nReadData + i]
                          ELSE m_PacketBuffer[i]]
    /\ m_nPacketBufferMark' = nPacketData
    /\ pc' = "idle"
    /\ nPacketData' = 0
    /\ nReadData' = 0
    /\ UNCHANGED <<cut, received, processed, connections>>

(* The connection ends, with any part of a packet received, and the session*)
(* gets another: Session::Init resets the mark, not the buffer.            *)
SessionInitKeepsMark ==    \* fault: the mark is not reset
    /\ pc = "idle"
    /\ connections < MaxConnections
    /\ connections' = connections + 1
    /\ cut' \in Streams
    /\ received' = 0
    /\ m_PacketBuffer' = [i \in Slots |-> Stale]
    /\ processed' = <<>>
    /\ UNCHANGED <<m_nPacketBufferMark, nPacketData, nReadData, pc>>

SessionInit ==
    /\ pc = "idle"
    /\ connections < MaxConnections
    /\ connections' = connections + 1
    /\ cut' \in Streams
    /\ received' = 0
    /\ m_PacketBuffer' = [i \in Slots |-> Stale]
    /\ m_nPacketBufferMark' = 0
    /\ processed' = <<>>
    /\ UNCHANGED <<nPacketData, nReadData, pc>>

Loop == (\E nSize \in 0 .. 2 * RB : ProcessPacket(nSize)) \/ Keep

Next == \/ \E n \in 1 .. RB : HandleReceive(n)
        \/ Loop
        \/ SessionInit

Spec == Init /\ [][Next]_vars
FairSpec == Spec /\ WF_vars(Loop)    \* a running handler goes on

-----------------------------------------------------------------------------
TypeOK ==
    /\ cut \in Streams
    /\ received \in 0 .. cut[NPackets]
    /\ m_PacketBuffer \in [Slots -> Nat]
    /\ m_nPacketBufferMark \in 0 .. 2 * RB
    /\ nPacketData \in 0 .. 2 * RB
    /\ nReadData \in 0 .. 2 * RB
    /\ pc \in {"idle", "loop"}
    /\ processed \in Seq(Seq(Nat))
    /\ connections \in 1 .. MaxConnections

(* However the stream is cut into reads, ProcessPacket is called with the  *)
(* packets that were sent, whole, in order and once; never with a byte that*)
(* an earlier connection or packet left in the buffer.                     *)
PacketsIntact ==
    /\ Len(processed) <= NPackets
    /\ \A k \in DOMAIN processed :
          processed[k] = [i \in 1 .. cut[k] - cut[k - 1] |-> cut[k - 1] + i]

(* When handle_receive returns, every packet that has arrived whole has    *)
(* been processed: none waits for bytes that come after it.                *)
NoneHeldBack ==
    pc = "idle" => \A k \in 1 .. NPackets :
                      cut[k] <= received => k <= Len(processed)

(* The two fixed buffers are never exceeded: a full read behind the mark   *)
(* fits m_PacketBuffer, and the rest that is kept fits TempBuffer.         *)
BuffersSuffice ==
    /\ pc = "idle" => m_nPacketBufferMark + RB <= 2 * RB
    /\ pc = "loop" => nReadData + nPacketData <= 2 * RB
    /\ pc = "loop" /\ NoPacketComplete => nPacketData <= RB

(* The packet loop always ends.                                            *)
HandlerReturns == pc = "loop" ~> pc = "idle"
=============================================================================
