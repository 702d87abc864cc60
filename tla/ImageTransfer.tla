---------------------------- MODULE ImageTransfer ----------------------------
(***************************************************************************)
(* Sending images over one TCP connection: sendImage and the input loop of *)
(* tcp이미지 전송/Project1/testClient.cpp, the receive loop of               *)
(* testserverproject/testserverproject.cpp.                                *)
(*                                                                         *)
(* An image goes as its size followed by its bytes, with nothing between   *)
(* one image and the next, so client and server have to agree on every     *)
(* count.  Both ignore every error of the connection.                      *)
(***************************************************************************)
EXTENDS Integers, Sequences

CONSTANTS
    BufferSize,       \* of the client's and the server's buffer (1024)
    FileSizes,        \* bound: the sizes an image may have
    MaxImages         \* bound: images sent

ASSUME BufferAssumption == BufferSize \in Nat \ {0}
ASSUME BoundAssumption == FileSizes \subseteq Nat /\ MaxImages \in Nat

VARIABLES
    clientPc,         \* "input" | "size" | "chunks" | "gone"
    images,           \* history: the sizes of the images sent, the last one
                      \* perhaps still being sent
    offset,           \* client: bytes of the last image written
    wire,             \* written, not yet read: sizes [size |-> n] and bytes
                      \* [image |-> i, at |-> k]
    ended,            \* "no" | "eof" (the client has left; what it wrote can
                      \* still be read) | "reset" (it cannot)
    serverPc,         \* "size" | "open" | "bytes" | "exit"
    fileSize,         \* server: what is still to be read of the image
    file,             \* the contents of received_image.jpg
    received          \* history: the contents the server called received

clientVars == <<clientPc, images, offset>>
serverVars == <<serverPc, fileSize, file, received>>
vars == <<clientVars, wire, ended, serverVars>>

Byte(i, k) == [image |-> i, at |-> k]
Image(i) == [k \in 1 .. images[i] |-> Byte(i, k)]
Size(n) == [size |-> n]
Smaller(m, n) == IF m < n THEN m ELSE n

Init ==
    /\ clientPc = "input"
    /\ images = <<>>
    /\ offset = 0
    /\ wire = <<>>
    /\ ended = "no"
    /\ serverPc = "size"
    /\ fileSize = 0
    /\ file = <<>>
    /\ received = <<>>

-----------------------------------------------------------------------------
(* The client.                                                             *)

(* "!img", and the file can be opened.                                     *)
BeginImage ==
    /\ clientPc = "input"
    /\ Len(images) < MaxImages
    /\ \E size \in FileSizes : images' = Append(images, size)
    /\ offset' = 0
    /\ clientPc' = "size"
    /\ UNCHANGED <<wire, ended, serverVars>>

(* What is written to a connection that has been reset is lost.            *)
Written(data) == IF ended = "no" THEN wire \o data ELSE wire

WriteSize ==
    /\ clientPc = "size"
    /\ wire' = Written(<<Size(images[Len(images)])>>)
    /\ clientPc' = "chunks"
    /\ UNCHANGED <<images, offset, ended, serverVars>>

Left == images[Len(images)] - offset
Chunk(n) == [k \in 1 .. n |-> Byte(Len(images), offset + k)]

(* Fault: the whole buffer is written, not gcount() bytes of it.           *)
WriteChunkWhole ==
    /\ clientPc = "chunks"
    /\ LET n == Smaller(Left, BufferSize) IN
          /\ wire' = Written(Chunk(BufferSize))
          /\ offset' = offset + n
    /\ clientPc' = IF Left < BufferSize THEN "input" ELSE "chunks"
    /\ UNCHANGED <<images, ended, serverVars>>

(* read, write of gcount() bytes.  eof() is set by a read that finds less  *)
(* than a buffer: a file of a multiple of BufferSize takes one more round, *)
(* of no bytes.                                                            *)
WriteChunk ==
    /\ clientPc = "chunks"
    /\ LET n == Smaller(Left, BufferSize) IN
          /\ wire' = Written(Chunk(n))
          /\ offset' = offset + n
    /\ clientPc' = IF Left < BufferSize THEN "input" ELSE "chunks"
    /\ UNCHANGED <<images, ended, serverVars>>

(* The client's process ends, at any point.                                *)
ClientLeaves ==
    /\ clientPc # "gone"
    /\ clientPc' = "gone"
    /\ ended' = IF ended = "no" THEN "eof" ELSE ended
    /\ UNCHANGED <<images, offset, wire, serverVars>>

ConnectionResets ==
    /\ ended = "no"
    /\ ended' = "reset"
    /\ wire' = <<>>
    /\ UNCHANGED <<clientVars, serverVars>>

-----------------------------------------------------------------------------
(* The server.                                                             *)

(* The size of the next image.  The eight bytes are read as a whole, or    *)
(* the read fails, and then fileSize, never initialized, has any value.    *)
ReadSize ==
    /\ serverPc = "size"
    /\ \/ /\ wire # <<>>
          /\ "size" \in DOMAIN Head(wire)
          /\ fileSize' = Head(wire).size
          /\ wire' = Tail(wire)
       \/ /\ wire = <<>>
          /\ ended # "no"
          /\ fileSize' \in FileSizes \cup {0}
          /\ UNCHANGED wire
    /\ serverPc' = "open"
    /\ UNCHANGED <<clientVars, ended, file, received>>

(* The ofstream truncates the file, or cannot be opened: return 1.         *)
OpenFile ==
    /\ serverPc = "open"
    /\ \/ /\ file' = <<>>
          /\ serverPc' = "bytes"
       \/ /\ serverPc' = "exit"
          /\ UNCHANGED file
    /\ UNCHANGED <<clientVars, wire, ended, fileSize, received>>

(* Fault: a whole buffer is read, also at the end of the image.            *)
ReadBytesWhole ==
    /\ serverPc = "bytes"
    /\ fileSize > 0
    /\ LET n == BufferSize IN
       \/ /\ Len(wire) >= n
          /\ file' = file \o SubSeq(wire, 1, n)
          /\ wire' = SubSeq(wire, n + 1, Len(wire))
          /\ fileSize' = fileSize - n
       \/ /\ Len(wire) < n
          /\ ended # "no"
          /\ file' = file \o wire
          /\ wire' = <<>>
          /\ fileSize' = fileSize - Len(wire)
    /\ UNCHANGED <<clientVars, ended, serverPc, received>>

(* Fault: a chunk counts in full although the read was cut short.          *)
ReadBytesCountAll ==
    /\ serverPc = "bytes"
    /\ fileSize > 0
    /\ LET n == Smaller(fileSize, BufferSize) IN
       /\ fileSize' = fileSize - n
       /\ \/ /\ Len(wire) >= n
             /\ file' = file \o SubSeq(wire, 1, n)
             /\ wire' = SubSeq(wire, n + 1, Len(wire))
          \/ /\ Len(wire) < n
             /\ ended # "no"
             /\ file' = file \o wire
             /\ wire' = <<>>
    /\ UNCHANGED <<clientVars, ended, serverPc, received>>

(* One asio::read: it returns with all it asked for, or with what there    *)
(* was when the connection ended.  The error is not looked at.             *)
ReadBytes ==
    /\ serverPc = "bytes"
    /\ fileSize > 0
    /\ LET n == Smaller(fileSize, BufferSize) IN
       \/ /\ Len(wire) >= n
          /\ file' = file \o SubSeq(wire, 1, n)
          /\ wire' = SubSeq(wire, n + 1, Len(wire))
          /\ fileSize' = fileSize - n
       \/ /\ Len(wire) < n
          /\ ended # "no"
          /\ file' = file \o wire
          /\ wire' = <<>>
          /\ fileSize' = fileSize - Len(wire)
    /\ UNCHANGED <<clientVars, ended, serverPc, received>>

(* Fault: a complete image is followed by one more read.                   *)
ImageReceivedLate ==
    /\ serverPc = "bytes"
    /\ fileSize = 0
    /\ wire # <<>>
    /\ received' = Append(received, file)
    /\ serverPc' = "size"
    /\ UNCHANGED <<clientVars, wire, ended, fileSize, file>>

(* "Image received".  (The history stops growing after MaxImages + 1: from *)
(* then on the loop repeats itself.)                                       *)
ImageReceived ==
    /\ serverPc = "bytes"
    /\ fileSize = 0
    /\ received' = IF Len(received) <= MaxImages THEN Append(received, file) ELSE received
    /\ serverPc' = "size"
    /\ UNCHANGED <<clientVars, wire, ended, fileSize, file>>

-----------------------------------------------------------------------------
ClientStep == BeginImage \/ WriteSize \/ WriteChunk
ServerStep == ReadSize \/ OpenFile \/ ReadBytes \/ ImageReceived
Next == ClientStep \/ ServerStep \/ ClientLeaves \/ ConnectionResets

Spec == Init /\ [][Next]_vars

(* Both processes run; an image once begun is written.                     *)
FairSpec == /\ Spec
            /\ WF_vars(WriteSize \/ WriteChunk)
            /\ WF_vars(ServerStep)

-----------------------------------------------------------------------------
(* fileSize is unsigned: it must never go below 0.                         *)
TypeOK ==
    /\ clientPc \in {"input", "size", "chunks", "gone"}
    /\ images \in Seq(FileSizes)
    /\ Len(images) <= MaxImages
    /\ images # <<>> => offset \in 0 .. images[Len(images)]
    /\ ended \in {"no", "eof", "reset"}
    /\ serverPc \in {"size", "open", "bytes", "exit"}
    /\ fileSize \in Nat

(* Client and server agree on where an image starts: the server looks for a*)
(* size exactly where one is, and finds none among the bytes it takes for  *)
(* an image, whatever the sizes are modulo the two buffers.                *)
(* (sendImage and the read loop)                                           *)
InStep ==
    /\ serverPc = "size" /\ wire # <<>> => "size" \in DOMAIN Head(wire)
    /\ serverPc \in {"open", "bytes"} =>
          \A k \in 1 .. Smaller(fileSize, Len(wire)) : "image" \in DOMAIN wire[k]

(* What the server calls received is, if it is not empty, the whole of an  *)
(* image that was sent: those sent, in order, with none left out.  So it   *)
(* never takes an image cut short by the end of the connection for one     *)
(* received.                                                               *)
ReceivedWhole ==
    \A j \in DOMAIN received :
        received[j] # <<>> => j <= Len(images) /\ received[j] = Image(j)

(* An image that has been sent is received, unless the connection or one of*)
(* the processes ends.                                                     *)
ImageArrives ==
    \A i \in 1 .. MaxImages :
        i <= Len(images) ~> Len(received) >= i \/ ended # "no" \/ serverPc = "exit"
=============================================================================
