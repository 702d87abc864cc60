# Verification of maybe_portfolio

TLA+ models, TLC runs and TLAPS proofs for the programs of this repository: a chat
server and client on Boost.Asio, a console Tetris, an image transfer, and smaller
networking exercises. The modules translate the source; where a comment in the source
and the code disagree, a run of kind "violation" shows it, or section 3 says so.

## 1. Inventory

| Component | Source | State it keeps | Operations | Status |
|---|---|---|---|---|
| Chat server | `TCPChatServer/ChatServer.h`, `ServerSession.cpp`, `ServerSession.h`, `Protocol.h` | pool of sessions, queue of free ids, `m_bIsAccepting`; per session: socket, send queue, receive buffer and mark, name | `Init`, `Start`, `PostAccept`, `handle_accept`, `closeSession`, `ProcessPacket`, `PostReceive`, `PostSend`, `handle_receive`, `handle_write` | `ChatServer`, `ChatRoom`, `ChatServerRoom` |
| Packet framing | `ServerSession.cpp:64-109`, `TCPChatClient/client.cpp:153-214` (same loop) | `m_PacketBuffer`, `m_nPacketBufferMark` | the loop of `handle_receive`, `Session::Init` | `PacketFraming` |
| Chat client | `TCPChatClient/client.cpp`; `tcp이미지 전송/Project1/client.cpp` is a copy | socket, send queue under `m_lock`, `m_bIsLogin`, receive buffer | input loop, `PostSend`, `handle_connect`, `handle_receive`, `handle_write`, `Close`, exit | `ChatClient`, `ChatPeer` |
| Tetris | `tetris/tetris/tetris.cpp` | board, block, clock and speed, score, level, flags | title, reset, play loop and all it calls | `Tetris` |
| Image transfer | `tcp이미지 전송/Project1/testClient.cpp`, `testserverproject/testserverproject.cpp` | socket; client: file position; server: `fileSize`, output file | `sendImage`, the server's receive loop | `ImageTransfer` |
| 1:1 echo server | `maybe_portfolio/server.cpp`; `maybe_portfolio/client.cpp` is the same program | one connection, `m_ReceiveBuffer`, `m_WriteMessage` | `StartAccept`, `handle_accept`, `PostReceive`, `handle_receive`, `handle_write`, end of `run` | `EchoServer` |
| Polling echo servers | `server.cpp`, `portfolio/server.cpp` | non-blocking listening socket, the client's socket, `recvBuffer` | the accept, recv and send loops of `main` | `PollingServer` |
| MyArray | `portfolio/study.cpp` | a tree of `Address` blocks over `int` blocks | constructors, copying, destruction, `[]`, reading and assigning through `Int` | `MyArray` |
| Echo servers of the chat project | `TCPChatServer/1:1 async chat/Server.cpp`, `TCPChatServer/serverproject.cpp` | as the 1:1 echo server | | not modelled (section 5) |
| Struct client, calculator pair, stubs, timer exercise, samples, abandoned code, project files | `portfolio/client.cpp`, `studyproject/`, `portfolio/chrono_time.cpp`, `TCPChatServer/실패코드`, ... | none worth checking | | not modelled (section 5) |

**Interactions.** Chat clients and the server talk over TCP with the packets of
`Protocol.h` (REQ_IN, RES_IN, REQ_CHAT, NOTICE_CHAT). In the server one thread runs the
`io_context`; all interaction inside it is by completion handlers, and `ProcessPacket`
calls `PostSend` of every open session. In the client, `main` and the `io_context` thread
share the send queue (guarded by `m_lock`), the socket and the login flag (unguarded).
`TCPChatServer/serverproject.cpp`, the server project's `main`, runs an echo server, not
`ChatServer`; `ChatServer` is modelled as a program that calls `Init` and `Start`. The echo
servers talk to any client that sends bytes. The image client and server have a connection
of their own; Tetris and MyArray talk to nobody.

**What is hard.** Completion handlers of a closed socket run when the session already
serves the next client; accepts fail; a client leaves with packets queued for it; packets
are cut anywhere by reads; the client's two threads meet between a pop and the next send;
the connection can be pending, refused or lost while lines are typed; in Tetris the
order of moving and testing, index arithmetic at the edges, a clock compared with `!=`;
in the image transfer, the counts on both sides and the end of the connection at any
point; in the echo servers, one string written while it is being sent, text whose end is a
zero that may be missing, and which error ends what; in MyArray, which block a pointer
leads to. `PROJECT.json` lists these hazards at their lines, each with the properties for it.

**What makes each component correct.** Chat server: no id lost or used twice, an accept
outstanding while an id is free, one read and at most one write per session, every
broadcast once and in one order to every connected client, under its author's name.
Framing: packets whole, in order, once, without waiting, inside the buffers. Client: one
write at a time started by exactly one thread, packets in order, no message before a
`RES_IN` and no name after a message, a clean exit. Tetris: nothing left behind by moves, full rows always go, level
and speed follow the score, blocks land. Image transfer: both sides agree where an image
begins; nothing incomplete is called received. Echo servers: the texts sent come back, to
their sender, and who should be served is. MyArray: a path reads what was written there,
copies are separate, a destructor frees its own tree.

## 2. Modules

Names follow the source: a variable `m_X` is the member `m_X`, an action is the handler
or function with its name, in CamelCase where the source has lower case. `PROJECT.json`
"map" gives the lines of each definition. Definitions marked *fault* are plausible bugs;
each is a variant of the definition after it and is used only to show that a
property can fail. They are not part of the specification.

* **ChatServer** - one action per completion handler; `handle_receive` is split into the
  turns of its packet loop (`handling` is the session whose handler is on the stack), so
  that the network moves during it, while no other handler does. `accepting`, `reading`
  and `writes` are the asynchronous operations outstanding. Closing a socket marks its
  writes as over (`.to = None`) but their handlers are still to run, as in Asio. Clients
  and kernel are the environment: connecting, sending, transmitting, leaving at any time.
  A message is identified by its author and its place in `chat`, the history of broadcasts.
* **ChatRoom** - what the chat server promises, without sessions, sockets or queues: one
  history of messages; members who join, speak, are shown the next message, and leave.
* **ChatServerRoom** - the refinement. A client is a member while an open session is its
  own; `history` is `chat` without the names; `from` is the length `chat` had when the
  client was accepted; it has `seen` the notices it received of messages after that. So
  `handle_accept` is `Join`, `REQ_CHAT` in `ProcessPacket` is `Say`, the transmission of a
  notice is `Deliver`, `closeSession` is `Leave`, and everything else is a stutter.
* **PacketFraming** - bytes are positions in the stream, so that a property can say
  *which* bytes came out; `Stale` is a byte of an earlier connection. If no packet
  starts where a header is read, `nSize` may be anything.
* **ChatClient** - `pc` and `ioPc` are the two threads. The critical sections are
  split at each access to the queue, so that the lock, not the model, makes them
  atomic. `socket` distinguishes connecting, refused, connected, broken and closed:
  `is_open()` is false only for the last. The server is left open (`ServerSends`): while
  connected it may send a `RES_IN` or a `NOTICE_CHAT` at any time, asked or not, since it
  sends the broadcasts of others, and on a session used again also what that still held for
  its last client (`server_reuse`).
* **ChatPeer** - how a client uses its connection: names until it sends a message, and
  messages only once the server has sent a `RES_IN`, whoever's login that answers. A client
  that is sent a former client's `RES_IN` takes its first line for a message, and so may
  send one without ever having given a name; `ChatPeer` allows that.
  `ChatClient` implements it (`FollowsProtocol`), with the packets on its
  connection as the requests. This is how the chat system is composed: the clients in
  `ChatServer` may send REQ_IN at any time and REQ_CHAT once a RES_IN has reached them,
  which includes all that `ChatPeer` allows; `ChatClient` assumes nothing about when its
  server sends what; and `PacketFraming` is why both
  may take packets as whole messages. There is no single state space of all of them.
* **Tetris** - one action per turn of the play loop, with all the calls it makes in their
  order. The board is the flat array C has, so that an index past the edge reads the
  next row, as in the program. The loops of `check_line` and of a hard drop are recursive
  functions of the rounds done, of which there are never more than rows; `check_row` and
  `drop_again` are one round. What `drop_block` returns after settling is `Garbage`; what
  `check_crash` says about the entry behind the last block type is either answer.
* **ImageTransfer** - client and server as processes joined by a stream of sizes and bytes;
  a failed read of the size leaves any value in `fileSize`.
* **EchoServer** - one action per completion handler, and `RunReturns` for the end of
  `io_service.run`. The client's bytes are their positions in its stream, and some of
  them are zeros. `async_write` is what Asio makes of it, pieces posted one after the
  other, each reading the string's memory when it is transmitted; once `m_WriteMessage`
  has been assigned again, a piece may find the old text, the new one, or neither.
* **PollingServer** - both programs, told apart by `retries`; one action per way through a
  round of a loop that changes anything. `recvBuffer` keeps what earlier receives left in
  it, and `strlen` runs on into that, or stops at a zero before the end of what `recv`
  brought. `due` is the history of what should come back: of each receive, its bytes up to the
  first zero. A `recv` past its end, possible in `server.cpp`
  (1024 bytes into 1000), ends the model in "undefined".
* **MyArray** - a heap of blocks and pointers into it; the functions with their names.
  Constructor, copy, assignment and destructor are the actions; a path of `[]` is
  evaluated by `At`. It uses recursive operators, as the code does.
* **MCxxx** modules are what TLC runs; **xxxProofs** modules hold the theorems.

## 3. Runs

| Run | Bounds | Shows |
|---|---|---|
| `server_safety` | 2 sessions, 3 clients, 2 packets each, accepts may fail | pool, reads and writes stay right when sessions are reused with packets pending; every broadcast once and in order, under the author's name; the server implements `ChatRoom` |
| `server_wait` | 1 session, 2 clients, 3 packets | who waits is accepted once clients leave; every member sees every message, also on a reused session (`ChatRoom`'s `Delivery`) |
| `server_reuse` (violation) | 1 session, 2 clients | a reused session still has packets of the last client (comment at `ChatServer.h:47`) |
| `server_accept_fail` (violation) | as above, accepts may fail | after a failed accept, closing a session resumes nothing (`ChatServer.h:49`) |
| `framing` | header 2, buffer 5, 3 packets, 2 connections | framing |
| `client` | 4 lines, 2 packets from the server | both threads, all outcomes of the connection, packets from the server at any time; the client implements `ChatPeer` |
| `tetris` | 6x8 board, all seven types, every pair of random blocks, 9 blocks, 2 turns per fall, 4 lines per level | moves, turns and drops leave nothing behind; the walls; rows, level and speed; blocks land |
| `image` | buffer of 2 bytes, images of 0 to 4 bytes, 3 images | counts, completeness, arrival |
| `echo` | 4 bytes, the first a zero; buffer of 3, text of at most 2; 2 clients | replies, overlapping writes, text that does not fit, one client per run |
| `array` | one to three dimensions (2; 2x2; 1x2x1; 2x1x2), 2 arrays | every path reads what was written there; copies; what a destructor deletes |
| `array_free` (violation) | as `array` | data arrays are deleted twice (`study.cpp:79`; comment at `study.cpp:16`) |
| `polling` | both programs; 2 clients of 4 bytes with zeros at 2 and 4; buffer of 2, receives of up to 3 | what comes back to whom, what is dropped, and who is accepted |

**Why the bounds are enough.** Two sessions and three clients give every way a session
can be full, freed, waited for and reused while another is in use; two packets are a
login and a message, three add a message on top of one pending. That who waits is served
shows with one session for two clients. Session ids are ordered by the queue, so symmetry is used for clients only, and in
no run with a liveness property. A buffer of 5 with headers of 2 lets a packet be a header
alone, cut inside the header or the body, and several in one read. Four lines in the client
fill the queue past the two that `PostSend` distinguishes; two packets from the server are a
`RES_IN` with one before or after it. A board six wide has four columns inside its walls:
the long block fills a row at once, two square blocks fill two rows together, and nine
blocks (the two random ones and then always type 1, as `new_block` sets `b_next`) pass
level 2; the ceiling, the window where blocks appear and the offsets from the edges are the code's.
Image sizes cover nothing, less than, exactly, and
more than one buffer, and exactly two. In the echo server four bytes are two receives of two,
with a zero before the first byte, or one of three, which is too long; the second
client shows that nobody serves it. In the polling server two strings of one byte are
received together, one by one, or cut before their zero, fill the buffer, or run past it.
The shapes of MyArray have a dimension of one and of two at each level; paths go one past
the end in each dimension. Bounds in the modules: `MaxPackets`, `NPackets`,
`MaxConnections`, `MaxChat` (what clients can say at most), `MaxLines`, `MaxReceived`, `RandomTypes`, `MaxPieces`, `MaxClock` (the clock stays there
once it has run past `speed`: the code would count until it overflows), `FileSizes`,
`MaxImages`, `MaxBytes`, `MaxArrays`.

**Deadlock** is not checked: in each model the environment may come to rest (clients gone,
lines typed, blocks used up), and the program then waits for ever, as it should.

**Fairness.** Server: `io_context::run` executes every completion that is ready, and the
kernel transmits on a live connection (weak fairness per session). Clients need not leave, and
a server whose sessions are all held serves nobody new: `WaitingIsServed` has the
premise that this is not so for ever. Client: both threads run;
a waiter for `m_lock` gets it (strong fairness: the lock may be free and taken in turn, and
a Windows critical section does not starve a waiter for ever); no fairness for the user or
for the end of the connection attempt. Tetris: the loop does not wait for a key. Its
fairness is weak fairness of `Play`, with the condition that enables it spelt out; it asks
nothing of a clock that has run to `MaxClock`.
Image transfer: both processes run; the user need not send anything, and connections need
not end. Framing: a running handler goes on. Echo server: `io_context::run` executes what is
ready and the kernel transmits; that an accept completes needs a connection. Polling server:
the thread goes on polling; that `send` to a client that stays, and may not read, goes
through is not assumed.

**A property that reads as if it failed.** `EveryMessageOnce`, `OneWrite` and `ImplementsRoom`
hold even across reuse: the new client of a session gets the last one's packets as well
(`server_reuse`), but nothing of its own is lost, doubled or put out of order. That nobody
gets what was meant for another, and that a message carries its author's name, does depend
on reuse; `NoMixUp` says it of the time before a session is used again (`NoReuse`).

**Disagreements and defects that no run shows.** The modules being faithful, these are in
them too.

* Tetris: `drop_block` moves the block before it tests anything (`tetris.cpp:579`), so a
  block brought over others by a move sideways or a turn is lowered into them, while the
  comment at `:576` says that a block is lowered if it can be and settles otherwise.
  `check_input` tests `rotation + 1` without `% 4` (`:417`), so a turn from rotation 3 is
  tested with another block's picture, and the long block and the last one may write over
  a cell of the right wall until the next move; `WallsStand`, a part of
  `MovesLeaveNoTrace`, says that this is all, and that nothing settles there.
  `check_game_over` stops a column short (`:639`), so blocks piled up in the last
  column pass the ceiling and the game goes on (comment at `:212`). `play` compares `time_cont != speed`
  (`:364`), and a level reached by a dropped block may halve `speed` below `time_cont`
  (`:380`): no block falls by itself from then on, which is why `BlockLands` starts from a
  clock that is not past the speed.
* Image transfer: when the client leaves between two images, the server's read of the size
  fails unnoticed (`testserverproject.cpp:62`), it truncates the last image's file, and if
  `fileSize`, never initialized, happens to be 0 it says that an image was received (comment
  at `:77`). When it leaves within an image the server turns in the loop for ever without
  reading a byte.
* Chat client: a line typed before the connection is up, or after it was refused, is queued
  and lost without the message that there is no connection (`client.cpp:292`, `:41`);
  `FifoWhileConnected` excepts these packets and no others. Any `RES_IN` logs it in
  (`:227`), a former client's too.
* Echo server: a second receive while a reply is being sent assigns `m_WriteMessage` under
  the write (`maybe_portfolio/server.cpp:30`). The client may then get bytes of neither
  reply; `RepliesExact` says what remains right.
* Polling servers: the comment at `portfolio/client.cpp:3` says that connecting again after
  leaving works. `src/server.cpp` lets one (`NextIsAccepted`); `portfolio/server.cpp`, where
  the retry of `accept` is commented out, ends unless somebody already waits. Neither closes
  the socket of a client that has left. The bytes that one receive brings behind a zero are
  not sent back (`strlen`, `server.cpp:79`): two short texts taken together lose the second.
  `TextComesBack` says that nothing else is dropped while sends are whole. What a client sent without a zero comes back with
  stale bytes, possibly of another client.
* MyArray: a path shorter than the dimension assigns to `Address::level`; copying does not
  copy it, and the destructor goes by it. `top` is never deleted.

## 4. Proofs

TLC checks small instances; the theorems below hold for every value of the constants. The
assumptions on constants are the `ASSUME`s of the modules: a pool of at least one session;
`None` is no client and no session; packets have a header and fit the receive buffer; buffers
hold something, and a text and its zero fit the echo server's; the Tetris board is at least
6 wide and 7 high, and a level at least as long as a piece is high; bounds are numbers. Each
proof module has one lemma or step per action of its model, and ends with the theorems.

| Module | Theorems |
|---|---|
| `ChatServerProofs` | `TypeCorrect`, `PoolCorrect` (`SessionConservation`), `AcceptCorrect` (`AcceptPosted`), `ReaderCorrect` (`OneReader`), `WriteCorrect` (`OneWrite`), `CloseResumes` (`CloseResumesAccepting`, if no accept fails), `MessagesOnce` (`EveryMessageOnce`), `ServerIsRoom` (`ImplementsRoom`), `NotMixedUp` (`NoMixUp`) |
| `PacketFramingProofs` | `TypeCorrect`, `Framing` (`PacketsIntact`), `Prompt` (`NoneHeldBack`), `Buffers` (`BuffersSuffice`) |
| `ChatClientProofs` | `TypeCorrect`, `WriterCorrect` (`OneWriter`), `FifoCorrect` (`FifoWhileConnected`), `ClientIsPeer` (`FollowsProtocol`) |
| `ImageTransferProofs` | `TypeCorrect`, `InStepCorrect` (`InStep`), `ReceivedCorrect` (`ReceivedWhole`) |
| `PollingServerProofs` | `TypeCorrect`, `ComesBackCorrect` (`TextComesBack`), `ExactCorrect` (`ExactIfTerminated`) |
| `EchoServerProofs` | `TypeCorrect`, `RepliesCorrect` (`RepliesExact`) |
| `TetrisProofs` | `TypeCorrect`, `MovesCorrect` (`MovesLeaveNoTrace`), `FullRowsCorrect` (`NoFullRowStays`), `HardDropEnds`, `LevelCorrect` (`LevelFollowsScore`) |
| `SequenceLemmas` | lemmas only: `Tail` and `Append`, streams, suffixes, induction |

**The chat server's pool** (`ChatServerProofs`). `IInv` is the five properties and
`WaitingOnce`, which is needed because an accepted client must not be served already: no
client is in the backlog twice, or in it and on a session. `OneWrite` needs `OneReader`: that
a session just accepted has no handler on the stack and its old writes are all over.
`SessionConservation` and `AcceptPosted` support each other: an id is lost only by a failed
accept, and then no accept is posted again. `CloseResumes` is the other side of the run
`server_accept_fail`: without a failed accept, the comment at `ChatServer.h:49` is true.

**What the chat server delivers** (`ChatServerProofs`). `EveryMessageOnce` is inductive
with three more facts (`RInv`): no queue or stream refers to a message not yet said
(`KnownRefs`), a client that has not been accepted has received nothing (`NothingYet`), and
the requests a session holds were written by its own client (`OwnWords`). The step simulation
follows from it: that a notice is the room's `Deliver` needs it to be the *next* message the
member has not seen, which is what `EveryMessageOnce` says of queue and stream together.
`NoMixUp` needs to know more of the past: its invariant (`Owners`) gives every session used an
owner, the client it was used for. The free ids not yet used come before those that were
(`FreshFirst`), because `PostAccept` takes from the front and `closeSession` puts at the back;
so as long as not more clients were accepted than there are sessions no session is used twice,
and what it holds is its owner's.

**Framing** (`PacketFramingProofs`). The buffer's window is exactly the bytes received and
not yet processed, and starts at a packet boundary.

**The client's threads** (`ChatClientProofs`). `OneWriter` is inductive with `LockHeld` (who
is in a critical section holds the lock) and `Positions`: what a thread knows between its
accesses, above all that when `main` has pushed and not yet tested the size, either its
packet is alone and nobody else will write it, or somebody will. `FifoWhileConnected` needs
the same while still connecting, with an empty wire, since packets are given up then
(`Fifo`); that only those posted by then are given up is said with `upAt`, how many that were
when the connection came up. `FollowsProtocol` needs `Ordered`: the kinds in `posted` change
once, from names to messages, and not before the server has sent a `RES_IN`; `Fifo` carries
this over to the wire. Nothing is assumed about when the server sends what.

**Image transfer** (`ImageTransferProofs`). The invariant (`Sync`) has a witness for the two
counts: where each image starts in the whole stream, and how much of it was read. What is on
the wire is that stretch of the stream, and both program counters say where in it they stand.
Once the connection has ended and all was read (`Dead`) the server's position means nothing,
and what its file then holds is nothing, or the beginning of the image (`FileOK`).

**Polling servers** (`PollingServerProofs`). `Back` says that what is about to be sent begins
with what is missing of `due`, the text of each receive up to its first zero. What was in `recvBuffer`
before can only follow it, and no byte that was not received can be anywhere
(`NothingAhead`): that is why the bytes of `due` are matched to the right ones, though
stale bytes lie between. While every receive brings a zero there are none (`Whole`). `Behind`
says which bytes taken are not in `due`: those that follow a zero or such a byte.

**Echo server** (`EchoServerProofs`). `Count` adds up bytes received and bytes left in the
pieces, whether posted or done, and holds also for overlapping writes. `Exact` says
that until one reply is assigned over another at most the last piece is not yet sent, and
that it is exactly what the client lacks and still reads the string it was posted for
(`Lacks`); replies are of bytes read (`Fresh`), and pieces are not sent past their end
(`Sounds`).

**Tetris** (`TetrisProofs`). None of the four properties is inductive alone. The invariant
(`InPlay`) says where the block is: its cells are in the columns inside the walls (`Inside`),
except that the long block and the last one, next to the right wall, may have one cell in it.
For the test before a turn from rotation 3 is of the next type's picture, which is as wide as
the block's own but for the long block, and of whatever lies behind the array for the last
one (`TurnedWithin`). The walls are whole but for
that cell (`Walled`), nothing has settled in them or where blocks appear, no row is full
(`Sparse`), and what moves is the block (`OnlyMoves`). A block is moved down before
anything is tested, and may then be in the floor, which `make_wall` restores; that it stays on
the board follows from the test of the row below after the drop before: every picture has a
cell in its third row, so `by` is at most `BOARD_HEIGHT - 5`. `move_block` may erase
settled cells under the block but adds none (`Fewer`). A turn ends either with a block that still moves (`Moving`)
or with nothing moving and a garbage `by` (`Settled`), which `new_block` replaces.
`check_line` is a loop with an invariant of its own (`LineInv`): below row `i` no row is
full, and rows 1 to `i` are those of the board it began with, moved down by the lines taken
out, of which there are at most four, as only rows the block settled in can have become full. With a round
either `i` goes down or a line is counted, so the loop is over within `BOARD_HEIGHT` rounds, at
row 3. The block lands before it has passed every row (`HardDrop`). Four lines at most, and a level no shorter, are
why the level rises by at most one in a turn and so keeps up with the score (`QuotientStep`).

**Induction.** Three models use folds of the community modules (`FoldLeft`, `FlattenSeq`) or
count along a sequence, and Tetris has recursive functions for the rounds of `check_line`, the
drops of a hard drop and the speeds of the levels; that such functions exist is shown
first (`RoundsExist`, `DropsExist`, `SpeedsExist`). What these compute is proved by induction written with sets:
a set that contains 0, and `n + 1` with every `n` it contains, contains `Nat`
(`NatInductionSet`, from the library's well-founded order of the naturals).

**Only model-checked.**

* All liveness (`WaitingIsServed`, `NextIsAccepted`, `MembersSeeAll`, `HandlerReturns`,
  `QuitTerminates`, `PostedIsSent`, `BlockLands`, `ImageArrives`, `ServesOneClient`): fairness
  and `ENABLED` are beyond the prover. That `ServerIsRoom` covers is the room's safety; its
  `Delivery` is `MembersSeeAll`.
* The safety properties of `MyArray`. It is written with recursive operators over a tree
  of pointers, as the code is, for which the prover's arithmetic backend cannot be used; and
  what they compute would need induction over that tree.

## 5. Not modelled, and why

* **Echo servers of the chat project** (`TCPChatServer/1:1 async chat/Server.cpp`,
  `TCPChatServer/serverproject.cpp`): the class of `maybe_portfolio/server.cpp`, except that
  `StartAccept` makes its socket with an `io_context` of its own, destroyed when it returns.
  What a socket does whose context is gone is not defined, so there is nothing to model
  past the accept. The first 183 lines of `serverproject.cpp` are commented out.
* **Straight-line programs**: `portfolio/client.cpp` sends one struct and closes; the
  calculator pair of `studyproject/` sends and receives one struct per round and keeps
  nothing; `portfolio/chrono_time.cpp` measures a time; the project stubs print a line.
* **Abandoned code**: `TCPChatServer/실패코드` is commented out, `Program.cs` prints a line.
* **Inside the modelled programs**: destructors at process exit; the contents of names and
  texts and their truncation; the length of `m_SendDataQueue`, which the code does not
  limit; what unsynchronized calls do inside Asio (each call on the client's socket is one
  step); a peer that does not follow `Protocol.h`; drawing; memory beyond the Tetris board
  (only cells next to a block's shape are ever read there, and the array behind the board
  is never written); the serialized struct the image client builds and never sends; what a
  write past `recvBuffer` does; negative indices and paths that are too long in MyArray,
  which it does not test; what happens after the double delete of `array_free`; in the
  polling servers `func1` and `printInfo`, which are never called, and `proc_recvs`, which
  `server.cpp:94` starts only once `main` has left its loop for good, after a failed accept.

## 6. Plan

1. Done: `ChatServer` and `PacketFraming` with proofs; `ChatRoom` and the refinement;
   `ChatClient` and `ChatPeer`; `Tetris`; `ImageTransfer`; `EchoServer`; `PollingServer`;
   `MyArray`.
2. Done: the proofs of section 4, for every component without recursive operators. For them
   the loops of `Tetris` became recursive functions, checked by the same run.
3. Left: `MyArray`, with the tree as a function of its depth, and `ReadsLastWritten` by
   induction on it. Properties for the rules that Tetris and the image server do not follow
   (section 3), stated with their exceptions.
