------------------------------- MODULE ObcPort -------------------------------
(***************************************************************************)
(* The UDP port to the OBC of src/obc_port.cpp: the listener, which reads  *)
(* one-character commands, and send_image, which any thread may call.      *)
(* There is one client address: every datagram received replaces it, and   *)
(* send_image takes the one it finds when it is called.                    *)
(*                                                                         *)
(* The network is `inbox', what is on its way to the server, and `net',    *)
(* what is on its way to each address; ImageExchange.tla says what else    *)
(* may happen to it.  A plane is what its tag says it is; the bytes are    *)
(* left out.  This module has no behaviour of its own: ImageExchange.tla   *)
(* composes its actions with the threads that call send_image.             *)
(***************************************************************************)
EXTENDS Naturals, Sequences

CONSTANTS
  Addresses,   \* where commands come from and datagrams go to
  NoAddress,   \* client_addr before the first command
  Senders,     \* threads that call send_image
  ChunkSize,   \* CHUNK_SIZE of send_image
  NoTag        \* the content of a ping reply

VARIABLES
  inbox,    \* commands on their way: [from, cmd]
  net,      \* datagrams on their way to each address
  lpc,      \* where main's thread is in start_listener
  dgram,    \* buffer[0] and tmp_addr
  client,   \* client_addr
  sock,     \* server_sock # -1
  quit,     \* quit_signal
  xfer      \* send_image of each thread: pc, destination, map_size, next chunk, plane

listenVars == <<inbox, lpc, dgram, client, sock, quit>>
portVars == <<listenVars, net, xfer>>

Returned == [pc |-> "idle", dest |-> NoAddress, size |-> 0, next |-> 0, tag |-> NoTag]

Init ==
  /\ inbox = <<>>
  /\ net = [a \in Addresses |-> <<>>]
  /\ lpc = "off"
  /\ dgram = [from |-> NoAddress, cmd |-> "none"]
  /\ client = NoAddress
  /\ sock = FALSE
  /\ quit = FALSE
  /\ xfer = [s \in Senders |-> Returned]

----------------------------------------------------------------------------
(* start_listener and handle_command.                                      *)

Goto(from, to) == lpc = from /\ lpc' = to

StartListener ==
  /\ Goto("off", "test")
  /\ sock' = TRUE
  /\ UNCHANGED <<inbox, dgram, client, quit, net, xfer>>

\* No socket, or the port is taken: start_listener returns, then main.
BindFails ==
  /\ Goto("off", "ended")
  /\ UNCHANGED <<inbox, dgram, client, sock, quit, net, xfer>>

TestQuit ==
  /\ Goto("test", IF quit THEN "ended" ELSE "recv")
  /\ sock' = (sock /\ ~quit)
  /\ UNCHANGED <<inbox, dgram, client, quit, net, xfer>>

\* Mutant: the command is handled before the address is stored.
Receive_NoStore ==
  /\ inbox # <<>>
  /\ Goto("recv", "handle")
  /\ dgram' = Head(inbox)
  /\ inbox' = Tail(inbox)
  /\ UNCHANGED <<client, sock, quit, net, xfer>>

Receive ==
  /\ inbox # <<>>
  /\ Goto("recv", "store")
  /\ dgram' = Head(inbox)
  /\ inbox' = Tail(inbox)
  /\ UNCHANGED <<client, sock, quit, net, xfer>>

StoreClient ==
  /\ Goto("store", "handle")
  /\ client' = dgram.from
  /\ UNCHANGED <<inbox, dgram, sock, quit, net, xfer>>

Handle(cmds) == dgram.cmd \in cmds /\ Goto("handle", "test")

\* 'I': the composition adds the increment of send_count.
HandleImage ==
  /\ Handle({"I"})
  /\ UNCHANGED <<inbox, dgram, client, sock, quit, net, xfer>>

\* 'e': quit.
HandleExit ==
  /\ Handle({"e"})
  /\ quit' = TRUE
  /\ sock' = FALSE
  /\ UNCHANGED <<inbox, dgram, client, net, xfer>>

\* 's', when the camera thread is started already, and 'l'.
HandleIgnored ==
  /\ Handle({"s", "l"})
  /\ UNCHANGED <<inbox, dgram, client, sock, quit, net, xfer>>

Sendto(a, kind, num, size, tag) ==
  net' = [net EXCEPT ![a] = Append(@, [kind |-> kind, num |-> num, size |-> size,
                                       tag |-> tag])]

\* Any other character: return_ping.
HandlePing ==
  /\ Handle({"p"})
  /\ IF sock THEN Sendto(client, "pong", 0, 1, NoTag) ELSE UNCHANGED net
  /\ UNCHANGED <<inbox, dgram, client, sock, quit, xfer>>

----------------------------------------------------------------------------
(* send_image.                                                             *)

Return(s) == xfer' = [xfer EXCEPT ![s] = Returned]

Chunks(size) == (size + ChunkSize - 1) \div ChunkSize

\* data_size of a chunk: the last one may be shorter.
DataSize(size, i) ==
  IF size - i * ChunkSize < ChunkSize THEN size - i * ChunkSize ELSE ChunkSize

\* The call: the address is read under client_mutex.
SendImage(s, size, tag) ==
  /\ xfer[s].pc = "idle"
  /\ IF sock
     THEN xfer' = [xfer EXCEPT ![s] = [pc |-> "header", dest |-> client,
                                       size |-> size, next |-> 0, tag |-> tag]]
     ELSE Return(s)
  /\ UNCHANGED <<listenVars, net>>

SendHeader(s) ==
  /\ xfer[s].pc = "header"
  /\ sock /\ xfer[s].dest # NoAddress
  /\ Sendto(xfer[s].dest, "header", Chunks(xfer[s].size), xfer[s].size, xfer[s].tag)
  /\ xfer' = [xfer EXCEPT ![s].pc = "chunk"]
  /\ UNCHANGED listenVars

\* Mutant: the last chunk is not sent.
SendChunk_NotLast(s) ==
  LET x == xfer[s] IN
  /\ x.pc = "chunk"
  /\ sock
  /\ x.next < Chunks(x.size)
  /\ IF x.next + 1 < Chunks(x.size)
     THEN Sendto(x.dest, "chunk", x.next, DataSize(x.size, x.next), x.tag)
     ELSE UNCHANGED net
  /\ xfer' = [xfer EXCEPT ![s].next = @ + 1]
  /\ UNCHANGED listenVars

\* The test of the socket and sendto, 50 us later, are one step: a socket closed
\* between them makes sendto fail and send_image return, as the test would.
SendChunk(s) ==
  LET x == xfer[s] IN
  /\ x.pc = "chunk"
  /\ sock
  /\ x.next < Chunks(x.size)
  /\ Sendto(x.dest, "chunk", x.next, DataSize(x.size, x.next), x.tag)
  /\ xfer' = [xfer EXCEPT ![s].next = @ + 1]
  /\ UNCHANGED listenVars

AllSent(s) ==
  /\ xfer[s].pc = "chunk"
  /\ xfer[s].next = Chunks(xfer[s].size)
  /\ Return(s)
  /\ UNCHANGED <<listenVars, net>>

\* The socket was closed under send_image, or there is nobody to send to.
SendRefused(s) ==
  /\ xfer[s].pc # "idle"
  /\ ~sock \/ xfer[s].dest = NoAddress
  /\ Return(s)
  /\ UNCHANGED <<listenVars, net>>

\* sendto fails: send_image returns, its callers go on with the next plane.
SendFails(s) ==
  /\ xfer[s].pc # "idle"
  /\ Return(s)
  /\ UNCHANGED <<listenVars, net>>
=============================================================================
