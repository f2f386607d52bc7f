------------------------------- MODULE UdpClient -------------------------------
(***************************************************************************)
(* The receiving half of the protocol, src/udp_client.cpp: request_image   *)
(* sends one 'I' and then receives three buffers, each a header followed   *)
(* by as many datagrams as the header announces.  It blocks in recvfrom    *)
(* without a timeout and counts datagrams, not chunk numbers.  A datagram  *)
(* that is not what it expects ends the buffer, and the next is begun.     *)
(***************************************************************************)
EXTENDS Naturals, Sequences

CONSTANTS
  Clients,   \* running clients, named by their addresses
  Buffers,   \* buffers of an image: 3
  ChunkSize, \* CHUNK_SIZE of the client
  NoTag      \* a part of buffer_data that no chunk was written to

VARIABLES
  net,     \* datagrams on their way to each address
  upc,     \* where each client is in request_image
  req,     \* request_counter
  buf,     \* the buffer that is being received
  mem,     \* header.mem_size
  data,    \* buffer_data, one entry per chunk of the header
  got,     \* datagrams received since the header
  files    \* the files written: who, of which request, which buffer, size, what

clientVars == <<upc, req, buf, mem, data, got, files>>

Init ==
  /\ upc = [c \in Clients |-> "idle"]
  /\ req = [c \in Clients |-> 0]
  /\ buf = [c \in Clients |-> 1]
  /\ mem = [c \in Clients |-> 0]
  /\ data = [c \in Clients |-> <<>>]
  /\ got = [c \in Clients |-> 0]
  /\ files = {}

\* request_image: the composition adds the 'I' it sends.
RequestImage(c) ==
  /\ upc[c] = "idle"
  /\ upc' = [upc EXCEPT ![c] = "header"]
  /\ req' = [req EXCEPT ![c] = @ + 1]
  /\ buf' = [buf EXCEPT ![c] = 1]
  /\ UNCHANGED <<net, mem, data, got, files>>

Recvfrom(c) ==
  /\ net[c] # <<>>
  /\ net' = [net EXCEPT ![c] = Tail(@)]

\* Mutant: one buffer too many.
NextBuffer_OneMore(c) ==
  /\ upc' = [upc EXCEPT ![c] = IF buf[c] <= Buffers THEN "header" ELSE "idle"]
  /\ buf' = [buf EXCEPT ![c] = IF @ <= Buffers THEN @ + 1 ELSE @]

\* receive_and_save_buffer returns; request_image calls it three times.
NextBuffer(c) ==
  /\ upc' = [upc EXCEPT ![c] = IF buf[c] < Buffers THEN "header" ELSE "idle"]
  /\ buf' = [buf EXCEPT ![c] = IF @ < Buffers THEN @ + 1 ELSE @]

ReceiveHeader(c) ==
  /\ upc[c] = "header"
  /\ Recvfrom(c)
  /\ LET m == Head(net[c]) IN
     IF m.kind = "header"
     THEN /\ upc' = [upc EXCEPT ![c] = "chunks"]
          /\ mem' = [mem EXCEPT ![c] = m.size]
          /\ data' = [data EXCEPT ![c] = [i \in 1..m.num |-> NoTag]]
          /\ got' = [got EXCEPT ![c] = 0]
          /\ UNCHANGED buf
     ELSE NextBuffer(c) /\ UNCHANGED <<mem, data, got>>
  /\ UNCHANGED <<req, files>>

Save(c, content) ==
  files' = files \cup {[client |-> c, req |-> req[c], buf |-> buf[c], size |-> mem[c],
                        data |-> content]}

\* Mutant: what is not a chunk of the buffer is skipped, but counted.
ReceiveChunk_CountAll(c) ==
  /\ upc[c] = "chunks"
  /\ Recvfrom(c)
  /\ LET m == Head(net[c])
         filled == IF m.kind = "chunk" /\ m.num < Len(data[c])
                   THEN [data[c] EXCEPT ![m.num + 1] = m.tag]
                   ELSE data[c]
     IN /\ data' = [data EXCEPT ![c] = filled]
        /\ got' = [got EXCEPT ![c] = @ + 1]
        /\ IF got[c] + 1 = Len(data[c])
           THEN Save(c, filled) /\ NextBuffer(c)
           ELSE UNCHANGED <<files, upc, buf>>
  /\ UNCHANGED <<req, mem>>

\* Mutant: a chunk that ends where the buffer ends is refused.
Fits_Strict(m, c) == m.kind = "chunk" /\ m.num * ChunkSize + m.size < mem[c]

\* The bounds check; the magic of a header is read as an enormous number.
Fits(m, c) == m.kind = "chunk" /\ m.num * ChunkSize + m.size <= mem[c]

\* A chunk goes where its number says.
ReceiveChunk(c) ==
  /\ upc[c] = "chunks"
  /\ Recvfrom(c)
  /\ LET m == Head(net[c])
         filled == [data[c] EXCEPT ![m.num + 1] = m.tag]
     IN \/ /\ Fits(m, c)
           /\ data' = [data EXCEPT ![c] = filled]
           /\ got' = [got EXCEPT ![c] = @ + 1]
           /\ IF got[c] + 1 = Len(data[c])
              THEN Save(c, filled) /\ NextBuffer(c)
              ELSE UNCHANGED <<files, upc, buf>>
        \/ /\ ~Fits(m, c)
           /\ NextBuffer(c)
           /\ UNCHANGED <<data, got, files>>
  /\ UNCHANGED <<req, mem>>
================================================================================
