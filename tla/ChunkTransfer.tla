----------------------------- MODULE ChunkTransfer -----------------------------
(***************************************************************************)
(* The bytes of one plane on their way from send_image (src/obc_port.cpp)  *)
(* to receive_and_save_buffer (src/udp_client.cpp): which bytes each chunk *)
(* takes and where the receiver puts them.  The chunks of one buffer may   *)
(* arrive in any order; who is sent what, and losses, are the matter of    *)
(* ImageExchange.tla.                                                      *)
(***************************************************************************)
EXTENDS Integers

CONSTANT ChunkSize   \* CHUNK_SIZE: 1024 in both programs

VARIABLES
  tpc,       \* send_image: "idle", "header", "chunk"
  plane,     \* what img_addr points to
  size,      \* map_size
  next,      \* chunk_idx
  flying,    \* chunks on their way: [num, len, bytes]
  rpc,       \* the receiver: "header", "chunks", "saved", "refused"
  mem,       \* header.mem_size
  buffer,    \* buffer_data
  expected,  \* header.total_chunks
  count      \* chunks received

senderVars == <<tpc, plane, size, next>>
receiverVars == <<rpc, mem, buffer, expected, count>>
transferVars == <<senderVars, flying, receiverVars>>

Zero == -1

TotalChunks == (size + ChunkSize - 1) \div ChunkSize

Init ==
  /\ tpc = "idle"
  /\ plane = <<>> /\ size = 0
  /\ next = 0
  /\ flying = {}
  /\ rpc = "header"
  /\ mem = 0 /\ buffer = <<>>
  /\ expected = 0
  /\ count = 0

\* send_image is called for n bytes, and the receiver waits for its header.
Send(p, n) ==
  /\ tpc = "idle"
  /\ tpc' = "header"
  /\ plane' = p /\ size' = n
  /\ next' = 0
  /\ flying' = {}
  /\ rpc' = "header"
  /\ UNCHANGED <<mem, buffer, expected, count>>

\* The header is sent and received; an empty buffer is saved at once.
Header ==
  /\ tpc = "header"
  /\ tpc' = "chunk"
  /\ expected' = TotalChunks
  /\ mem' = size
  /\ buffer' = [k \in 0..size - 1 |-> Zero]
  /\ count' = 0
  /\ rpc' = IF TotalChunks = 0 THEN "saved" ELSE "chunks"
  /\ UNCHANGED <<plane, size, next, flying>>

\* data_size: the last chunk may be shorter.
DataSize(i) ==
  IF size - i * ChunkSize < ChunkSize THEN size - i * ChunkSize ELSE ChunkSize

Chunk(i) ==
  [num |-> i, len |-> DataSize(i),
   bytes |-> [k \in 0..DataSize(i) - 1 |-> plane[i * ChunkSize + k]]]

\* Mutant: the loop runs once too often.
SendChunk_OneMore ==
  /\ tpc = "chunk"
  /\ next <= TotalChunks
  /\ flying' = flying \cup {Chunk(next)}
  /\ next' = next + 1
  /\ UNCHANGED <<tpc, plane, size, receiverVars>>

SendChunk ==
  /\ tpc = "chunk"
  /\ next < TotalChunks
  /\ flying' = flying \cup {Chunk(next)}
  /\ next' = next + 1
  /\ UNCHANGED <<tpc, plane, size, receiverVars>>

SendReturns ==
  /\ tpc = "chunk"
  /\ next = TotalChunks
  /\ tpc' = "idle"
  /\ UNCHANGED <<plane, size, next, flying, receiverVars>>

\* Mutant: CHUNK_SIZE of obc_port.hpp, half of what is sent.
Offset_Half(i) == i * ((ChunkSize + 1) \div 2)

Offset(i) == i * ChunkSize

\* Mutant: a chunk that fills the buffer to its end does not fit.
Fits_Strict(c) == Offset(c.num) + c.len < mem

Fits(c) == Offset(c.num) + c.len <= mem

Copied(c) ==
  [k \in DOMAIN buffer |->
     IF k - Offset(c.num) \in 0..c.len - 1 THEN c.bytes[k - Offset(c.num)]
                                           ELSE buffer[k]]

Receive ==
  \E c \in flying :
    /\ rpc = "chunks"
    /\ flying' = flying \ {c}
    /\ IF Fits(c)
       THEN /\ buffer' = Copied(c)
            /\ count' = count + 1
            /\ rpc' = IF count + 1 = expected THEN "saved" ELSE "chunks"
       ELSE /\ rpc' = "refused"
            /\ UNCHANGED <<buffer, count>>
    /\ UNCHANGED <<senderVars, mem, expected>>
=============================================================================
