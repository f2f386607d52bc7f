------------------------- MODULE ImageExchangeProofs -------------------------
(***************************************************************************)
(* The exchange of images is well-typed, no plane is sent to nobody, and   *)
(* the mock thread is an image service, for any clients and operators, any *)
(* number of images, sizes and chunks, and any faults.                     *)
(***************************************************************************)
EXTENDS ImageExchange, IndexArithmetic, SequenceTheorems, TLAPS

Commands == [from : Addresses, cmd : {"I"} \cup OperatorCmds]

ListenTypes ==
  /\ inbox \in Seq(Commands)
  /\ lpc \in {"off", "test", "recv", "store", "handle", "ended"}
  /\ dgram.from \in Addresses \cup {NoAddress}
  /\ client \in Addresses \cup {NoAddress}
  /\ sock \in BOOLEAN /\ quit \in BOOLEAN
  /\ lpc = "store" => dgram.from \in Addresses
  /\ lpc = "handle" => client \in Addresses

\* The requests taken are those that were counted and are not waiting.
MockTypes ==
  /\ sendCount \in Nat /\ asked \in Nat /\ taken \in Nat
  /\ taken + sendCount = asked
  /\ mpc \in {"scan", "poll", "load", "call", "sending", "ended"}
  /\ image \in 0..ImageCount - 1
  /\ stage \in 0..Planes
  /\ mpc \in {"scan", "poll", "load"} => stage = 0
  /\ mpc = "sending" => stage < Planes

\* Who waits for an image is known to the port.
Known ==
  /\ sendCount > 0 => client \in Addresses
  /\ mpc \in {"load", "call", "sending"} => client \in Addresses

XferTypes ==
  /\ xfer \in [Senders -> [pc : {"idle", "header", "chunk"},
                           dest : Addresses \cup {NoAddress},
                           size : Nat, next : Nat, tag : Tags]]
  /\ \A s \in Senders :
       /\ xfer[s].next <= Obc!Chunks(xfer[s].size)
       /\ xfer[s].pc # "idle" => xfer[s].size # 0
       /\ xfer[s].pc = "chunk" => xfer[s].dest \in Addresses

NetTypes ==
  /\ net \in [Addresses -> Seq(Datagrams)]
  /\ \A a \in Addresses : \A k \in DOMAIN net[a] :
       net[a][k].kind = "header" => net[a][k].num # 0

ClientTypes ==
  /\ upc \in [Clients -> {"idle", "header", "chunks"}]
  /\ buf \in [Clients -> 1..Buffers]
  /\ mem \in [Clients -> Nat]
  /\ data \in [Clients -> Seq(Tags)]
  /\ got \in [Clients -> Nat]
  /\ \A c \in Clients : /\ got[c] <= Len(data[c])
                        /\ upc[c] = "chunks" => got[c] < Len(data[c])

----------------------------------------------------------------------------
(* The constants.                                                          *)

LEMMA PlaneCount == Planes \in Nat \ {0} /\ \A p \in 1..Planes : PlaneSizes[p] \in Nat \ {0}
<1>1. PlaneSizes \in Seq(Nat \ {0}) /\ PlaneSizes # <<>>
  BY PlaneAssumption
<1>2. Len(PlaneSizes) \in Nat \ {0} /\ \A p \in 1..Len(PlaneSizes) : PlaneSizes[p] \in Nat \ {0}
  BY <1>1
<1> QED
  BY <1>2 DEF Planes

LEMMA TagTypes == NoTag \in Tags /\ TelemetryTag \in Tags
BY DEF Tags

LEMMA NotNobody == \A a \in Addresses : a # NoAddress
BY AddressAssumption DEF Addresses

----------------------------------------------------------------------------
(* The initial state.                                                      *)

LEMMA InitTypes ==
  Init => ListenTypes /\ MockTypes /\ Known /\ XferTypes /\ NetTypes /\ ClientTypes
<1> SUFFICES ASSUME Init
             PROVE  ListenTypes /\ MockTypes /\ Known /\ XferTypes /\ NetTypes /\ ClientTypes
  OBVIOUS
<1>1. ListenTypes
  <2>1. inbox \in Seq(Commands)
    BY EmptySeq DEF Init, Obc!Init
  <2> QED
    BY <2>1 DEF Init, Obc!Init, ListenTypes
<1>2. MockTypes /\ Known
  BY ImageAssumption, PlaneCount DEF Init, Camera!Init, MockTypes, Known
<1>3. XferTypes
  <2>1. Obc!Chunks(0) \in Nat
    BY ChunkAssumption, Division DEF Obc!Chunks
  <2>2. Obc!Returned \in [pc : {"idle", "header", "chunk"}, dest : Addresses \cup {NoAddress},
                          size : Nat, next : Nat, tag : Tags]
    BY TagTypes DEF Obc!Returned
  <2> QED
    BY <2>1, <2>2 DEF Init, Obc!Init, XferTypes, Obc!Returned
<1>4. NetTypes
  BY EmptySeq DEF Init, Obc!Init, NetTypes
<1>5. ClientTypes
  <2>1. 1 \in 1..Buffers
    BY PlaneCount DEF Buffers
  <2>2. <<>> \in Seq(Tags) /\ Len(<<>>) = 0
    BY EmptySeq
  <2> QED
    BY <2>1, <2>2 DEF Init, Receiver!Init, ClientTypes
<1> QED
  BY <1>1, <1>2, <1>3, <1>4, <1>5

----------------------------------------------------------------------------
(* The listener.                                                           *)

\* The steps that disturb the listener's variables.
LEMMA ListenSteps ==
  [Next]_vars =>
    \/ Listener \/ ListenerFails \/ ImageAsked \/ LoseCommand
    \/ (\E c \in Clients : RequestImage(c))
    \/ (\E o \in Operators, cmd \in OperatorCmds : Operate(o, cmd))
    \/ UNCHANGED listenVars
BY DEF Next, Listener, ListenerFails, ImageAsked, MockThread, MockStep, LoadFails, CallSend,
       Transmit, SendReturns, SendFails, CallSendTelemetry, SendingThread, TelemetryReturns,
       TelemetryFails, RequestImage, ReceiveDatagram, LoseDatagram, Operate, LoseCommand,
       vars, portVars, listenVars, Obc!listenVars, Obc!SendImage, Obc!SendHeader,
       Obc!SendChunk, Obc!AllSent, Obc!SendRefused, Obc!SendFails

LEMMA CommandSent ==
  ASSUME ListenTypes, NEW a \in Addresses, NEW cmd \in {"I"} \cup OperatorCmds,
         SendCommand(a, cmd)
  PROVE  inbox' \in Seq(Commands)
<1>1. [from |-> a, cmd |-> cmd] \in Commands
  BY DEF Commands
<1> QED
  BY <1>1, AppendProperties DEF SendCommand, ListenTypes

LEMMA ListenTypesStep ==
  ASSUME ListenTypes, [Next]_vars
  PROVE  ListenTypes'
<1> USE DEF ListenTypes, Obc!Goto, Obc!Handle
<1>1. CASE Listener
  <2>1. CASE Obc!StartListener \/ Obc!TestQuit
    BY <2>1 DEF Obc!StartListener, Obc!TestQuit
  <2>2. CASE Obc!Receive
    <3>1. Head(inbox) \in Commands /\ Tail(inbox) \in Seq(Commands)
      BY <2>2, HeadTailProperties DEF Obc!Receive
    <3> QED
      BY <2>2, <3>1 DEF Obc!Receive, Commands
  <2>3. CASE Obc!StoreClient
    BY <2>3 DEF Obc!StoreClient
  <2>4. CASE Obc!HandleExit \/ Obc!HandlePing \/ Obc!HandleIgnored
    BY <2>4 DEF Obc!HandleExit, Obc!HandlePing, Obc!HandleIgnored
  <2> QED
    BY <1>1, <2>1, <2>2, <2>3, <2>4 DEF Listener
<1>2. CASE ListenerFails \/ ImageAsked
  BY <1>2 DEF ListenerFails, ImageAsked, Obc!BindFails, Obc!HandleImage
<1>3. CASE LoseCommand
  BY <1>3, HeadTailProperties DEF LoseCommand
<1>4. CASE \E c \in Clients : RequestImage(c)
  BY <1>4, CommandSent DEF RequestImage, Addresses
<1>5. CASE \E o \in Operators, cmd \in OperatorCmds : Operate(o, cmd)
  BY <1>5, CommandSent DEF Operate, Addresses
<1>6. CASE UNCHANGED listenVars
  BY <1>6 DEF listenVars
<1> QED
  BY <1>1, <1>2, <1>3, <1>4, <1>5, <1>6, ListenSteps

\* Once there is a client address, there always is one.
LEMMA ClientStays ==
  ASSUME ListenTypes, [Next]_vars, client \in Addresses
  PROVE  client' \in Addresses
<1>1. CASE Listener
  BY <1>1 DEF Listener, ListenTypes, Obc!StartListener, Obc!TestQuit, Obc!Receive,
              Obc!StoreClient, Obc!HandleExit, Obc!HandlePing, Obc!HandleIgnored, Obc!Goto
<1>2. CASE UNCHANGED client
  BY <1>2
<1> QED
  BY <1>1, <1>2, ListenSteps
  DEF ListenerFails, ImageAsked, LoseCommand, RequestImage, Operate, listenVars,
      Obc!BindFails, Obc!HandleImage

----------------------------------------------------------------------------
(* The mock thread.                                                        *)

\* The steps that disturb its variables.
LEMMA MockSteps ==
  [Next]_vars =>
    \/ ImageAsked \/ MockStep \/ LoadFails \/ CallSend \/ SendReturns \/ SendFails
    \/ UNCHANGED mockVars
BY DEF Next, Listener, ListenerFails, MockThread, Transmit, CallSendTelemetry, SendingThread,
       TelemetryReturns, TelemetryFails, RequestImage, ReceiveDatagram, LoseDatagram,
       Operate, LoseCommand, vars

LEMMA MockTypesStep ==
  ASSUME MockTypes, [Next]_vars
  PROVE  MockTypes'
<1> USE DEF MockTypes, Camera!Goto
<1>1. CASE ImageAsked
  BY <1>1 DEF ImageAsked, Camera!CountRequest
<1>2. (image + 1) % ImageCount \in 0..ImageCount - 1
  BY ImageAssumption
<1>3. CASE MockStep
  <2>1. CASE Camera!Scan \/ Camera!Poll \/ Camera!Load
    BY <2>1, PlaneCount DEF Camera!Scan, Camera!Poll, Camera!Load
  <2>2. CASE Camera!ImageSent
    BY <1>2, <2>2, PlaneCount DEF Camera!ImageSent, Camera!NextImage
  <2> QED
    BY <1>3, <2>1, <2>2 DEF MockStep
<1>4. CASE LoadFails
  BY <1>2, <1>4 DEF LoadFails, Camera!LoadFails, Camera!NextImage
<1>5. CASE CallSend
  BY <1>5 DEF CallSend, Camera!CallSend
<1>6. CASE SendReturns \/ SendFails
  BY <1>6, PlaneCount DEF SendReturns, SendFails, Camera!SendReturns
<1>7. CASE UNCHANGED mockVars
  BY <1>7 DEF mockVars
<1> QED
  BY <1>1, <1>3, <1>4, <1>5, <1>6, <1>7, MockSteps

LEMMA KnownStep ==
  ASSUME ListenTypes, MockTypes, Known, [Next]_vars
  PROVE  Known'
<1> SUFFICES ASSUME sendCount' > 0 \/ mpc' \in {"load", "call", "sending"}
             PROVE  client' \in Addresses
  BY DEF Known
<1>1. client \in Addresses
  <2>1. CASE ImageAsked
    BY <2>1 DEF ImageAsked, Obc!HandleImage, Obc!Handle, Obc!Goto, ListenTypes
  <2>2. CASE MockStep
    BY <2>2 DEF MockStep, Camera!Scan, Camera!Poll, Camera!Load, Camera!ImageSent,
                Camera!Goto, Known, MockTypes
  <2>3. CASE LoadFails \/ CallSend \/ SendReturns \/ SendFails
    BY <2>3 DEF LoadFails, CallSend, SendReturns, SendFails, Camera!LoadFails,
                Camera!CallSend, Camera!SendReturns, Camera!Goto, Known
  <2>4. CASE UNCHANGED mockVars
    BY <2>4 DEF mockVars, Known
  <2> QED
    BY <2>1, <2>2, <2>3, <2>4, MockSteps
<1> QED
  BY <1>1, ClientStays

----------------------------------------------------------------------------
(* The transfers.                                                          *)

Xfers == [pc : {"idle", "header", "chunk"}, dest : Addresses \cup {NoAddress},
          size : Nat, next : Nat, tag : Tags]

XferOK(x) ==
  /\ x \in Xfers
  /\ x.next <= Obc!Chunks(x.size)
  /\ x.pc # "idle" => x.size # 0
  /\ x.pc = "chunk" => x.dest \in Addresses

LEMMA XferTypesOK ==
  XferTypes <=> xfer \in [Senders -> Xfers] /\ \A s \in Senders : XferOK(xfer[s])
BY DEF XferTypes, XferOK, Xfers

LEMMA ChunkCount == \A n \in Nat : Obc!Chunks(n) \in Nat
<1> TAKE n \in Nat
<1>1. n + ChunkSize - 1 \in Nat
  BY ChunkAssumption
<1> QED
  BY <1>1, ChunkAssumption, Division DEF Obc!Chunks

\* One thread's transfer changes.
LEMMA OneXfer ==
  ASSUME XferTypes, NEW s \in Senders, NEW x, XferOK(x), xfer' = [xfer EXCEPT ![s] = x]
  PROVE  XferTypes'
<1>1. x \in Xfers
  BY DEF XferOK
<1>2. xfer' \in [Senders -> Xfers]
  BY <1>1, XferTypesOK
<1>3. \A t \in Senders : xfer'[t] = x \/ xfer'[t] = xfer[t]
  BY XferTypesOK
<1>4. \A t \in Senders : XferOK(xfer'[t])
  BY <1>3, XferTypesOK
<1> QED
  BY <1>2, <1>4 DEF XferTypes, XferOK, Xfers

LEMMA ReturnTypes ==
  ASSUME XferTypes, NEW s \in Senders, Obc!Return(s)
  PROVE  XferTypes'
<1>1. XferOK(Obc!Returned)
  BY ChunkCount, TagTypes DEF XferOK, Xfers, Obc!Returned
<1> QED
  BY <1>1, OneXfer DEF Obc!Return

LEMMA SendImageTypes ==
  ASSUME XferTypes, ListenTypes, NEW s \in Senders, NEW size \in Nat \ {0}, NEW tag \in Tags,
         Obc!SendImage(s, size, tag)
  PROVE  XferTypes'
<1>1. CASE sock
  <2> DEFINE x == [pc |-> "header", dest |-> client, size |-> size, next |-> 0, tag |-> tag]
  <2>1. XferOK(x)
    BY ChunkCount DEF XferOK, Xfers, ListenTypes
  <2>2. xfer' = [xfer EXCEPT ![s] = x]
    BY <1>1 DEF Obc!SendImage
  <2> HIDE DEF x
  <2> QED
    BY <2>1, <2>2, OneXfer
<1>2. CASE ~sock
  BY <1>2, ReturnTypes DEF Obc!SendImage
<1> QED
  BY <1>1, <1>2

LEMMA TransmitTypes ==
  ASSUME XferTypes, NEW s \in Senders, Obc!SendHeader(s) \/ Obc!SendChunk(s)
  PROVE  XferTypes'
<1>1. XferOK(xfer[s])
  BY XferTypesOK
<1>2. CASE Obc!SendHeader(s)
  <2> DEFINE x == [xfer[s] EXCEPT !.pc = "chunk"]
  <2>1. XferOK(x)
    BY <1>1, <1>2 DEF XferOK, Xfers, Obc!SendHeader
  <2>2. xfer' = [xfer EXCEPT ![s] = x]
    BY <1>2 DEF Obc!SendHeader
  <2> HIDE DEF x
  <2> QED
    BY <2>1, <2>2, OneXfer
<1>3. CASE Obc!SendChunk(s)
  <2> DEFINE x == [xfer[s] EXCEPT !.next = @ + 1]
  <2>1. XferOK(x)
    <3>1. xfer[s].next < Obc!Chunks(xfer[s].size)
      BY <1>3 DEF Obc!SendChunk
    <3> QED
      BY <1>1, <3>1, ChunkCount DEF XferOK, Xfers
  <2>2. xfer' = [xfer EXCEPT ![s] = x]
    BY <1>3 DEF Obc!SendChunk
  <2> HIDE DEF x
  <2> QED
    BY <2>1, <2>2, OneXfer
<1> QED
  BY <1>2, <1>3

\* The steps that disturb the transfers.
LEMMA XferSteps ==
  [Next]_vars =>
    \/ CallSend \/ SendReturns \/ SendFails
    \/ CallSendTelemetry \/ TelemetryReturns \/ TelemetryFails
    \/ Transmit(Mock) \/ Transmit(Sending)
    \/ UNCHANGED xfer
BY DEF Next, Listener, ListenerFails, ImageAsked, MockThread, MockStep, LoadFails, SendingThread,
       RequestImage, ReceiveDatagram, LoseDatagram, Operate, LoseCommand, vars, portVars,
       Obc!StartListener, Obc!TestQuit, Obc!Receive, Obc!StoreClient, Obc!HandleExit,
       Obc!HandlePing, Obc!HandleIgnored, Obc!BindFails, Obc!HandleImage

LEMMA PlaneToSend ==
  ASSUME MockTypes, CallSend
  PROVE  PlaneSizes[stage + 1] \in Nat \ {0} /\ PlaneTag \in Tags
<1>1. stage + 1 \in 1..Planes
  BY PlaneCount DEF CallSend, Camera!CallSend, MockTypes
<1>2. PlaneTag \in [image : 0..ImageCount - 1, plane : 1..Planes]
  BY <1>1 DEF PlaneTag, MockTypes
<1> QED
  BY <1>1, <1>2, PlaneCount DEF Tags

LEMMA XferTypesStep ==
  ASSUME XferTypes, ListenTypes, MockTypes, [Next]_vars
  PROVE  XferTypes'
<1>1. Mock \in Senders /\ Sending \in Senders
  BY DEF Senders
<1>2. CASE CallSend
  BY <1>1, <1>2, PlaneToSend, SendImageTypes DEF CallSend
<1>3. CASE CallSendTelemetry
  <2>1. TelemetrySize \in Nat \ {0}
    BY ChunkAssumption
  <2> QED
    BY <1>1, <1>3, <2>1, TagTypes, SendImageTypes DEF CallSendTelemetry
<1>4. CASE Transmit(Mock) \/ Transmit(Sending)
  BY <1>1, <1>4, TransmitTypes DEF Transmit
<1>5. CASE UNCHANGED xfer
  BY <1>5 DEF XferTypes
<1>6. CASE SendReturns \/ SendFails
  BY <1>1, <1>5, <1>6, ReturnTypes
  DEF SendReturns, SendFails, Obc!AllSent, Obc!SendRefused, Obc!SendFails, portVars
<1>7. CASE TelemetryReturns \/ TelemetryFails
  BY <1>1, <1>7, ReturnTypes
  DEF TelemetryReturns, TelemetryFails, Obc!AllSent, Obc!SendRefused, Obc!SendFails
<1> QED
  BY <1>2, <1>3, <1>4, <1>5, <1>6, <1>7, XferSteps

----------------------------------------------------------------------------
(* Planes are sent to somebody.                                            *)

LEMMA SentToSomebodyStep ==
  ASSUME SentToSomebody, XferTypes, MockTypes, Known, [Next]_vars
  PROVE  SentToSomebody'
<1> USE DEF SentToSomebody
<1>1. Mock \in Senders /\ Sending \in Senders /\ Mock # Sending
  BY DEF Senders, Mock, Sending
<1>2. xfer \in [Senders -> Xfers]
  BY XferTypesOK
<1>3. CASE CallSend
  <2>1. client # NoAddress
    BY <1>3, NotNobody DEF CallSend, Camera!CallSend, Camera!Goto, Known
  <2>2. xfer'[Mock].pc = "idle" \/ xfer'[Mock].dest = client
    BY <1>1, <1>2, <1>3 DEF CallSend, Obc!SendImage, Obc!Return, Obc!Returned
  <2> QED
    BY <2>1, <2>2
<1>4. CASE Transmit(Mock)
  <2>1. xfer'[Mock].dest = xfer[Mock].dest
    BY <1>1, <1>2, <1>4 DEF Transmit, Obc!SendHeader, Obc!SendChunk, Xfers
  <2>2. xfer[Mock].pc # "idle"
    BY <1>4 DEF Transmit, Obc!SendHeader, Obc!SendChunk
  <2> QED
    BY <2>1, <2>2
<1>5. CASE SendReturns \/ SendFails
  <2>1. UNCHANGED xfer \/ xfer'[Mock].pc = "idle"
    BY <1>1, <1>2, <1>5 DEF SendReturns, SendFails, Obc!AllSent, Obc!SendRefused,
                            Obc!SendFails, Obc!Return, Obc!Returned, portVars
  <2> QED
    BY <2>1
<1>6. CASE CallSendTelemetry \/ TelemetryReturns \/ TelemetryFails \/ Transmit(Sending)
  <2>1. xfer'[Mock] = xfer[Mock]
    BY <1>1, <1>2, <1>6 DEF CallSendTelemetry, TelemetryReturns, TelemetryFails, Transmit,
                            Obc!SendImage, Obc!AllSent, Obc!SendRefused, Obc!SendFails,
                            Obc!Return, Obc!SendHeader, Obc!SendChunk
  <2> QED
    BY <2>1
<1>7. CASE UNCHANGED xfer
  BY <1>7
<1> QED
  BY <1>3, <1>4, <1>5, <1>6, <1>7, XferSteps

----------------------------------------------------------------------------
(* The network.                                                            *)

Announces(m) == m.kind = "header" => m.num # 0

\* A datagram is sent.
LEMMA SendtoTypes ==
  ASSUME NetTypes, NEW a \in Addresses, NEW kind \in {"header", "chunk", "pong"},
         NEW num \in Nat, NEW size \in Nat, NEW tag \in Tags, kind = "header" => num # 0,
         Obc!Sendto(a, kind, num, size, tag)
  PROVE  NetTypes'
<1> DEFINE m == [kind |-> kind, num |-> num, size |-> size, tag |-> tag]
<1>1. m \in Datagrams /\ Announces(m)
  BY DEF Datagrams, Announces
<1>2. net' = [net EXCEPT ![a] = Append(net[a], m)] /\ net[a] \in Seq(Datagrams)
  BY DEF NetTypes, Obc!Sendto
<1> HIDE DEF m
<1>3. Append(net[a], m) \in Seq(Datagrams)
  BY <1>1, <1>2, AppendProperties
<1>4. \A k \in DOMAIN Append(net[a], m) : Announces(Append(net[a], m)[k])
  <2> TAKE k \in DOMAIN Append(net[a], m)
  <2>1. Append(net[a], m)[k] = m \/ (k \in DOMAIN net[a] /\ Append(net[a], m)[k] = net[a][k])
    BY <1>1, <1>2
  <2> QED
    BY <1>1, <2>1 DEF NetTypes, Announces
<1>5. \A b \in Addresses : net'[b] = net[b] \/ net'[b] = Append(net[a], m)
  BY <1>2 DEF NetTypes
<1>6. net' \in [Addresses -> Seq(Datagrams)]
  BY <1>2, <1>3 DEF NetTypes
<1>7. \A b \in Addresses : \A k \in DOMAIN net'[b] : Announces(net'[b][k])
  BY <1>4, <1>5 DEF NetTypes, Announces
<1> QED
  BY <1>6, <1>7 DEF NetTypes, Announces

\* A datagram is received, or lost.
LEMMA TakenTypes ==
  ASSUME NetTypes, NEW a \in Addresses, net[a] # <<>>, net' = [net EXCEPT ![a] = Tail(@)]
  PROVE  /\ NetTypes'
         /\ Head(net[a]) \in Datagrams
         /\ Announces(Head(net[a]))
<1>1. net[a] \in Seq(Datagrams)
  BY DEF NetTypes
<1>2. Head(net[a]) \in Datagrams /\ Tail(net[a]) \in Seq(Datagrams)
  BY <1>1, HeadTailProperties
<1>3. 1 \in DOMAIN net[a] /\ Head(net[a]) = net[a][1]
  BY <1>1
<1>4. \A k \in DOMAIN Tail(net[a]) : Announces(Tail(net[a])[k])
  <2> TAKE k \in DOMAIN Tail(net[a])
  <2>1. k + 1 \in DOMAIN net[a] /\ Tail(net[a])[k] = net[a][k + 1]
    BY <1>1
  <2> QED
    BY <2>1 DEF NetTypes, Announces
<1>5. \A b \in Addresses : net'[b] = net[b] \/ net'[b] = Tail(net[a])
  BY DEF NetTypes
<1>6. net' \in [Addresses -> Seq(Datagrams)]
  BY <1>2 DEF NetTypes
<1>7. \A b \in Addresses : \A k \in DOMAIN net'[b] : Announces(net'[b][k])
  BY <1>4, <1>5 DEF NetTypes, Announces
<1> QED
  BY <1>2, <1>3, <1>6, <1>7 DEF NetTypes, Announces

LEMMA TransmitNet ==
  ASSUME NetTypes, XferTypes, NEW s \in Senders, Obc!SendHeader(s) \/ Obc!SendChunk(s)
  PROVE  NetTypes'
<1>1. XferOK(xfer[s])
  BY XferTypesOK
<1>2. xfer[s].dest \in Addresses \cup {NoAddress} /\ xfer[s].tag \in Tags
      /\ xfer[s].next \in Nat
  BY <1>1 DEF XferOK, Xfers
<1>3. xfer[s].size \in Nat \ {0}
  BY <1>1 DEF XferOK, Xfers, Obc!SendHeader, Obc!SendChunk
<1>4. CASE Obc!SendHeader(s)
  <2>1. xfer[s].dest \in Addresses
    BY <1>2, <1>4 DEF Obc!SendHeader
  <2>2. Obc!Chunks(xfer[s].size) \in Nat \ {0}
    BY <1>3, ChunkAssumption, AtLeastOneChunk DEF Obc!Chunks
  <2> QED
    BY <1>2, <1>3, <1>4, <2>1, <2>2, SendtoTypes DEF Obc!SendHeader
<1>5. CASE Obc!SendChunk(s)
  <2>1. xfer[s].dest \in Addresses
    BY <1>1, <1>5 DEF XferOK, Obc!SendChunk
  <2>2. Obc!DataSize(xfer[s].size, xfer[s].next) \in Nat
    <3>1. xfer[s].next * ChunkSize \in 0..xfer[s].size - 1
      BY <1>2, <1>3, <1>5, ChunkAssumption, ChunkHasByte DEF Obc!SendChunk, Obc!Chunks
    <3> QED
      BY <1>3, <3>1, ChunkAssumption DEF Obc!DataSize
  <2> QED
    BY <1>2, <1>5, <2>1, <2>2, SendtoTypes DEF Obc!SendChunk
<1> QED
  BY <1>4, <1>5

\* The steps that disturb the network.
LEMMA NetSteps ==
  [Next]_vars =>
    \/ Obc!HandlePing \/ Transmit(Mock) \/ Transmit(Sending)
    \/ (\E c \in Clients : ReceiveDatagram(c) \/ LoseDatagram(c))
    \/ UNCHANGED net
BY DEF Next, Listener, ListenerFails, ImageAsked, MockThread, MockStep, LoadFails, CallSend,
       SendReturns, SendFails, CallSendTelemetry, SendingThread, TelemetryReturns,
       TelemetryFails, RequestImage, Operate, LoseCommand, vars, portVars,
       Obc!StartListener, Obc!TestQuit, Obc!Receive, Obc!StoreClient, Obc!HandleExit,
       Obc!HandleIgnored, Obc!BindFails, Obc!HandleImage, Obc!SendImage, Obc!AllSent,
       Obc!SendRefused, Obc!SendFails, Receiver!RequestImage

LEMMA NetTypesStep ==
  ASSUME NetTypes, XferTypes, ListenTypes, [Next]_vars
  PROVE  NetTypes'
<1>1. Mock \in Senders /\ Sending \in Senders
  BY DEF Senders
<1>2. CASE UNCHANGED net
  BY <1>2 DEF NetTypes
<1>3. CASE Obc!HandlePing
  <2>1. client \in Addresses
    BY <1>3 DEF Obc!HandlePing, Obc!Handle, Obc!Goto, ListenTypes
  <2>2. CASE Obc!Sendto(client, "pong", 0, 1, NoTag)
    BY <2>1, <2>2, TagTypes, SendtoTypes
  <2> QED
    BY <1>2, <1>3, <2>2 DEF Obc!HandlePing
<1>4. CASE Transmit(Mock) \/ Transmit(Sending)
  BY <1>1, <1>4, TransmitNet DEF Transmit
<1>5. ASSUME NEW c \in Clients, ReceiveDatagram(c) \/ LoseDatagram(c) PROVE NetTypes'
  <2>1. c \in Addresses /\ net[c] # <<>> /\ net' = [net EXCEPT ![c] = Tail(@)]
    BY <1>5 DEF ReceiveDatagram, LoseDatagram, Receiver!ReceiveHeader, Receiver!ReceiveChunk,
                Receiver!Recvfrom, Addresses
  <2> QED
    BY <2>1, TakenTypes
<1> QED
  BY <1>2, <1>3, <1>4, <1>5, NetSteps

----------------------------------------------------------------------------
(* The clients.                                                            *)

\* The steps that disturb a client's variables.
LEMMA ClientSteps ==
  [Next]_vars =>
    \/ (\E c \in Clients : RequestImage(c) \/ ReceiveDatagram(c))
    \/ UNCHANGED clientVars
BY DEF Next, Listener, ListenerFails, ImageAsked, MockThread, MockStep, LoadFails, CallSend,
       Transmit, SendReturns, SendFails, CallSendTelemetry, SendingThread, TelemetryReturns,
       TelemetryFails, LoseDatagram, Operate, LoseCommand, vars

BufferTypes ==
  /\ upc \in [Clients -> {"idle", "header", "chunks"}]
  /\ buf \in [Clients -> 1..Buffers]

LEMMA NextBufferTypes ==
  ASSUME BufferTypes, NEW c \in Clients, Receiver!NextBuffer(c)
  PROVE  /\ BufferTypes'
         /\ upc'[c] # "chunks"
         /\ \A d \in Clients \ {c} : upc'[d] = upc[d]
<1>1. Buffers \in Nat /\ buf[c] \in 1..Buffers
  BY PlaneCount DEF Buffers, BufferTypes
<1>2. (IF buf[c] < Buffers THEN buf[c] + 1 ELSE buf[c]) \in 1..Buffers
  BY <1>1
<1>3. buf' \in [Clients -> 1..Buffers]
  BY <1>2 DEF BufferTypes, Receiver!NextBuffer
<1> QED
  BY <1>3 DEF BufferTypes, Receiver!NextBuffer

LEMMA ReceiveHeaderTypes ==
  ASSUME ClientTypes, NetTypes, NEW c \in Clients, Receiver!ReceiveHeader(c)
  PROVE  ClientTypes'
<1> DEFINE m == Head(net[c])
<1>1. m \in Datagrams /\ Announces(m)
  <2>1. c \in Addresses /\ net[c] # <<>> /\ net' = [net EXCEPT ![c] = Tail(@)]
    BY DEF Receiver!ReceiveHeader, Receiver!Recvfrom, Addresses
  <2> QED
    BY <2>1, TakenTypes
<1>2. BufferTypes
  BY DEF BufferTypes, ClientTypes
<1>3. CASE m.kind = "header"
  <2> DEFINE blank == [i \in 1..m.num |-> NoTag]
  <2>1. m.num \in Nat \ {0} /\ m.size \in Nat
    BY <1>1, <1>3 DEF Datagrams, Announces
  <2>2. blank \in Seq(Tags) /\ Len(blank) = m.num
    BY <2>1, TagTypes
  <2>3. /\ upc' = [upc EXCEPT ![c] = "chunks"]
        /\ mem' = [mem EXCEPT ![c] = m.size]
        /\ data' = [data EXCEPT ![c] = blank]
        /\ got' = [got EXCEPT ![c] = 0]
        /\ UNCHANGED buf
    BY <1>3 DEF Receiver!ReceiveHeader
  <2> HIDE DEF m, blank
  <2> QED
    BY <2>1, <2>2, <2>3 DEF ClientTypes
<1>4. CASE m.kind # "header"
  <2>1. Receiver!NextBuffer(c) /\ UNCHANGED <<mem, data, got>>
    BY <1>4 DEF Receiver!ReceiveHeader
  <2> QED
    BY <1>2, <2>1, NextBufferTypes DEF ClientTypes, BufferTypes
<1> QED
  BY <1>3, <1>4

LEMMA WrittenAt ==
  \A s \in Seq(Tags), i \in Nat, v \in Tags :
    [s EXCEPT ![i] = v] \in Seq(Tags) /\ Len([s EXCEPT ![i] = v]) = Len(s)
<1> TAKE s \in Seq(Tags), i \in Nat, v \in Tags
<1> DEFINE written == [s EXCEPT ![i] = v]
<1>1. s \in [1..Len(s) -> Tags] /\ Len(s) \in Nat
  OBVIOUS
<1>2. written \in [1..Len(s) -> Tags]
  BY <1>1
<1> HIDE DEF written
<1>3. written \in Seq(Tags) /\ Len(written) = Len(s)
  BY <1>1, <1>2
<1> QED
  BY <1>3 DEF written

LEMMA ReceiveChunkTypes ==
  ASSUME ClientTypes, NetTypes, NEW c \in Clients, Receiver!ReceiveChunk(c)
  PROVE  ClientTypes'
<1> DEFINE m == Head(net[c])
           filled == [data[c] EXCEPT ![m.num + 1] = m.tag]
<1>1. m \in Datagrams
  <2>1. c \in Addresses /\ net[c] # <<>> /\ net' = [net EXCEPT ![c] = Tail(@)]
    BY DEF Receiver!ReceiveChunk, Receiver!Recvfrom, Addresses
  <2> QED
    BY <2>1, TakenTypes
<1>2. filled \in Seq(Tags) /\ Len(filled) = Len(data[c])
  <2>1. data[c] \in Seq(Tags) /\ m.tag \in Tags /\ m.num + 1 \in Nat
    BY <1>1 DEF ClientTypes, Datagrams
  <2> HIDE DEF m
  <2> QED
    BY <2>1, WrittenAt, Zenon
<1>3. BufferTypes
  BY DEF BufferTypes, ClientTypes
<1>4. /\ upc[c] = "chunks" /\ UNCHANGED mem
      /\ \/ /\ data' = [data EXCEPT ![c] = filled]
            /\ got' = [got EXCEPT ![c] = @ + 1]
            /\ IF got[c] + 1 = Len(data[c])
               THEN Receiver!NextBuffer(c)
               ELSE UNCHANGED <<upc, buf>>
         \/ Receiver!NextBuffer(c) /\ UNCHANGED <<data, got>>
  BY DEF Receiver!ReceiveChunk
<1> HIDE DEF m, filled
<1>5. CASE Receiver!NextBuffer(c) /\ UNCHANGED <<data, got>>
  BY <1>3, <1>4, <1>5, NextBufferTypes DEF ClientTypes, BufferTypes
<1>6. CASE /\ data' = [data EXCEPT ![c] = filled]
           /\ got' = [got EXCEPT ![c] = @ + 1]
           /\ IF got[c] + 1 = Len(data[c])
              THEN Receiver!NextBuffer(c)
              ELSE UNCHANGED <<upc, buf>>
  <2>1. data' \in [Clients -> Seq(Tags)] /\ got' \in [Clients -> Nat]
    BY <1>2, <1>6 DEF ClientTypes
  <2>2. \A d \in Clients : Len(data'[d]) = Len(data[d])
    BY <1>2, <1>6 DEF ClientTypes
  <2>3. BufferTypes'
    BY <1>3, <1>6, NextBufferTypes DEF BufferTypes
  <2>4. \A d \in Clients : \/ d # c /\ got'[d] = got[d] /\ upc'[d] = upc[d]
                           \/ d = c /\ got'[d] = got[d] + 1
                              /\ (upc'[d] = "chunks" => got[d] + 1 # Len(data[d]))
    BY <1>3, <1>6, NextBufferTypes DEF ClientTypes
  <2>5. \A d \in Clients : Len(data[d]) \in Nat /\ got[d] \in Nat
    BY DEF ClientTypes
  <2>6. \A d \in Clients : /\ got'[d] <= Len(data'[d])
                           /\ upc'[d] = "chunks" => got'[d] < Len(data'[d])
    BY <1>4, <2>2, <2>4, <2>5 DEF ClientTypes
  <2>7. mem' \in [Clients -> Nat]
    BY <1>4 DEF ClientTypes
  <2> QED
    BY <2>1, <2>3, <2>6, <2>7 DEF ClientTypes, BufferTypes
<1> QED
  BY <1>4, <1>5, <1>6

LEMMA ClientTypesStep ==
  ASSUME ClientTypes, NetTypes, [Next]_vars
  PROVE  ClientTypes'
<1>1. ASSUME NEW c \in Clients, RequestImage(c) PROVE ClientTypes'
  <2>1. 1 \in 1..Buffers
    BY PlaneCount DEF Buffers
  <2> QED
    BY <1>1, <2>1 DEF RequestImage, Receiver!RequestImage, ClientTypes
<1>2. ASSUME NEW c \in Clients, ReceiveDatagram(c) PROVE ClientTypes'
  BY <1>2, ReceiveHeaderTypes, ReceiveChunkTypes DEF ReceiveDatagram
<1>3. CASE UNCHANGED clientVars
  BY <1>3 DEF clientVars, ClientTypes
<1> QED
  BY <1>1, <1>2, <1>3, ClientSteps

----------------------------------------------------------------------------

IInv ==
  /\ ListenTypes /\ MockTypes /\ Known /\ XferTypes /\ NetTypes /\ ClientTypes
  /\ SentToSomebody

LEMMA InitIInv == Init => IInv
<1>1. Init => SentToSomebody
  BY DEF Init, Obc!Init, Obc!Returned, SentToSomebody, Senders
<1> QED
  BY <1>1, InitTypes DEF IInv

LEMMA StepIInv == IInv /\ [Next]_vars => IInv'
BY ListenTypesStep, MockTypesStep, KnownStep, XferTypesStep, NetTypesStep, ClientTypesStep,
   SentToSomebodyStep DEF IInv

LEMMA Invariance == Spec => []IInv
BY InitIInv, StepIInv, PTL DEF Spec

LEMMA IInvTypeOK == IInv => TypeOK
<1> SUFFICES ASSUME IInv PROVE TypeOK
  OBVIOUS
<1>1. \A s \in Senders : /\ xfer[s].pc \in {"idle", "header", "chunk"}
                         /\ xfer[s].next \in 0..Obc!Chunks(xfer[s].size)
  <2> TAKE s \in Senders
  <2>1. XferOK(xfer[s])
    BY XferTypesOK DEF IInv
  <2> QED
    BY <2>1, ChunkCount DEF XferOK, Xfers
<1>2. image \in 0..ImageCount
  BY ImageAssumption DEF IInv, MockTypes
<1> QED
  BY <1>1, <1>2 DEF IInv, ListenTypes, Commands, MockTypes, NetTypes, ClientTypes, TypeOK

\* Whatever is lost, fails, is asked or sent at the same time, the state stays
\* well-typed: no transfer runs past its last chunk, and no receiver counts
\* more datagrams than its header announced.
THEOREM TypeCorrect == Spec => []TypeOK
BY Invariance, IInvTypeOK, PTL

\* The mock thread never sends a plane to nobody: who asked is stored before
\* the request is counted, and the address is never cleared, only replaced.
THEOREM AlwaysToSomebody == Spec => []SentToSomebody
<1>1. IInv => SentToSomebody
  BY DEF IInv
<1> QED
  BY <1>1, Invariance, PTL

----------------------------------------------------------------------------
(* The refinement of ImageService.                                         *)

LEMMA InitService == Init => Service!Init
BY DEF Init, Camera!Init, Service!Init, Service!NoImage

\* The step that is taken in the service, or none.
LEMMA NextService == IInv /\ [Next]_vars => [Service!Next]_(Service!serviceVars)
<1> SUFFICES ASSUME MockTypes, [Next]_vars
             PROVE  Service!Next \/ UNCHANGED Service!serviceVars
  BY DEF IInv
<1> USE DEF MockTypes, Camera!Goto, Service!NoImage
<1>1. CASE ImageAsked
  <2>1. Service!Ask
    BY <1>1 DEF ImageAsked, Camera!CountRequest, Service!Ask
  <2> QED
    BY <2>1 DEF Service!Next
<1>2. CASE MockStep
  <2>1. CASE Camera!Scan \/ Camera!Load
    BY <2>1 DEF Camera!Scan, Camera!Load, Service!serviceVars
  <2>2. CASE Camera!Poll
    <3>1. Service!Accept
      BY <2>2 DEF Camera!Poll, Service!Accept
    <3> QED
      BY <3>1 DEF Service!Next
  <2>3. CASE Camera!ImageSent
    <3>1. Service!End
      BY <2>3, PlaneCount DEF Camera!ImageSent, Service!End
    <3> QED
      BY <3>1 DEF Service!Next
  <2> QED
    BY <1>2, <2>1, <2>2, <2>3 DEF MockStep
<1>3. CASE LoadFails
  <2>1. Service!End
    BY <1>3 DEF LoadFails, Camera!LoadFails, Service!End
  <2> QED
    BY <2>1 DEF Service!Next
<1>4. CASE CallSend
  BY <1>4 DEF CallSend, Camera!CallSend, Service!serviceVars
<1>5. CASE SendReturns \/ SendFails
  <2>1. Service!SendPlane
    BY <1>5, PlaneCount DEF SendReturns, SendFails, Camera!SendReturns, Service!SendPlane
  <2> QED
    BY <2>1 DEF Service!Next
<1>6. CASE UNCHANGED mockVars
  BY <1>6 DEF mockVars, Service!serviceVars
<1> QED
  BY <1>1, <1>2, <1>3, <1>4, <1>5, <1>6, MockSteps

\* The mock thread, fed by the listener, is an image service as the camera is:
\* each request is served at most once, one image at a time and plane after
\* plane, whether or not its planes can be sent.
THEOREM ImplementsService == Spec => ServiceSpec
BY Invariance, InitService, NextService, PTL DEF Spec, ServiceSpec, Service!Spec
==============================================================================
