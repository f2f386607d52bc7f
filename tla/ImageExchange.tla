----------------------------- MODULE ImageExchange -----------------------------
(***************************************************************************)
(* Image requests from end to end, in mock mode: clients (UdpClient) ask   *)
(* the server (ObcPort) for images, the mock thread (MockCamera) sends     *)
(* them.  With MAVLink, the sending thread (the work queue's) sends each   *)
(* telemetry message the same way, to the same client address, at the same *)
(* time.  Operators are programs on the same network that send the other   *)
(* commands.  Commands and datagrams travel in order.  Up to MaxFaults     *)
(* times one is lost, sendto or bind fails, an image cannot be loaded, or  *)
(* a client asks while no server listens.                                  *)
(***************************************************************************)
EXTENDS Integers, Sequences, FiniteSets

CONSTANTS
  Clients,           \* addresses that run UDPClient
  Operators,         \* addresses that send other commands
  OperatorCmds,      \* the commands they send
  NoAddress,
  ImageCount,        \* files of the mock directory
  PlaneSizes,        \* size of each plane of an image
  TelemetrySize,     \* MAVLINK_MAX_PACKET_LEN
  ChunkSize,         \* CHUNK_SIZE, of the sender and of the receiver
  MaxRequests,       \* bound: images a client asks for
  MaxFaults,         \* bound: how often anything is lost or fails
  MaxTelemetry,      \* bound: telemetry messages to be sent
  MaxOperatorCmds,   \* bound: commands sent by operators
  MaxTrouble         \* bound: the last three together

ASSUME BoundAssumption ==
  /\ MaxFaults \in Nat /\ MaxTelemetry \in Nat
  /\ MaxRequests \in Nat /\ MaxOperatorCmds \in Nat /\ MaxTrouble \in Nat
\* A socket belongs to one program.
ASSUME AddressAssumption ==
  NoAddress \notin Clients \cup Operators /\ Clients \cap Operators = {}
ASSUME ImageAssumption == ImageCount \in Nat \ {0}
ASSUME PlaneAssumption == PlaneSizes \in Seq(Nat \ {0}) /\ PlaneSizes # <<>>
ASSUME ChunkAssumption == ChunkSize \in Nat \ {0} /\ TelemetrySize \in 1..ChunkSize

Addresses == Clients \cup Operators
Mock == "mock"
Sending == "sending"
Senders == {Mock, Sending}
Planes == Len(PlaneSizes)
Buffers == Planes
NoTag == [image |-> -1, plane |-> 0]
TelemetryTag == [image |-> -1, plane |-> 1]

VARIABLES
  inbox, net, lpc, dgram, client, sock, quit, xfer,    \* ObcPort
  sendCount, mpc, image, stage, asked, taken,          \* MockCamera
  upc, req, buf, mem, data, got, files,                \* UdpClient
  telemetry,                                           \* telemetry messages sent
  operated,                                            \* commands operators sent
  faults                                               \* faults so far

Obc == INSTANCE ObcPort
Camera == INSTANCE MockCamera
Receiver == INSTANCE UdpClient

listenVars == <<inbox, lpc, dgram, client, sock, quit>>
portVars == <<listenVars, net, xfer>>
mockVars == <<sendCount, mpc, image, stage, asked, taken>>
clientVars == <<upc, req, buf, mem, data, got, files>>
envVars == <<telemetry, operated>>
vars == <<listenVars, net, xfer, mockVars, clientVars, envVars, faults>>

Init ==
  /\ Obc!Init
  /\ Camera!Init
  /\ Receiver!Init
  /\ telemetry = 0
  /\ operated = 0
  /\ faults = 0

Quiet == faults + telemetry + operated < MaxTrouble

Fault ==
  /\ Quiet /\ faults < MaxFaults
  /\ faults' = faults + 1

----------------------------------------------------------------------------
(* The server: main's thread in start_listener, and the mock thread.       *)

Listener ==
  /\ \/ Obc!StartListener \/ Obc!TestQuit \/ Obc!Receive \/ Obc!StoreClient
     \/ Obc!HandleExit \/ Obc!HandlePing \/ Obc!HandleIgnored
  /\ UNCHANGED <<mockVars, clientVars, envVars, faults>>

ListenerFails ==
  /\ Fault
  /\ Obc!BindFails
  /\ UNCHANGED <<mockVars, clientVars, envVars>>

ImageAsked ==
  /\ Obc!HandleImage
  /\ Camera!CountRequest
  /\ UNCHANGED <<clientVars, envVars, faults>>

\* Steps of mock_thread_loop that use nothing of the port.
MockStep ==
  /\ Camera!Scan \/ Camera!Poll \/ Camera!Load \/ Camera!ImageSent
  /\ UNCHANGED <<portVars, clientVars, envVars, faults>>

LoadFails ==
  /\ Fault
  /\ Camera!LoadFails
  /\ UNCHANGED <<portVars, clientVars, envVars>>

PlaneTag == [image |-> image, plane |-> stage + 1]

CallSend ==
  /\ Camera!CallSend
  /\ Obc!SendImage(Mock, PlaneSizes[stage + 1], PlaneTag)
  /\ UNCHANGED <<clientVars, envVars, faults>>

Transmit(s) ==
  /\ Obc!SendHeader(s) \/ Obc!SendChunk(s)
  /\ UNCHANGED <<mockVars, clientVars, envVars, faults>>

\* send_image returns, the mock thread goes on.
SendReturns ==
  /\ \/ Obc!AllSent(Mock) \/ Obc!SendRefused(Mock)
     \/ xfer[Mock].pc = "idle" /\ UNCHANGED portVars
  /\ Camera!SendReturns
  /\ UNCHANGED <<clientVars, envVars, faults>>

SendFails ==
  /\ Fault
  /\ Obc!SendFails(Mock)
  /\ Camera!SendReturns
  /\ UNCHANGED <<clientVars, envVars>>

MockThread ==
  MockStep \/ LoadFails \/ CallSend \/ Transmit(Mock) \/ SendReturns \/ SendFails

\* The sending thread takes a telemetry message from the work queue.
CallSendTelemetry ==
  /\ Quiet /\ telemetry < MaxTelemetry
  /\ telemetry' = telemetry + 1
  /\ Obc!SendImage(Sending, TelemetrySize, TelemetryTag)
  /\ UNCHANGED <<mockVars, clientVars, operated, faults>>

TelemetryReturns ==
  /\ Obc!AllSent(Sending) \/ Obc!SendRefused(Sending)
  /\ UNCHANGED <<mockVars, clientVars, envVars, faults>>

TelemetryFails ==
  /\ Fault
  /\ Obc!SendFails(Sending)
  /\ UNCHANGED <<mockVars, clientVars, envVars>>

SendingThread == Transmit(Sending) \/ TelemetryReturns \/ TelemetryFails

----------------------------------------------------------------------------
(* Clients, operators and the network.                                     *)

\* A command sent while no socket is bound is lost.
SendCommand(a, cmd) ==
  inbox' = IF sock THEN Append(inbox, [from |-> a, cmd |-> cmd]) ELSE inbox

RequestImage(c) ==
  /\ req[c] < MaxRequests
  /\ IF sock THEN UNCHANGED faults ELSE Fault
  /\ Receiver!RequestImage(c)
  /\ SendCommand(c, "I")
  /\ UNCHANGED <<lpc, dgram, client, sock, quit, xfer, mockVars, envVars>>

ReceiveDatagram(c) ==
  /\ Receiver!ReceiveHeader(c) \/ Receiver!ReceiveChunk(c)
  /\ UNCHANGED <<listenVars, xfer, mockVars, envVars, faults>>

Operate(o, cmd) ==
  /\ Quiet /\ operated < MaxOperatorCmds
  /\ operated' = operated + 1
  /\ SendCommand(o, cmd)
  /\ UNCHANGED <<lpc, dgram, client, sock, quit, net, xfer, mockVars, clientVars,
                 telemetry, faults>>

LoseCommand ==
  /\ Fault
  /\ inbox # <<>>
  /\ inbox' = Tail(inbox)
  /\ UNCHANGED <<lpc, dgram, client, sock, quit, net, xfer, mockVars, clientVars, envVars>>

LoseDatagram(c) ==
  /\ Fault
  /\ net[c] # <<>>
  /\ net' = [net EXCEPT ![c] = Tail(@)]
  /\ UNCHANGED <<listenVars, xfer, mockVars, clientVars, envVars>>

Next ==
  \/ Listener \/ ListenerFails \/ ImageAsked
  \/ MockThread \/ CallSendTelemetry \/ SendingThread
  \/ \E c \in Clients : RequestImage(c) \/ ReceiveDatagram(c) \/ LoseDatagram(c)
  \/ \E o \in Operators, cmd \in OperatorCmds : Operate(o, cmd)
  \/ LoseCommand

Spec == Init /\ [][Next]_vars

\* The threads of the server and of the clients run; no command has to be
\* given, nothing has to fail.
Fairness ==
  /\ WF_vars(Listener) /\ WF_vars(ImageAsked)
  /\ WF_vars(MockThread) /\ WF_vars(SendingThread)
  /\ \A c \in Clients : WF_vars(ReceiveDatagram(c))

FairSpec == Spec /\ Fairness

----------------------------------------------------------------------------
(* Properties.                                                             *)

Tags == [image : 0..ImageCount - 1, plane : 1..Planes] \cup {NoTag, TelemetryTag}
Datagrams == [kind : {"header", "chunk", "pong"}, num : Nat, size : Nat, tag : Tags]

TypeOK ==
  /\ inbox \in Seq([from : Addresses, cmd : {"I"} \cup OperatorCmds])
  /\ net \in [Addresses -> Seq(Datagrams)]
  /\ lpc \in {"off", "test", "recv", "store", "handle", "ended"}
  /\ dgram.from \in Addresses \cup {NoAddress}
  /\ client \in Addresses \cup {NoAddress}
  /\ sock \in BOOLEAN /\ quit \in BOOLEAN
  /\ \A s \in Senders :
       /\ xfer[s].pc \in {"idle", "header", "chunk"}
       /\ xfer[s].next \in 0..Obc!Chunks(xfer[s].size)
  /\ sendCount \in Nat
  /\ mpc \in {"scan", "poll", "load", "call", "sending", "ended"}
  /\ image \in 0..ImageCount
  /\ stage \in 0..Planes
  /\ upc \in [Clients -> {"idle", "header", "chunks"}]
  /\ buf \in [Clients -> 1..Buffers]
  /\ mem \in [Clients -> Nat]
  /\ \A c \in Clients : got[c] <= Len(data[c])

\* The mock thread serves each request once, image after image, plane after
\* plane.
Service == INSTANCE ImageService WITH
  stage <- IF mpc \in {"load", "call", "sending"} THEN stage ELSE -1
ServiceSpec == Service!Spec

\* No plane is sent before there is a client to send it to: the address of a
\* request is stored before the request is counted, in another thread.
\* (Telemetry is sent whether anybody asked for anything or not.)
SentToSomebody == xfer[Mock].pc # "idle" => xfer[Mock].dest # NoAddress

Undisturbed == faults = 0 /\ operated = 0 /\ telemetry = 0

Whole(plane, i) ==
  [k \in 1..Obc!Chunks(PlaneSizes[plane]) |-> [image |-> i, plane |-> plane]]

\* A file holds every chunk of one plane and nothing of another, although the
\* receiver only counts datagrams: one fault makes it give up a file or name
\* it wrongly, and never mixes two planes.  (Two do, and telemetry does.)
FilesWhole ==
  telemetry = 0 /\ faults <= 1 =>
    \A f \in files :
      \E plane \in 1..Planes, i \in 0..ImageCount - 1 :
        f.size = PlaneSizes[plane] /\ f.data = Whole(plane, i)

\* Undisturbed, the n-th request of the only client gets the n-th image of the
\* directory, in turn, and its n-th buffer holds the n-th plane.
FilesRight ==
  Undisturbed => \A f \in files : f.data = Whole(f.buf, (f.req - 1) % ImageCount)

\* When a request is over, all three buffers of its image are saved.
AllBuffersSaved ==
  \A c \in Clients :
    upc[c] = "idle" /\ req[c] > 0
      => {f.buf : f \in {g \in files : g.client = c /\ g.req = req[c]}} = 1..Buffers

\* That is so for every client, whoever else asks and whatever operators do, as
\* long as nothing fails or is lost and there is no telemetry.
FaultlessSaved == faults = 0 /\ telemetry = 0 => AllBuffersSaved

\* A client waits without a timeout.  It gets its three buffers and goes on,
\* whatever else is sent to the server, unless something failed or was lost,
\* telemetry was sent to it as well, or another program's command, whichever
\* and whenever, has put that program's address in the place of its own.
RequestCompletes ==
  \A c \in Clients :
    []<>(upc[c] = "idle") \/ <>[](faults > 0 \/ telemetry > 0 \/ client # c)
=================================================================================
