--------------------------- MODULE ImageFlowProofs ---------------------------
(***************************************************************************)
(* What the clients of the mock server save.  No file mixes two planes,    *)
(* every request gets all its buffers, and the n-th request of an only     *)
(* client gets the n-th image, for any clients, operators, sizes and       *)
(* chunks.  Each holds as long as what it allows to go wrong is all that   *)
(* goes wrong.                                                             *)
(*                                                                         *)
(* First comes the order of the datagrams under way to each client, with   *)
(* what the client makes of them (FlowInv), then their place in the stream *)
(* of an image and the number of requests (AloneInv).                      *)
(***************************************************************************)
EXTENDS ImageExchangeProofs

----------------------------------------------------------------------------
(* Sequences whose neighbours are related.                                 *)

Latest(s) == s[Len(s)]

Linked(s, R) == \A k \in 1..Len(s) - 1 : <<s[k], s[k + 1]>> \in R

LEMMA LinkedAppend ==
  ASSUME NEW T, NEW s \in Seq(T), NEW e \in T, NEW R, Linked(s, R),
         s # <<>> => <<Latest(s), e>> \in R
  PROVE  /\ Linked(Append(s, e), R)
         /\ Append(s, e) # <<>> /\ Latest(Append(s, e)) = e
         /\ s # <<>> => Head(Append(s, e)) = Head(s)
         /\ s = <<>> => Head(Append(s, e)) = e
<1> DEFINE t == Append(s, e)
           n == Len(s)
<1>1. /\ n \in Nat /\ t \in Seq(T) /\ Len(t) = n + 1 /\ t[n + 1] = e
      /\ \A k \in 1..n : t[k] = s[k]
      /\ s = <<>> <=> n = 0
      /\ Head(t) = t[1] /\ (n # 0 => Head(s) = s[1])
  OBVIOUS
<1>2. ASSUME NEW k \in 1..Len(t) - 1 PROVE <<t[k], t[k + 1]>> \in R
  <2>1. CASE k = n
    BY <1>1, <2>1 DEF Latest
  <2>2. CASE k # n
    <3>1. k \in 1..n - 1 /\ k \in 1..n /\ k + 1 \in 1..n
      BY <1>1, <2>2
    <3> QED
      BY <1>1, <3>1 DEF Linked
  <2> QED
    BY <2>1, <2>2
<1> HIDE DEF t
<1> QED
  BY <1>1, <1>2 DEF t, Linked, Latest

LEMMA LinkedTail ==
  ASSUME NEW T, NEW s \in Seq(T), s # <<>>, NEW R, Linked(s, R)
  PROVE  /\ Linked(Tail(s), R)
         /\ Tail(s) # <<>> => /\ <<Head(s), Head(Tail(s))>> \in R
                              /\ Latest(Tail(s)) = Latest(s)
         /\ Tail(s) = <<>> => Latest(s) = Head(s)
<1> DEFINE t == Tail(s)
           n == Len(s)
<1>1. /\ n \in Nat \ {0} /\ t \in Seq(T) /\ Len(t) = n - 1
      /\ \A k \in 1..n - 1 : t[k] = s[k + 1]
      /\ t = <<>> <=> n = 1
      /\ Head(s) = s[1] /\ (n # 1 => Head(t) = t[1])
  <2>1. n \in Nat \ {0} /\ t \in Seq(T) /\ Len(t) = n - 1
    BY HeadTailProperties, EmptySeq
  <2>2. \A k \in 1..n - 1 : t[k] = s[k + 1]
    OBVIOUS
  <2>3. Head(s) = s[1]
    OBVIOUS
  <2> HIDE DEF t
  <2>4. (t = <<>> <=> n = 1) /\ (n # 1 => Head(t) = t[1])
    BY <2>1, EmptySeq
  <2> QED
    BY <2>1, <2>2, <2>3, <2>4
<1>2. ASSUME NEW k \in 1..Len(t) - 1 PROVE <<t[k], t[k + 1]>> \in R
  <2>1. k \in 1..n - 1 /\ k + 1 \in 1..n - 1
    BY <1>1
  <2> QED
    BY <1>1, <2>1 DEF Linked
<1>3. t # <<>> => <<s[1], s[2]>> \in R /\ t[1] = s[2] /\ t[n - 1] = s[n]
  BY <1>1 DEF Linked
<1> HIDE DEF t
<1> QED
  BY <1>1, <1>2, <1>3 DEF t, Linked, Latest

----------------------------------------------------------------------------
(* The datagrams of planes.                                                *)

PlaneTags == [image : 0..ImageCount - 1, plane : 1..Planes]
Parts(tag) == Obc!Chunks(PlaneSizes[tag.plane])

Parcels ==
  {m \in Datagrams :
     /\ m.tag \in PlaneTags
     /\ \/ /\ m.kind = "header"
           /\ m.num = Parts(m.tag) /\ m.size = PlaneSizes[m.tag.plane]
        \/ /\ m.kind = "chunk"
           /\ m.num < Parts(m.tag)
           /\ m.size = Obc!DataSize(PlaneSizes[m.tag.plane], m.num)}

\* The chunk that comes after a datagram, if any does.
Due(m) == IF m.kind = "header" THEN 0 ELSE m.num + 1

\* A chunk comes right after its header or after the chunk before it.
Joined ==
  {p \in Parcels \X Parcels :
     p[2].kind = "chunk" => p[2].tag = p[1].tag /\ p[2].num = Due(p[1])}

\* No plane is cut short by the next.
Unbroken ==
  {p \in Parcels \X Parcels : Due(p[1]) < Parts(p[1].tag) => p[2].kind = "chunk"}

LEMMA PartTypes == \A t \in PlaneTags : Parts(t) \in Nat \ {0}
<1> TAKE t \in PlaneTags
<1>1. PlaneSizes[t.plane] \in Nat \ {0}
  BY PlaneCount DEF PlaneTags
<1> QED
  BY <1>1, ChunkAssumption, AtLeastOneChunk DEF Parts, Obc!Chunks

LEMMA ParcelTypes ==
  ASSUME NEW m \in Parcels
  PROVE  /\ m.tag \in PlaneTags /\ m.num \in Nat /\ m.size \in Nat
         /\ m.kind \in {"header", "chunk"}
         /\ Due(m) \in Nat /\ Due(m) <= Parts(m.tag)
         /\ m.kind = "header" => m.num = Parts(m.tag) /\ m.size = PlaneSizes[m.tag.plane]
         /\ m.kind = "chunk" => m.num < Parts(m.tag)
<1>1. Parts(m.tag) \in Nat \ {0}
  BY PartTypes DEF Parcels
<1> QED
  BY <1>1 DEF Parcels, Datagrams, Due

----------------------------------------------------------------------------
(* One client's part of a step.                                            *)

SentTo(c) == xfer[Mock].pc = "chunk" /\ xfer[Mock].dest = c

Counters ==
  faults \in Nat /\ telemetry \in Nat /\ operated \in Nat /\ req \in [Clients -> Nat]

\* Clients ask for images and nothing else.
OnlyOperatorsPing ==
  /\ \A k \in DOMAIN inbox : inbox[k].cmd = "I" \/ inbox[k].from \in Operators
  /\ lpc \in {"store", "handle"} => dgram.cmd = "I" \/ dgram.from \in Operators
  /\ lpc = "handle" => client = dgram.from

\* Without telemetry there are the mock thread's transfers only, of planes.
PlanesOnly ==
  /\ xfer[Sending].pc = "idle"
  /\ xfer[Mock].pc # "idle" => /\ xfer[Mock].tag \in PlaneTags
                               /\ xfer[Mock].size = PlaneSizes[xfer[Mock].tag.plane]
  /\ xfer[Mock].pc = "header" => xfer[Mock].next = 0

Untouched(c) ==
  /\ upc'[c] = upc[c] /\ req'[c] = req[c] /\ buf'[c] = buf[c] /\ mem'[c] = mem[c]
  /\ data'[c] = data[c] /\ got'[c] = got[c]

\* A step that sends the client nothing and takes nothing from it.
Elsewhere(c) ==
  /\ net'[c] = net[c]
  /\ Untouched(c)
  /\ \/ xfer'[Mock] = xfer[Mock]
     \/ xfer'[Mock].pc \in {"idle", "header"}
     \/ xfer'[Mock].dest = xfer[Mock].dest /\ xfer[Mock].dest # c

LEMMA CountersStep ==
  ASSUME Counters, [Next]_vars
  PROVE  /\ Counters'
         /\ faults' = faults \/ faults' = faults + 1
         /\ telemetry' >= telemetry /\ operated' >= operated
         /\ CallSendTelemetry => telemetry' > 0
         /\ (\E o \in Operators, cmd \in OperatorCmds : Operate(o, cmd)) => operated' > 0
<1>1. \/ UNCHANGED <<telemetry, operated, faults>>
      \/ Fault /\ UNCHANGED <<telemetry, operated>>
      \/ CallSendTelemetry /\ telemetry' = telemetry + 1 /\ UNCHANGED <<operated, faults>>
      \/ /\ \E o \in Operators, cmd \in OperatorCmds : Operate(o, cmd)
         /\ operated' = operated + 1 /\ UNCHANGED <<telemetry, faults>>
  BY DEF Next, Listener, ListenerFails, ImageAsked, MockThread, MockStep, LoadFails, CallSend,
         Transmit, SendReturns, SendFails, CallSendTelemetry, SendingThread, TelemetryReturns,
         TelemetryFails, RequestImage, ReceiveDatagram, LoseDatagram, Operate, LoseCommand,
         vars, envVars
<1>2. CallSendTelemetry => telemetry' = telemetry + 1
  BY DEF CallSendTelemetry
<1>3. (\E o \in Operators, cmd \in OperatorCmds : Operate(o, cmd)) => operated' = operated + 1
  BY DEF Operate
<1>4. req' \in [Clients -> Nat]
  <2>1. ASSUME NEW c \in Clients, RequestImage(c) PROVE req' \in [Clients -> Nat]
    BY <2>1 DEF Counters, RequestImage, Receiver!RequestImage
  <2>2. ASSUME NEW c \in Clients, ReceiveDatagram(c) PROVE UNCHANGED req
    BY <2>2 DEF ReceiveDatagram, Receiver!ReceiveHeader, Receiver!ReceiveChunk
  <2> QED
    BY <2>1, <2>2, ClientSteps DEF Counters, clientVars
<1> QED
  BY <1>1, <1>2, <1>3, <1>4 DEF Counters, Fault

LEMMA OnlyOperatorsPingStep ==
  ASSUME ListenTypes, OnlyOperatorsPing, [Next]_vars
  PROVE  OnlyOperatorsPing'
<1> DEFINE Asks(d) == d.cmd = "I" \/ d.from \in Operators
<1>0. inbox \in Seq(Commands) /\ \A k \in DOMAIN inbox : Asks(inbox[k])
  BY DEF ListenTypes, OnlyOperatorsPing
<1>1. CASE Listener
  <2>1. CASE Obc!StartListener \/ Obc!TestQuit
    BY <2>1 DEF Obc!StartListener, Obc!TestQuit, Obc!Goto, OnlyOperatorsPing
  <2>2. CASE Obc!Receive
    <3>1. Asks(Head(inbox)) /\ \A k \in DOMAIN Tail(inbox) : Asks(Tail(inbox)[k])
      <4>1. inbox # <<>>
        BY <2>2 DEF Obc!Receive
      <4>2. 1 \in DOMAIN inbox /\ Head(inbox) = inbox[1]
        BY <1>0, <4>1
      <4>3. \A k \in DOMAIN Tail(inbox) : k + 1 \in DOMAIN inbox /\ Tail(inbox)[k] = inbox[k + 1]
        BY <1>0, <4>1
      <4> QED
        BY <1>0, <4>2, <4>3
    <3> QED
      BY <2>2, <3>1 DEF Obc!Receive, Obc!Goto, OnlyOperatorsPing
  <2>3. CASE Obc!StoreClient
    BY <2>3 DEF Obc!StoreClient, Obc!Goto, OnlyOperatorsPing
  <2>4. CASE Obc!HandleExit \/ Obc!HandlePing \/ Obc!HandleIgnored
    BY <2>4 DEF Obc!HandleExit, Obc!HandlePing, Obc!HandleIgnored, Obc!Handle, Obc!Goto,
                OnlyOperatorsPing
  <2> QED
    BY <1>1, <2>1, <2>2, <2>3, <2>4 DEF Listener
<1>2. CASE ListenerFails \/ ImageAsked
  BY <1>2 DEF ListenerFails, ImageAsked, Obc!BindFails, Obc!HandleImage, Obc!Handle, Obc!Goto,
              OnlyOperatorsPing
<1>3. CASE LoseCommand
  <2>1. \A k \in DOMAIN Tail(inbox) : k + 1 \in DOMAIN inbox /\ Tail(inbox)[k] = inbox[k + 1]
    BY <1>0, <1>3 DEF LoseCommand
  <2> QED
    BY <1>3, <2>1 DEF LoseCommand, OnlyOperatorsPing
<1>4. ASSUME NEW a, NEW cmd, SendCommand(a, cmd), cmd = "I" \/ a \in Operators,
             UNCHANGED <<lpc, dgram, client>>
      PROVE  OnlyOperatorsPing'
  <2> DEFINE d == [from |-> a, cmd |-> cmd]
  <2>1. Asks(d)
    BY <1>4
  <2>2. \A k \in DOMAIN Append(inbox, d) :
          Append(inbox, d)[k] = d \/ (k \in DOMAIN inbox /\ Append(inbox, d)[k] = inbox[k])
    BY <1>0
  <2>3. inbox' = Append(inbox, d) \/ inbox' = inbox
    BY <1>4 DEF SendCommand
  <2> HIDE DEF d
  <2>4. \A k \in DOMAIN inbox' : Asks(inbox'[k])
    BY <1>0, <2>1, <2>2, <2>3
  <2> QED
    BY <1>4, <2>4 DEF OnlyOperatorsPing
<1>5. CASE \E c \in Clients : RequestImage(c)
  BY <1>4, <1>5 DEF RequestImage
<1>6. CASE \E o \in Operators, cmd \in OperatorCmds : Operate(o, cmd)
  BY <1>4, <1>6 DEF Operate
<1>7. CASE UNCHANGED listenVars
  BY <1>7 DEF listenVars, OnlyOperatorsPing
<1> QED
  BY <1>1, <1>2, <1>3, <1>5, <1>6, <1>7, ListenSteps

\* Until there is a listener, nothing is sent.
NotListening ==
  lpc = "off" => /\ ~sock /\ client = NoAddress
                 /\ \A s \in Senders : xfer[s].pc = "idle"
                 /\ \A a \in Addresses : net[a] = <<>>
                 /\ \A c \in Clients : upc[c] # "chunks"

LEMMA NotListeningStep ==
  ASSUME IInv, NotListening, [Next]_vars
  PROVE  NotListening'
<1> SUFFICES ASSUME lpc' = "off"
             PROVE  /\ ~sock' /\ client' = NoAddress
                    /\ \A s \in Senders : xfer'[s].pc = "idle"
                    /\ \A a \in Addresses : net'[a] = <<>>
                    /\ \A c \in Clients : upc'[c] # "chunks"
  BY DEF NotListening
<1>1. lpc = "off" /\ UNCHANGED <<sock, client>>
  BY ListenSteps
     DEF Listener, ListenerFails, ImageAsked, LoseCommand, RequestImage, Operate, listenVars,
         Obc!StartListener, Obc!TestQuit, Obc!Receive, Obc!StoreClient, Obc!HandleExit,
         Obc!HandlePing, Obc!HandleIgnored, Obc!BindFails, Obc!HandleImage, Obc!Handle,
         Obc!Goto
<1>2. /\ ~sock /\ client = NoAddress
      /\ \A s \in Senders : xfer[s].pc = "idle"
      /\ \A a \in Addresses : net[a] = <<>>
      /\ \A c \in Clients : upc[c] # "chunks"
  BY <1>1 DEF NotListening
<1>3. Mock \in Senders /\ Sending \in Senders
  BY DEF Senders
<1>4. ~Transmit(Mock) /\ ~Transmit(Sending)
  BY <1>2, <1>3 DEF Transmit, Obc!SendHeader, Obc!SendChunk
<1>5. \A s \in Senders : xfer'[s].pc = "idle"
  <2>1. xfer \in [Senders -> Xfers]
    BY XferTypesOK DEF IInv
  <2>2. ASSUME NEW s \in Senders, Obc!Return(s) PROVE \A t \in Senders : xfer'[t].pc = "idle"
    BY <1>2, <2>1, <2>2 DEF Obc!Return, Obc!Returned
  <2>3. CallSend => Obc!Return(Mock)
    BY <1>2 DEF CallSend, Obc!SendImage
  <2>4. CallSendTelemetry => Obc!Return(Sending)
    BY <1>2 DEF CallSendTelemetry, Obc!SendImage
  <2>5. SendReturns \/ SendFails => Obc!Return(Mock) \/ UNCHANGED xfer
    BY DEF SendReturns, SendFails, Obc!AllSent, Obc!SendRefused, Obc!SendFails, portVars
  <2>6. TelemetryReturns \/ TelemetryFails => Obc!Return(Sending)
    BY DEF TelemetryReturns, TelemetryFails, Obc!AllSent, Obc!SendRefused, Obc!SendFails
  <2> QED
    BY <1>2, <1>3, <1>4, <2>2, <2>3, <2>4, <2>5, <2>6, XferSteps
<1>6. \A c \in Clients : ~ReceiveDatagram(c) /\ ~LoseDatagram(c)
  BY <1>2 DEF ReceiveDatagram, LoseDatagram, Receiver!ReceiveHeader, Receiver!ReceiveChunk,
              Receiver!Recvfrom, Addresses
<1>7. UNCHANGED net
  BY <1>1, <1>4, <1>6, NetSteps DEF Obc!HandlePing, Obc!Handle, Obc!Goto
<1>8. \A c \in Clients : upc'[c] # "chunks"
  <2>1. upc \in [Clients -> {"idle", "header", "chunks"}]
    BY DEF IInv, ClientTypes
  <2> QED
    BY <1>2, <1>6, <2>1, ClientSteps DEF RequestImage, Receiver!RequestImage, clientVars
<1> QED
  BY <1>1, <1>2, <1>5, <1>7, <1>8

LEMMA PlanesOnlyStep ==
  ASSUME IInv, PlanesOnly, [Next]_vars, ~CallSendTelemetry
  PROVE  PlanesOnly'
<1>1. Mock \in Senders /\ Sending \in Senders /\ Mock # Sending
  BY DEF Senders, Mock, Sending
<1>2. xfer \in [Senders -> Xfers]
  BY XferTypesOK DEF IInv
<1>3. CASE CallSend
  <2>1. PlaneTag \in PlaneTags /\ PlaneTag.plane = stage + 1
    <3>1. stage + 1 \in 1..Planes
      BY <1>3, PlaneCount DEF IInv, CallSend, Camera!CallSend, MockTypes
    <3> QED
      BY <3>1 DEF PlaneTag, PlaneTags, IInv, MockTypes
  <2>2. xfer'[Sending] = xfer[Sending]
        /\ (xfer'[Mock] = Obc!Returned
            \/ xfer'[Mock] = [pc |-> "header", dest |-> client, size |-> PlaneSizes[stage + 1],
                              next |-> 0, tag |-> PlaneTag])
    BY <1>1, <1>2, <1>3 DEF CallSend, Obc!SendImage, Obc!Return
  <2> QED
    BY <2>1, <2>2 DEF PlanesOnly, Obc!Returned
<1>4. CASE SendReturns \/ SendFails
  <2>1. UNCHANGED xfer \/ xfer' = [xfer EXCEPT ![Mock] = Obc!Returned]
    BY <1>4 DEF SendReturns, SendFails, Obc!AllSent, Obc!SendRefused, Obc!SendFails,
                Obc!Return, portVars
  <2> QED
    BY <1>1, <1>2, <2>1 DEF PlanesOnly, Obc!Returned
<1>5. CASE TelemetryReturns \/ TelemetryFails \/ Transmit(Sending)
  BY <1>5 DEF PlanesOnly, TelemetryReturns, TelemetryFails, Transmit, Obc!AllSent,
              Obc!SendRefused, Obc!SendFails, Obc!SendHeader, Obc!SendChunk
<1>6. CASE Transmit(Mock)
  <2>1. \/ xfer[Mock].pc = "header" /\ xfer' = [xfer EXCEPT ![Mock].pc = "chunk"]
        \/ xfer[Mock].pc = "chunk" /\ xfer' = [xfer EXCEPT ![Mock].next = @ + 1]
    BY <1>6 DEF Transmit, Obc!SendHeader, Obc!SendChunk
  <2> QED
    BY <1>1, <1>2, <2>1 DEF PlanesOnly, Xfers
<1>7. CASE UNCHANGED xfer
  BY <1>7 DEF PlanesOnly
<1> QED
  BY <1>3, <1>4, <1>5, <1>6, <1>7, XferSteps

\* A datagram of the plane under way is sent to the client.
Sent(c, m) ==
  /\ m \in Parcels
  /\ net'[c] = Append(net[c], m)
  /\ Untouched(c)
  /\ UNCHANGED <<sock, faults, files>> /\ sock
  /\ SentTo(c)' /\ xfer'[Mock].tag = m.tag /\ xfer'[Mock].next = Due(m)
  /\ IF m.kind = "header"
     THEN xfer[Mock].pc = "header"
     ELSE SentTo(c) /\ xfer[Mock].tag = m.tag /\ xfer[Mock].next = m.num

LEMMA Transmitted ==
  ASSUME IInv, PlanesOnly, NEW c \in Clients, Transmit(Mock), xfer[Mock].dest = c
  PROVE  \E m \in Parcels : Sent(c, m)
<1> DEFINE x == xfer[Mock]
           n == Obc!Chunks(x.size)
<1>1. Mock \in Senders /\ c \in Addresses
  BY DEF Senders, Addresses
<1>2. xfer \in [Senders -> Xfers] /\ XferOK(x) /\ net \in [Addresses -> Seq(Datagrams)]
  BY <1>1, XferTypesOK DEF IInv, NetTypes
<1>3. x.pc # "idle"
  BY DEF Transmit, Obc!SendHeader, Obc!SendChunk
<1>4. x.tag \in PlaneTags /\ x.size = PlaneSizes[x.tag.plane] /\ n = Parts(x.tag)
  BY <1>3 DEF PlanesOnly, Parts
<1>5. n \in Nat \ {0} /\ x.size \in Nat /\ x.next \in Nat /\ x.tag \in Tags
  BY <1>2, <1>4, PartTypes DEF XferOK, Xfers
<1>6. UNCHANGED <<sock, faults, files>> /\ Untouched(c)
  BY DEF Transmit, Obc!SendHeader, Obc!SendChunk, listenVars, Obc!listenVars, clientVars,
         Untouched
<1>7. CASE Obc!SendHeader(Mock)
  <2> DEFINE m == [kind |-> "header", num |-> n, size |-> x.size, tag |-> x.tag]
  <2>1. m \in Parcels
    BY <1>4, <1>5 DEF Parcels, Datagrams
  <2>2. net' = [net EXCEPT ![c] = Append(@, m)] /\ sock /\ x.pc = "header"
        /\ xfer' = [xfer EXCEPT ![Mock].pc = "chunk"]
    BY <1>7 DEF Obc!SendHeader, Obc!Sendto
  <2>3. m.kind = "header" /\ m.tag = x.tag /\ Due(m) = 0
    BY DEF Due
  <2> HIDE DEF m
  <2>4. net'[c] = Append(net[c], m)
    BY <1>1, <1>2, <2>2
  <2>5. SentTo(c)' /\ xfer'[Mock].tag = x.tag /\ xfer'[Mock].next = 0
    BY <1>1, <1>2, <2>2 DEF PlanesOnly, SentTo, Xfers
  <2> QED
    BY <1>6, <2>1, <2>2, <2>3, <2>4, <2>5 DEF Sent
<1>8. CASE Obc!SendChunk(Mock)
  <2> DEFINE m == [kind |-> "chunk", num |-> x.next, size |-> Obc!DataSize(x.size, x.next),
                   tag |-> x.tag]
  <2>1. x.next < n
    BY <1>8 DEF Obc!SendChunk
  <2>2. Obc!DataSize(x.size, x.next) \in Nat
    <3>1. x.next * ChunkSize \in 0..x.size - 1
      BY <1>5, <2>1, ChunkAssumption, ChunkHasByte DEF Obc!Chunks
    <3> QED
      BY <1>5, <3>1, ChunkAssumption DEF Obc!DataSize
  <2>3. m \in Parcels
    BY <1>4, <1>5, <2>1, <2>2 DEF Parcels, Datagrams
  <2>4. net' = [net EXCEPT ![c] = Append(@, m)] /\ sock /\ x.pc = "chunk"
        /\ xfer' = [xfer EXCEPT ![Mock].next = @ + 1]
    BY <1>8 DEF Obc!SendChunk, Obc!Sendto
  <2>5. m.kind = "chunk" /\ m.tag = x.tag /\ m.num = x.next /\ Due(m) = x.next + 1
    BY DEF Due
  <2> HIDE DEF m
  <2>6. net'[c] = Append(net[c], m)
    BY <1>1, <1>2, <2>4
  <2>7. SentTo(c) /\ SentTo(c)' /\ xfer'[Mock].tag = x.tag /\ xfer'[Mock].next = x.next + 1
    BY <1>1, <1>2, <2>4 DEF SentTo, Xfers
  <2> QED
    BY <1>6, <2>3, <2>4, <2>5, <2>6, <2>7 DEF Sent
<1> QED
  BY <1>7, <1>8 DEF Transmit

\* What a step may mean to one client.
LEMMA Movement ==
  ASSUME IInv, OnlyOperatorsPing, PlanesOnly, NEW c \in Clients, [Next]_vars, ~CallSendTelemetry
  PROVE  \/ \E m \in Parcels : Sent(c, m)
         \/ ReceiveDatagram(c) \/ LoseDatagram(c) \/ RequestImage(c)
         \/ Elsewhere(c)
<1> SUFFICES ASSUME ~(Transmit(Mock) /\ xfer[Mock].dest = c),
                    ~ReceiveDatagram(c), ~LoseDatagram(c), ~RequestImage(c)
             PROVE  Elsewhere(c)
  BY Transmitted
<1>1. Mock \in Senders /\ Sending \in Senders /\ c \in Addresses /\ c \notin Operators
  BY AddressAssumption DEF Senders, Addresses
<1>2. xfer \in [Senders -> Xfers] /\ net \in [Addresses -> Seq(Datagrams)]
  BY XferTypesOK DEF IInv, NetTypes
<1>3. net'[c] = net[c]
  <2>1. CASE Obc!HandlePing
    <3>1. client # c
      BY <1>1, <2>1 DEF Obc!HandlePing, Obc!Handle, Obc!Goto, OnlyOperatorsPing
    <3> QED
      BY <1>1, <1>2, <2>1, <3>1 DEF Obc!HandlePing, Obc!Sendto
  <2>2. CASE Transmit(Mock)
    BY <1>1, <1>2, <2>2 DEF Transmit, Obc!SendHeader, Obc!SendChunk, Obc!Sendto
  <2>3. CASE Transmit(Sending)
    BY <2>3 DEF Transmit, Obc!SendHeader, Obc!SendChunk, PlanesOnly
  <2>4. ASSUME NEW d \in Clients, ReceiveDatagram(d) \/ LoseDatagram(d) PROVE net'[c] = net[c]
    <3>1. c # d /\ net' = [net EXCEPT ![d] = Tail(@)]
      BY <2>4 DEF ReceiveDatagram, LoseDatagram, Receiver!ReceiveHeader, Receiver!ReceiveChunk,
                  Receiver!Recvfrom
    <3> QED
      BY <1>1, <1>2, <3>1
  <2> QED
    BY <2>1, <2>2, <2>3, <2>4, NetSteps
<1>4. Untouched(c)
  <2>1. CASE UNCHANGED clientVars
    BY <2>1 DEF clientVars, Untouched
  <2>2. ASSUME NEW d \in Clients, RequestImage(d) \/ ReceiveDatagram(d) PROVE Untouched(c)
    <3>1. c # d
      BY <2>2
    <3>2. ClientTypes
      BY DEF IInv
    <3>3. CASE RequestImage(d)
      BY <3>1, <3>2, <3>3 DEF RequestImage, Receiver!RequestImage, ClientTypes, Untouched
    <3>4. CASE ReceiveDatagram(d)
      <4>1. Receiver!NextBuffer(d) => upc'[c] = upc[c] /\ buf'[c] = buf[c]
        BY <3>1, <3>2 DEF Receiver!NextBuffer, ClientTypes
      <4>2. upc'[c] = upc[c] /\ buf'[c] = buf[c] /\ req'[c] = req[c]
        BY <3>1, <3>2, <3>4, <4>1
        DEF ReceiveDatagram, Receiver!ReceiveHeader, Receiver!ReceiveChunk, ClientTypes
      <4>3. mem'[c] = mem[c] /\ data'[c] = data[c] /\ got'[c] = got[c]
        BY <3>1, <3>2, <3>4
        DEF ReceiveDatagram, Receiver!ReceiveHeader, Receiver!ReceiveChunk, ClientTypes
      <4> QED
        BY <4>2, <4>3 DEF Untouched
    <3> QED
      BY <2>2, <3>3, <3>4
  <2> QED
    BY <2>1, <2>2, ClientSteps
<1>5. \/ xfer'[Mock] = xfer[Mock]
      \/ xfer'[Mock].pc \in {"idle", "header"}
      \/ xfer'[Mock].dest = xfer[Mock].dest /\ xfer[Mock].dest # c
  <2>1. CASE CallSend
    BY <1>1, <1>2, <2>1 DEF CallSend, Obc!SendImage, Obc!Return, Obc!Returned
  <2>2. CASE SendReturns \/ SendFails
    BY <1>1, <1>2, <2>2 DEF SendReturns, SendFails, Obc!AllSent, Obc!SendRefused,
                            Obc!SendFails, Obc!Return, Obc!Returned, portVars
  <2>3. CASE TelemetryReturns \/ TelemetryFails \/ Transmit(Sending)
    BY <2>3 DEF PlanesOnly, TelemetryReturns, TelemetryFails, Transmit, Obc!AllSent,
                Obc!SendRefused, Obc!SendFails, Obc!SendHeader, Obc!SendChunk
  <2>4. CASE Transmit(Mock)
    BY <1>1, <1>2, <2>4 DEF Transmit, Obc!SendHeader, Obc!SendChunk, Xfers
  <2> QED
    BY <2>1, <2>2, <2>3, <2>4, XferSteps
<1> QED
  BY <1>3, <1>4, <1>5 DEF Elsewhere

\* A transfer ends when it is complete, or it is disturbed.
LEMMA TransferEnds ==
  ASSUME IInv, PlanesOnly, NEW c \in Clients, [Next]_vars, ~CallSendTelemetry, Counters,
         SentTo(c), ~SentTo(c)'
  PROVE  \/ faults' = faults + 1
         \/ ~sock
         \/ xfer[Mock].next = Obc!Chunks(xfer[Mock].size)
<1>1. Mock \in Senders /\ Sending \in Senders /\ c \in Addresses
  BY DEF Senders, Addresses
<1>2. xfer \in [Senders -> Xfers]
  BY XferTypesOK DEF IInv
<1>3. CASE CallSend
  BY <1>3 DEF CallSend, Obc!SendImage, SentTo
<1>4. CASE SendFails
  BY <1>4 DEF SendFails, Fault
<1>5. CASE SendReturns
  <2>1. Obc!AllSent(Mock) \/ Obc!SendRefused(Mock)
    BY <1>5 DEF SendReturns, SentTo
  <2>2. xfer[Mock].dest # NoAddress
    BY <1>1, NotNobody DEF SentTo
  <2> QED
    BY <2>1, <2>2 DEF Obc!AllSent, Obc!SendRefused
<1>6. CASE TelemetryReturns \/ TelemetryFails \/ Transmit(Sending)
  BY <1>6 DEF PlanesOnly, TelemetryReturns, TelemetryFails, Transmit, Obc!AllSent,
              Obc!SendRefused, Obc!SendFails, Obc!SendHeader, Obc!SendChunk
<1>7. CASE Transmit(Mock)
  BY <1>1, <1>2, <1>7 DEF Transmit, Obc!SendHeader, Obc!SendChunk, Xfers, SentTo
<1>8. CASE UNCHANGED xfer
  BY <1>8 DEF SentTo
<1> QED
  BY <1>3, <1>4, <1>5, <1>6, <1>7, <1>8, XferSteps

LEMMA SocketOpens ==
  [Next]_vars /\ sock' /\ ~sock => lpc = "off"
BY ListenSteps
   DEF Listener, ListenerFails, ImageAsked, LoseCommand, RequestImage, Operate, listenVars,
       Obc!StartListener, Obc!TestQuit, Obc!Receive, Obc!StoreClient, Obc!HandleExit,
       Obc!HandlePing, Obc!HandleIgnored, Obc!BindFails, Obc!HandleImage, Obc!Handle,
       Obc!Goto

----------------------------------------------------------------------------
(* What is on its way to a client, and what the client makes of it.        *)

Ordered(c) ==
  /\ net[c] \in Seq(Parcels)
  /\ Linked(net[c], Joined)
  /\ net[c] # <<>> /\ SentTo(c) => /\ Latest(net[c]).tag = xfer[Mock].tag
                                   /\ Due(Latest(net[c])) = xfer[Mock].next

\* The client has chunks of the plane t, each once, all of them before number p.
Holds(c, t, p) ==
  /\ mem[c] = PlaneSizes[t.plane]
  /\ Len(data[c]) = Parts(t)
  /\ got[c] <= p /\ p <= Parts(t)
  /\ got[c] = p => \A k \in 1..p : data[c][k] = t

\* The next chunk that comes is one of the plane t, from number p on.
Awaits(c, t, p) ==
  /\ net[c] # <<>> /\ Head(net[c]).kind = "chunk" =>
       Head(net[c]).tag = t /\ p <= Head(net[c]).num
  /\ net[c] = <<>> /\ SentTo(c) => xfer[Mock].tag = t /\ p <= xfer[Mock].next

Gathering(c) ==
  upc[c] = "chunks" => \E t \in PlaneTags, p \in Nat : Holds(c, t, p) /\ Awaits(c, t, p)

\* Nothing was lost so far: what the client waits for is on its way.
Complete(c) ==
  /\ Linked(net[c], Unbroken)
  /\ net[c] # <<>> /\ Due(Latest(net[c])) < Parts(Latest(net[c]).tag) /\ sock => SentTo(c)
  /\ upc[c] = "chunks" =>
       IF net[c] # <<>>
       THEN Head(net[c]).kind = "chunk" /\ Head(net[c]).num = got[c]
       ELSE sock => SentTo(c) /\ xfer[Mock].next = got[c]

\* A datagram leaves the queue.
Removed(c) ==
  /\ net[c] # <<>>
  /\ net'[c] = Tail(net[c])
  /\ UNCHANGED <<sock, xfer>>

LEMMA TransferStays ==
  ASSUME NEW c \in Clients, Elsewhere(c), SentTo(c)'
  PROVE  SentTo(c) /\ xfer'[Mock] = xfer[Mock]
BY DEF Elsewhere, SentTo

LEMMA OrderedStep ==
  ASSUME NEW c \in Clients, Ordered(c),
         (\E m \in Parcels : Sent(c, m)) \/ Removed(c) \/ Elsewhere(c)
         \/ UNCHANGED <<net, xfer>>
  PROVE  Ordered(c)'
<1>1. ASSUME NEW m \in Parcels, Sent(c, m) PROVE Ordered(c)'
  <2>1. net[c] # <<>> => <<Latest(net[c]), m>> \in Joined
    <3> SUFFICES ASSUME net[c] # <<>> PROVE <<Latest(net[c]), m>> \in Joined
      OBVIOUS
    <3>1. Latest(net[c]) \in Parcels
      BY EmptySeq DEF Ordered, Latest
    <3> QED
      BY <1>1, <3>1 DEF Joined, Sent, Ordered
  <2>2. net'[c] = Append(net[c], m)
    BY <1>1 DEF Sent
  <2>3. net'[c] \in Seq(Parcels) /\ Linked(net'[c], Joined) /\ Latest(net'[c]) = m
    BY <2>1, <2>2, LinkedAppend, AppendProperties DEF Ordered
  <2> QED
    BY <1>1, <2>3 DEF Sent, Ordered, SentTo
<1>2. CASE Removed(c)
  <2>1. Tail(net[c]) \in Seq(Parcels)
    BY <1>2, HeadTailProperties DEF Removed, Ordered
  <2>2. Linked(Tail(net[c]), Joined)
        /\ (Tail(net[c]) # <<>> => Latest(Tail(net[c])) = Latest(net[c]))
    BY <1>2, LinkedTail DEF Removed, Ordered
  <2> QED
    BY <1>2, <2>1, <2>2 DEF Removed, Ordered, SentTo
<1>3. CASE Elsewhere(c)
  BY <1>3, TransferStays DEF Ordered, Elsewhere
<1>4. CASE UNCHANGED <<net, xfer>>
  BY <1>4 DEF Ordered, SentTo
<1> QED
  BY <1>1, <1>2, <1>3, <1>4

\* The datagram that is taken, and what follows it.
LEMMA Followed ==
  ASSUME NEW c \in Clients, Ordered(c), Removed(c)
  PROVE  /\ Head(net[c]) \in Parcels
         /\ net'[c] # <<>> /\ Head(net'[c]).kind = "chunk" =>
              Head(net'[c]).tag = Head(net[c]).tag /\ Head(net'[c]).num = Due(Head(net[c]))
         /\ net'[c] = <<>> /\ SentTo(c)' =>
              xfer'[Mock].tag = Head(net[c]).tag /\ xfer'[Mock].next = Due(Head(net[c]))
<1>1. net[c] \in Seq(Parcels) /\ net[c] # <<>> /\ Linked(net[c], Joined)
      /\ net'[c] = Tail(net[c])
  BY DEF Ordered, Removed
<1>2. Head(net[c]) \in Parcels
  BY <1>1, HeadTailProperties
<1>3. /\ Tail(net[c]) # <<>> => <<Head(net[c]), Head(Tail(net[c]))>> \in Joined
      /\ Tail(net[c]) = <<>> => Latest(net[c]) = Head(net[c])
  BY <1>1, LinkedTail
<1> QED
  BY <1>1, <1>2, <1>3 DEF Joined, Ordered, Removed, SentTo

\* A datagram is received: it is a header, a chunk that fits, or it ends the
\* buffer.
LEMMA Received ==
  ASSUME IInv, NEW c \in Clients, ReceiveDatagram(c)
  PROVE  LET m == Head(net[c])
             filled == [data[c] EXCEPT ![m.num + 1] = m.tag]
         IN /\ Removed(c) /\ UNCHANGED <<lpc, faults, telemetry, operated>>
            /\ \/ /\ upc[c] = "header" /\ m.kind = "header"
                  /\ upc'[c] = "chunks" /\ mem'[c] = m.size /\ got'[c] = 0
                  /\ data'[c] = [i \in 1..m.num |-> NoTag]
                  /\ UNCHANGED <<buf, files>>
               \/ /\ upc[c] = "chunks" /\ m.kind = "chunk" /\ Receiver!Fits(m, c)
                  /\ got[c] + 1 # Len(data[c])
                  /\ upc'[c] = "chunks" /\ mem'[c] = mem[c] /\ got'[c] = got[c] + 1
                  /\ data'[c] = filled
                  /\ UNCHANGED <<buf, files>>
               \/ /\ upc[c] = "chunks" /\ m.kind = "chunk" /\ Receiver!Fits(m, c)
                  /\ got[c] + 1 = Len(data[c])
                  /\ Receiver!NextBuffer(c)
                  /\ Receiver!Save(c, filled)
               \/ /\ upc[c] = "header" => m.kind # "header"
                  /\ upc[c] = "chunks" => ~Receiver!Fits(m, c)
                  /\ upc[c] # "idle"
                  /\ Receiver!NextBuffer(c)
                  /\ UNCHANGED files
<1> DEFINE m == Head(net[c])
           filled == [data[c] EXCEPT ![m.num + 1] = m.tag]
<1>1. ClientTypes /\ net \in [Addresses -> Seq(Datagrams)] /\ c \in Addresses
  BY DEF IInv, NetTypes, Addresses
<1>2. net[c] # <<>> /\ net' = [net EXCEPT ![c] = Tail(@)]
  BY DEF ReceiveDatagram, Receiver!ReceiveHeader, Receiver!ReceiveChunk, Receiver!Recvfrom
<1>3. net'[c] = Tail(net[c])
  BY <1>1, <1>2
<1>4. UNCHANGED <<sock, xfer, lpc, faults, telemetry, operated>>
  BY DEF ReceiveDatagram, listenVars, envVars
<1>5. CASE Receiver!ReceiveHeader(c)
  <2>1. CASE m.kind = "header"
    <3>1. /\ upc[c] = "header"
          /\ upc' = [upc EXCEPT ![c] = "chunks"]
          /\ mem' = [mem EXCEPT ![c] = m.size]
          /\ data' = [data EXCEPT ![c] = [i \in 1..m.num |-> NoTag]]
          /\ got' = [got EXCEPT ![c] = 0]
          /\ UNCHANGED <<buf, files>>
      BY <1>5, <2>1 DEF Receiver!ReceiveHeader
    <3> HIDE DEF m
    <3>2. upc'[c] = "chunks" /\ mem'[c] = m.size /\ got'[c] = 0
          /\ data'[c] = [i \in 1..m.num |-> NoTag]
      BY <1>1, <3>1 DEF ClientTypes
    <3> QED
      BY <1>2, <1>3, <1>4, <2>1, <3>1, <3>2 DEF Removed, m
  <2>2. CASE m.kind # "header"
    <3>1. upc[c] = "header" /\ Receiver!NextBuffer(c) /\ UNCHANGED files
      BY <1>5, <2>2 DEF Receiver!ReceiveHeader
    <3> QED
      BY <1>2, <1>3, <1>4, <2>2, <3>1 DEF Removed
  <2> QED
    BY <2>1, <2>2
<1>6. CASE Receiver!ReceiveChunk(c)
  <2>1. upc[c] = "chunks" /\ UNCHANGED mem
    BY <1>6 DEF Receiver!ReceiveChunk
  <2>2. CASE Receiver!Fits(m, c) /\ got[c] + 1 # Len(data[c])
    <3>1. /\ data' = [data EXCEPT ![c] = filled]
          /\ got' = [got EXCEPT ![c] = @ + 1]
          /\ UNCHANGED <<upc, buf, files>>
      BY <1>6, <2>2 DEF Receiver!ReceiveChunk
    <3> HIDE DEF filled
    <3>2. data'[c] = filled /\ got'[c] = got[c] + 1
      BY <1>1, <3>1 DEF ClientTypes
    <3>3. m.kind = "chunk"
      BY <2>2 DEF Receiver!Fits
    <3> QED
      BY <1>2, <1>3, <1>4, <2>1, <2>2, <3>1, <3>2, <3>3 DEF Removed, filled
  <2>3. CASE Receiver!Fits(m, c) /\ got[c] + 1 = Len(data[c])
    <3>1. Receiver!NextBuffer(c) /\ Receiver!Save(c, filled)
      BY <1>6, <2>3 DEF Receiver!ReceiveChunk
    <3>2. m.kind = "chunk"
      BY <2>3 DEF Receiver!Fits
    <3> QED
      BY <1>2, <1>3, <1>4, <2>1, <2>3, <3>1, <3>2 DEF Removed
  <2>4. CASE ~Receiver!Fits(m, c)
    <3>1. Receiver!NextBuffer(c) /\ UNCHANGED files
      BY <1>6, <2>4 DEF Receiver!ReceiveChunk
    <3> QED
      BY <1>2, <1>3, <1>4, <2>1, <2>4, <3>1 DEF Removed
  <2> QED
    BY <2>2, <2>3, <2>4
<1> QED
  BY <1>5, <1>6 DEF ReceiveDatagram

\* The buffer is over.
LEMMA BufferOver ==
  ASSUME IInv, NEW c \in Clients, Receiver!NextBuffer(c)
  PROVE  upc'[c] # "chunks"
BY NextBufferTypes DEF IInv, ClientTypes, BufferTypes

\* A client's next chunk: it completes what the client has.
LEMMA Filled ==
  ASSUME IInv, NEW c \in Clients, NEW t \in PlaneTags, NEW p \in Nat, Holds(c, t, p),
         NEW m \in Parcels, m.kind = "chunk", m.tag = t, p <= m.num
  PROVE  LET filled == [data[c] EXCEPT ![m.num + 1] = m.tag]
         IN /\ Len(filled) = Parts(t)
            /\ got[c] + 1 <= m.num + 1 /\ m.num + 1 <= Parts(t)
            /\ got[c] + 1 = m.num + 1 => \A k \in 1..m.num + 1 : filled[k] = t
<1> DEFINE n == m.num + 1
           filled == [data[c] EXCEPT ![n] = m.tag]
<1>1. data[c] \in Seq(Tags) /\ got[c] \in Nat /\ m.num \in Nat /\ m.tag \in Tags
  BY ParcelTypes DEF IInv, ClientTypes, Parcels, Datagrams
<1>2. Parts(t) \in Nat /\ m.num < Parts(t) /\ Len(data[c]) = Parts(t) /\ got[c] <= p
  BY PartTypes, ParcelTypes DEF Holds
<1>3. Len(filled) = Parts(t)
  <2>1. n \in Nat
    BY <1>1
  <2> HIDE DEF n
  <2>2. Len(filled) = Len(data[c])
    BY <1>1, <2>1, WrittenAt, Zenon
  <2> QED
    BY <1>2, <2>2
<1>4. \A k \in 1..Parts(t) : filled[k] = IF k = n THEN m.tag ELSE data[c][k]
  BY <1>1, <1>2
<1> HIDE DEF filled
<1>5. ASSUME got[c] + 1 = n PROVE \A k \in 1..n : filled[k] = t
  <2>1. got[c] = p /\ m.num = p
    BY <1>1, <1>2, <1>5
  <2>2. \A k \in 1..p : data[c][k] = t
    BY <2>1 DEF Holds
  <2> QED
    BY <1>1, <1>2, <1>4, <2>1, <2>2
<1> QED
  BY <1>1, <1>2, <1>3, <1>5 DEF filled

\* A datagram that is taken out of the queue leaves the client waiting for the
\* chunks after it.
LEMMA AwaitsNext ==
  ASSUME NEW c \in Clients, Ordered(c), Removed(c), NEW t \in PlaneTags, NEW p \in Nat,
         Head(net[c]).tag = t, Due(Head(net[c])) = p
  PROVE  Awaits(c, t, p)'
BY Followed DEF Awaits

LEMMA GatheringStep ==
  ASSUME IInv, NEW c \in Clients, Ordered(c), Gathering(c), faults = 0 => Complete(c),
         Counters, faults' <= 1,
         (\E m \in Parcels : Sent(c, m)) \/ ReceiveDatagram(c) \/ LoseDatagram(c)
         \/ RequestImage(c) \/ Elsewhere(c)
  PROVE  Gathering(c)'
<1> SUFFICES ASSUME upc'[c] = "chunks"
             PROVE  \E t \in PlaneTags, p \in Nat : Holds(c, t, p)' /\ Awaits(c, t, p)'
  BY DEF Gathering
<1> DEFINE m == Head(net[c])
<1>1. ASSUME NEW n \in Parcels, Sent(c, n)
      PROVE  \E t \in PlaneTags, p \in Nat : Holds(c, t, p)' /\ Awaits(c, t, p)'
  <2>1. upc[c] = "chunks"
    BY <1>1 DEF Sent, Untouched
  <2>2. PICK t \in PlaneTags, p \in Nat : Holds(c, t, p) /\ Awaits(c, t, p)
    BY <2>1 DEF Gathering
  <2>3. Holds(c, t, p)'
    BY <1>1, <2>2 DEF Holds, Sent, Untouched
  <2>4. net'[c] # <<>>
        /\ (net[c] # <<>> => Head(net'[c]) = Head(net[c]))
        /\ (net[c] = <<>> => Head(net'[c]) = n)
    BY <1>1, AppendProperties DEF Sent, Ordered
  <2>5. Awaits(c, t, p)'
    BY <1>1, <2>2, <2>4 DEF Awaits, Sent
  <2> QED
    BY <2>3, <2>5
<1>2. CASE ReceiveDatagram(c)
  <2>1. Removed(c) /\ m \in Parcels
    BY <1>2, Received, Followed
  <2>2. CASE /\ upc[c] = "header" /\ m.kind = "header"
             /\ mem'[c] = m.size /\ got'[c] = 0
             /\ data'[c] = [i \in 1..m.num |-> NoTag]
    <3>1. m.tag \in PlaneTags /\ m.num = Parts(m.tag) /\ m.size = PlaneSizes[m.tag.plane]
          /\ m.num \in Nat /\ Due(m) = 0
      BY <2>1, <2>2, ParcelTypes DEF Due
    <3>2. PICK t \in PlaneTags : t = m.tag
      BY <3>1
    <3>3. Awaits(c, t, 0)'
      BY <2>1, <3>1, <3>2, AwaitsNext
    <3> HIDE DEF m
    <3>4. Parts(t) \in Nat /\ Len([i \in 1..m.num |-> NoTag]) = m.num
      BY <3>1, <3>2, PartTypes
    <3>5. Holds(c, t, 0)'
      BY <2>2, <3>1, <3>2, <3>4 DEF Holds
    <3> QED
      BY <3>3, <3>5
  <2>3. CASE /\ upc[c] = "chunks" /\ m.kind = "chunk"
             /\ got[c] + 1 # Len(data[c])
             /\ mem'[c] = mem[c] /\ got'[c] = got[c] + 1
             /\ data'[c] = [data[c] EXCEPT ![m.num + 1] = m.tag]
    <3>1. PICK t \in PlaneTags, p \in Nat : Holds(c, t, p) /\ Awaits(c, t, p)
      BY <2>3 DEF Gathering
    <3>2. m.tag = t /\ p <= m.num
      BY <2>1, <2>3, <3>1 DEF Awaits, Removed
    <3>3. m.num \in Nat /\ Due(m) = m.num + 1 /\ m.tag \in PlaneTags
      BY <2>1, <2>3, ParcelTypes DEF Due
    <3>4. PICK q \in Nat : q = m.num + 1
      BY <3>3
    <3>5. Awaits(c, t, q)'
      BY <2>1, <3>2, <3>3, <3>4, AwaitsNext
    <3> HIDE DEF m
    <3>6. Holds(c, t, q)'
      <4> DEFINE filled == [data[c] EXCEPT ![m.num + 1] = m.tag]
      <4>1. /\ Len(filled) = Parts(t)
            /\ got[c] + 1 <= q /\ q <= Parts(t)
            /\ got[c] + 1 = q => \A k \in 1..q : filled[k] = t
        BY <2>1, <2>3, <3>1, <3>2, <3>4, Filled
      <4>2. mem'[c] = PlaneSizes[t.plane] /\ data'[c] = filled /\ got'[c] = got[c] + 1
        BY <2>3, <3>1 DEF Holds
      <4> HIDE DEF filled
      <4> QED
        BY <4>1, <4>2 DEF Holds
    <3> QED
      BY <3>5, <3>6
  <2>4. CASE Receiver!NextBuffer(c)
    BY <2>4, BufferOver
  <2> QED
    BY <1>2, <2>2, <2>3, <2>4, Received
<1>3. CASE LoseDatagram(c)
  <2>1. Removed(c) /\ m \in Parcels
    <3>1. net \in [Addresses -> Seq(Datagrams)] /\ c \in Addresses
      BY DEF IInv, NetTypes, Addresses
    <3>2. Removed(c)
      BY <1>3, <3>1 DEF LoseDatagram, Removed, listenVars
    <3> QED
      BY <3>2, Followed
  <2>2. UNCHANGED clientVars /\ faults' = faults + 1
    BY <1>3 DEF LoseDatagram, Fault
  <2>3. faults = 0 /\ upc[c] = "chunks"
    BY <2>2 DEF clientVars, Counters
  <2>4. m.kind = "chunk"
    BY <2>1, <2>3 DEF Complete, Removed
  <2>5. PICK t \in PlaneTags, p \in Nat : Holds(c, t, p) /\ Awaits(c, t, p)
    BY <2>3 DEF Gathering
  <2>6. m.tag = t /\ p <= m.num
    BY <2>1, <2>4, <2>5 DEF Awaits, Removed
  <2>7. m.num \in Nat /\ Due(m) = m.num + 1 /\ m.num < Parts(m.tag)
        /\ Parts(t) \in Nat /\ got[c] \in Nat
    BY <2>1, <2>4, ParcelTypes, PartTypes DEF Due, IInv, ClientTypes
  <2>8. PICK q \in Nat : q = m.num + 1
    BY <2>7
  <2>9. Awaits(c, t, q)'
    BY <2>1, <2>6, <2>7, <2>8, AwaitsNext
  <2> HIDE DEF m
  <2>10. Holds(c, t, q)'
    BY <2>2, <2>5, <2>6, <2>7, <2>8 DEF Holds, clientVars
  <2> QED
    BY <2>9, <2>10
<1>4. CASE RequestImage(c)
  BY <1>4 DEF RequestImage, Receiver!RequestImage, IInv, ClientTypes
<1>5. CASE Elsewhere(c)
  <2>1. upc[c] = "chunks"
    BY <1>5 DEF Elsewhere, Untouched
  <2>2. PICK t \in PlaneTags, p \in Nat : Holds(c, t, p) /\ Awaits(c, t, p)
    BY <2>1 DEF Gathering
  <2>3. Holds(c, t, p)'
    BY <1>5, <2>2 DEF Holds, Elsewhere, Untouched
  <2>4. net'[c] = net[c]
    BY <1>5 DEF Elsewhere
  <2>5. Awaits(c, t, p)'
    BY <1>5, <2>2, <2>4, TransferStays DEF Awaits
  <2> QED
    BY <2>3, <2>5
<1> QED
  BY <1>1, <1>2, <1>3, <1>4, <1>5

LEMMA LatestParcel ==
  ASSUME NEW c \in Clients, Ordered(c), net[c] # <<>>
  PROVE  Latest(net[c]) \in Parcels
BY EmptySeq DEF Ordered, Latest

LEMMA CompleteStep ==
  ASSUME IInv, NotListening, PlanesOnly, Counters, [Next]_vars, ~CallSendTelemetry,
         NEW c \in Clients, Ordered(c), Gathering(c), Complete(c), faults' = faults,
         (\E m \in Parcels : Sent(c, m)) \/ ReceiveDatagram(c) \/ RequestImage(c)
         \/ Elsewhere(c)
  PROVE  Complete(c)'
<1> DEFINE m == Head(net[c])
<1>1. ASSUME NEW n \in Parcels, Sent(c, n) PROVE Complete(c)'
  <2>1. net'[c] = Append(net[c], n) /\ SentTo(c)' /\ sock /\ n.kind \in {"header", "chunk"}
    BY <1>1, ParcelTypes DEF Sent
  <2>2. net[c] # <<>> => <<Latest(net[c]), n>> \in Unbroken
    <3> SUFFICES ASSUME net[c] # <<>>, Due(Latest(net[c])) < Parts(Latest(net[c]).tag)
                 PROVE  n.kind = "chunk"
      BY LatestParcel DEF Unbroken
    <3>1. SentTo(c)
      BY <2>1 DEF Complete
    <3> QED
      BY <1>1, <2>1, <3>1 DEF Sent, SentTo
  <2>3. /\ Linked(net'[c], Unbroken) /\ net'[c] # <<>>
        /\ net[c] # <<>> => Head(net'[c]) = Head(net[c])
        /\ net[c] = <<>> => Head(net'[c]) = n
    BY <2>1, <2>2, LinkedAppend DEF Ordered, Complete
  <2>4. ASSUME upc'[c] = "chunks"
        PROVE  Head(net'[c]).kind = "chunk" /\ Head(net'[c]).num = got'[c]
    <3>1. upc[c] = "chunks" /\ got'[c] = got[c]
      BY <1>1, <2>4 DEF Sent, Untouched
    <3>2. CASE net[c] # <<>>
      BY <2>3, <3>1, <3>2 DEF Complete
    <3>3. CASE net[c] = <<>>
      <4>1. SentTo(c) /\ xfer[Mock].next = got[c]
        BY <2>1, <3>1, <3>3 DEF Complete
      <4> QED
        BY <1>1, <2>1, <2>3, <3>1, <3>3, <4>1 DEF Sent, SentTo
    <3> QED
      BY <3>2, <3>3
  <2> QED
    BY <2>1, <2>3, <2>4 DEF Complete
<1>2. ASSUME Removed(c),
             upc'[c] = "chunks" => Due(m) = got'[c] /\ Due(m) < Parts(m.tag)
      PROVE  Complete(c)'
  <2>1. net[c] \in Seq(Parcels) /\ net[c] # <<>> /\ net'[c] = Tail(net[c])
        /\ UNCHANGED <<sock, xfer>> /\ (SentTo(c) <=> SentTo(c)')
    BY <1>2 DEF Ordered, Removed, SentTo
  <2>2. /\ Linked(Tail(net[c]), Unbroken)
        /\ Tail(net[c]) # <<>> => /\ <<m, Head(Tail(net[c]))>> \in Unbroken
                                  /\ Latest(Tail(net[c])) = Latest(net[c])
        /\ Tail(net[c]) = <<>> => Latest(net[c]) = m
    BY <2>1, LinkedTail DEF Complete
  <2>3. net'[c] # <<>> /\ Due(Latest(net'[c])) < Parts(Latest(net'[c]).tag) /\ sock'
          => SentTo(c)'
    BY <2>1, <2>2 DEF Complete
  <2>4. ASSUME upc'[c] = "chunks"
        PROVE  IF net'[c] # <<>>
               THEN Head(net'[c]).kind = "chunk" /\ Head(net'[c]).num = got'[c]
               ELSE sock' => SentTo(c)' /\ xfer'[Mock].next = got'[c]
    <3>1. CASE net'[c] # <<>>
      <4>1. Head(net'[c]).kind = "chunk"
        BY <1>2, <2>1, <2>2, <2>4, <3>1 DEF Unbroken
      <4> QED
        BY <1>2, <2>4, <3>1, <4>1, Followed
    <3>2. CASE net'[c] = <<>>
      <4>1. sock' => SentTo(c)'
        BY <1>2, <2>1, <2>2, <2>4, <3>2 DEF Complete
      <4> QED
        BY <1>2, <2>4, <3>2, <4>1, Followed
    <3> QED
      BY <3>1, <3>2
  <2> QED
    BY <2>1, <2>2, <2>3, <2>4 DEF Complete
<1>3. CASE ReceiveDatagram(c)
  <2>1. Removed(c) /\ m \in Parcels
    BY <1>3, Received, Followed
  <2>2. ASSUME upc'[c] = "chunks" PROVE Due(m) = got'[c] /\ Due(m) < Parts(m.tag)
    <3>1. CASE m.kind = "header" /\ got'[c] = 0
      <4>1. Parts(m.tag) \in Nat \ {0}
        BY <2>1, ParcelTypes, PartTypes
      <4> QED
        BY <3>1, <4>1 DEF Due
    <3>2. CASE /\ upc[c] = "chunks" /\ m.kind = "chunk"
               /\ got[c] + 1 # Len(data[c]) /\ got'[c] = got[c] + 1
      <4>1. PICK t \in PlaneTags, p \in Nat : Holds(c, t, p) /\ Awaits(c, t, p)
        BY <3>2 DEF Gathering
      <4>2. m.tag = t /\ Len(data[c]) = Parts(t)
        BY <2>1, <3>2, <4>1 DEF Holds, Awaits, Removed
      <4>3. m.num = got[c]
        BY <2>1, <3>2 DEF Complete, Removed
      <4>4. got[c] \in Nat /\ Parts(t) \in Nat /\ got[c] < Len(data[c])
        BY <3>2, PartTypes DEF IInv, ClientTypes
      <4> QED
        BY <3>2, <4>2, <4>3, <4>4 DEF Due
    <3>3. ~Receiver!NextBuffer(c)
      BY <2>2, BufferOver
    <3> QED
      BY <1>3, <3>1, <3>2, <3>3, Received
  <2> QED
    BY <1>2, <2>1, <2>2
<1>4. CASE RequestImage(c)
  <2>1. upc'[c] # "chunks" /\ UNCHANGED <<net, xfer, sock>>
    BY <1>4 DEF RequestImage, Receiver!RequestImage, IInv, ClientTypes
  <2> QED
    BY <2>1 DEF Complete, SentTo
<1>5. CASE Elsewhere(c)
  <2>1. net'[c] = net[c] /\ upc'[c] = upc[c] /\ got'[c] = got[c]
    BY <1>5 DEF Elsewhere, Untouched
  <2>2. sock' => sock \/ (net[c] = <<>> /\ upc[c] # "chunks")
    BY SocketOpens DEF NotListening, Addresses
  <2>3. ASSUME SentTo(c), sock, ~SentTo(c)'
        PROVE  xfer[Mock].next = Parts(xfer[Mock].tag)
    BY <2>3, TransferEnds DEF Counters, PlanesOnly, SentTo, Parts
  <2>4. ASSUME net[c] # <<>>, Due(Latest(net[c])) < Parts(Latest(net[c]).tag), sock'
        PROVE  SentTo(c)'
    <3>1. SentTo(c) /\ sock
      BY <2>2, <2>4 DEF Complete
    <3>2. Due(Latest(net[c])) \in Nat /\ Parts(Latest(net[c]).tag) \in Nat
      BY <2>4, LatestParcel, ParcelTypes, PartTypes
    <3> QED
      BY <2>3, <2>4, <3>1, <3>2 DEF Ordered
  <2>5. ASSUME upc[c] = "chunks", net[c] = <<>>, sock'
        PROVE  SentTo(c)' /\ xfer'[Mock].next = got[c]
    <3>1. SentTo(c) /\ sock /\ xfer[Mock].next = got[c]
      BY <2>2, <2>5 DEF Complete
    <3>2. PICK t \in PlaneTags, p \in Nat : Holds(c, t, p) /\ Awaits(c, t, p)
      BY <2>5 DEF Gathering
    <3>3. xfer[Mock].tag = t /\ Len(data[c]) = Parts(t)
      BY <2>5, <3>1, <3>2 DEF Holds, Awaits
    <3>4. got[c] < Parts(t) /\ got[c] \in Nat /\ Parts(t) \in Nat
      BY <2>5, <3>3, PartTypes DEF IInv, ClientTypes
    <3>5. SentTo(c)'
      BY <2>3, <3>1, <3>3, <3>4
    <3> QED
      BY <1>5, <3>1, <3>5, TransferStays
  <2> QED
    BY <2>1, <2>4, <2>5 DEF Complete
<1> QED
  BY <1>1, <1>3, <1>4, <1>5

LEMMA ChunkFits ==
  ASSUME NEW c \in Clients, NEW m \in Parcels, m.kind = "chunk", mem[c] = PlaneSizes[m.tag.plane]
  PROVE  Receiver!Fits(m, c)
<1>1. PlaneSizes[m.tag.plane] \in Nat /\ m.num \in Nat
      /\ m.size = Obc!DataSize(PlaneSizes[m.tag.plane], m.num)
  BY PlaneCount DEF Parcels, PlaneTags, Datagrams
<1>2. m.num * ChunkSize \in Nat /\ ChunkSize \in Nat
  BY <1>1, ChunkAssumption
<1> QED
  BY <1>1, <1>2 DEF Receiver!Fits, Obc!DataSize

\* A client that waits for a header has one coming, or nothing.
Ready(c) ==
  upc[c] # "chunks" =>
    IF net[c] # <<>>
    THEN Head(net[c]).kind = "header"
    ELSE SentTo(c) => xfer[Mock].next = Parts(xfer[Mock].tag)

\* Without loss a client never gives a buffer up.
LEMMA Accepting ==
  ASSUME IInv, NEW c \in Clients, Ordered(c), Gathering(c), Complete(c), Ready(c),
         ReceiveDatagram(c)
  PROVE  LET m == Head(net[c])
             filled == [data[c] EXCEPT ![m.num + 1] = m.tag]
         IN \/ /\ upc[c] = "header" /\ upc'[c] = "chunks"
               /\ UNCHANGED <<buf, files>>
            \/ /\ upc[c] = "chunks" /\ upc'[c] = "chunks"
               /\ UNCHANGED <<buf, files>>
            \/ /\ upc[c] = "chunks" /\ Due(m) = Parts(m.tag)
               /\ Receiver!NextBuffer(c)
               /\ Receiver!Save(c, filled)
<1> DEFINE m == Head(net[c])
<1>1. Removed(c) /\ m \in Parcels
  BY Received, Followed
<1>2. upc[c] = "header" => m.kind = "header"
  BY <1>1 DEF Ready, Removed
<1>3. ASSUME upc[c] = "chunks"
      PROVE  Receiver!Fits(m, c) /\ (got[c] + 1 = Len(data[c]) => Due(m) = Parts(m.tag))
  <2>1. PICK t \in PlaneTags, p \in Nat : Holds(c, t, p) /\ Awaits(c, t, p)
    BY <1>3 DEF Gathering
  <2>2. m.kind = "chunk" /\ m.num = got[c]
    BY <1>1, <1>3 DEF Complete, Removed
  <2>3. m.tag = t /\ mem[c] = PlaneSizes[t.plane] /\ Len(data[c]) = Parts(t)
    BY <1>1, <2>1, <2>2 DEF Holds, Awaits, Removed
  <2> HIDE DEF m
  <2> QED
    BY <1>1, <2>2, <2>3, ChunkFits DEF Due
<1> HIDE DEF m
<1>4. upc[c] \in {"idle", "header", "chunks"}
  BY DEF IInv, ClientTypes
<1> QED
  BY <1>2, <1>3, <1>4, Received DEF m

LEMMA ReadyStep ==
  ASSUME IInv, NEW c \in Clients, Ordered(c), Gathering(c), Complete(c), Ready(c),
         (\E m \in Parcels : Sent(c, m)) \/ ReceiveDatagram(c) \/ RequestImage(c)
         \/ Elsewhere(c)
  PROVE  Ready(c)'
<1> SUFFICES ASSUME upc'[c] # "chunks"
             PROVE  IF net'[c] # <<>>
                    THEN Head(net'[c]).kind = "header"
                    ELSE SentTo(c)' => xfer'[Mock].next = Parts(xfer'[Mock].tag)
  BY DEF Ready
<1>1. ASSUME NEW n \in Parcels, Sent(c, n) PROVE Ready(c)'
  <2>1. /\ net'[c] # <<>> /\ upc[c] # "chunks"
        /\ net[c] # <<>> => Head(net'[c]) = Head(net[c])
        /\ net[c] = <<>> => Head(net'[c]) = n
    BY <1>1, AppendProperties DEF Sent, Ordered, Untouched
  <2>2. net[c] = <<>> => n.kind = "header"
    BY <1>1, <2>1, ParcelTypes, PartTypes DEF Sent, Ready
  <2> QED
    BY <2>1, <2>2 DEF Ready
<1>2. CASE ReceiveDatagram(c)
  <2> DEFINE m == Head(net[c])
  <2>1. Removed(c) /\ m \in Parcels /\ Due(m) = Parts(m.tag)
    BY <1>2, Received, Followed, Accepting
  <2>2. CASE net'[c] # <<>>
    <3>1. net'[c] \in Seq(Parcels)
      BY <2>1, OrderedStep DEF Ordered
    <3>2. Head(net'[c]) \in Parcels
      BY <2>2, <3>1, HeadTailProperties
    <3>3. Head(net'[c]).kind = "chunk" => Head(net'[c]).tag = m.tag
                                          /\ Head(net'[c]).num = Due(m)
      BY <2>1, <2>2, Followed
    <3>4. Head(net'[c]).kind # "chunk"
      BY <2>1, <3>2, <3>3, ParcelTypes, PartTypes
    <3> QED
      BY <2>2, <3>2, <3>4, ParcelTypes
  <2>3. CASE net'[c] = <<>>
    BY <2>1, <2>3, Followed
  <2> QED
    BY <2>2, <2>3
<1>3. CASE RequestImage(c)
  <2>1. upc[c] # "chunks" /\ UNCHANGED <<net, xfer>>
    BY <1>3 DEF RequestImage, Receiver!RequestImage
  <2> QED
    BY <2>1 DEF Ready, SentTo
<1>4. CASE Elsewhere(c)
  <2>1. upc[c] # "chunks" /\ net'[c] = net[c]
    BY <1>4 DEF Elsewhere, Untouched
  <2> QED
    BY <1>4, <2>1, TransferStays DEF Ready
<1> QED
  BY <1>1, <1>2, <1>3, <1>4 DEF Ready

----------------------------------------------------------------------------
(* The files.                                                              *)

\* The steps that disturb the files.
LEMMA FilesSteps ==
  [Next]_vars => (\E c \in Clients : ReceiveDatagram(c)) \/ UNCHANGED files
BY ClientSteps DEF clientVars, RequestImage, Receiver!RequestImage

IsWhole(f) ==
  \E plane \in 1..Planes, i \in 0..ImageCount - 1 :
    f.size = PlaneSizes[plane] /\ f.data = Whole(plane, i)

\* What is saved after at most one fault is one plane, and all of it.
LEMMA SavedWhole ==
  ASSUME IInv, NEW c \in Clients, Ordered(c), Gathering(c), ReceiveDatagram(c),
         \A f \in files : IsWhole(f)
  PROVE  \A f \in files' : IsWhole(f)
<1> DEFINE m == Head(net[c])
           filled == [data[c] EXCEPT ![m.num + 1] = m.tag]
<1>1. CASE UNCHANGED files
  BY <1>1
<1>2. CASE /\ upc[c] = "chunks" /\ m.kind = "chunk" /\ got[c] + 1 = Len(data[c])
           /\ Receiver!Save(c, filled)
  <2>1. Removed(c) /\ m \in Parcels
    BY Received, Followed
  <2>2. PICK t \in PlaneTags, p \in Nat : Holds(c, t, p) /\ Awaits(c, t, p)
    BY <1>2 DEF Gathering
  <2>3. m.tag = t /\ p <= m.num
    BY <1>2, <2>1, <2>2 DEF Awaits, Removed
  <2>4. m.num \in Nat /\ m.num < Parts(t) /\ got[c] \in Nat /\ Parts(t) \in Nat
        /\ data[c] \in Seq(Tags) /\ m.tag \in Tags
    BY <1>2, <2>1, <2>3, ParcelTypes, PartTypes DEF IInv, ClientTypes, Parcels, Datagrams
  <2>5. mem[c] = PlaneSizes[t.plane] /\ Len(data[c]) = Parts(t) /\ got[c] <= p
    BY <2>2 DEF Holds
  <2> HIDE DEF m
  <2>6. filled \in Seq(Tags)
    <3>1. m.num + 1 \in Nat
      BY <2>4
    <3> QED
      BY <2>4, <3>1, WrittenAt, Zenon
  <2>7. /\ Len(filled) = Parts(t)
        /\ got[c] + 1 = m.num + 1 => \A k \in 1..m.num + 1 : filled[k] = t
    BY <1>2, <2>1, <2>2, <2>3, Filled
  <2> HIDE DEF filled
  <2>8. m.num + 1 = Parts(t) /\ got[c] + 1 = m.num + 1
    BY <1>2, <2>2, <2>3, <2>4, <2>5
  <2>9. filled = [k \in 1..Parts(t) |-> t]
    BY <2>6, <2>7, <2>8
  <2>10. t = [image |-> t.image, plane |-> t.plane]
         /\ t.plane \in 1..Planes /\ t.image \in 0..ImageCount - 1
    BY DEF PlaneTags
  <2>11. filled = Whole(t.plane, t.image)
    BY <2>9, <2>10 DEF Whole, Parts
  <2>12. \A f \in files' : f \in files \/ (f.size = mem[c] /\ f.data = filled)
    BY <1>2 DEF Receiver!Save
  <2> QED
    BY <2>5, <2>10, <2>11, <2>12 DEF IsWhole
<1> QED
  BY <1>1, <1>2, Received

FilesOf(c) == {f \in files : f.client = c}

LEMMA OwnFiles ==
  ASSUME IInv, NEW c \in Clients, [Next]_vars, ~ReceiveDatagram(c)
  PROVE  FilesOf(c)' = FilesOf(c)
<1>1. CASE UNCHANGED files
  BY <1>1 DEF FilesOf
<1>2. ASSUME NEW d \in Clients, ReceiveDatagram(d) PROVE FilesOf(c)' = FilesOf(c)
  <2>1. c # d
    BY <1>2
  <2>2. ASSUME NEW content, Receiver!Save(d, content) PROVE FilesOf(c)' = FilesOf(c)
    BY <2>1, <2>2 DEF Receiver!Save, FilesOf
  <2> QED
    BY <1>1, <1>2, <2>2, Received
<1> QED
  BY <1>1, <1>2, FilesSteps

\* The buffers before the one that is being filled are saved.
Saved(c) ==
  /\ \A f \in FilesOf(c) : f.req \in 1..req[c]
  /\ upc[c] # "idle" => req[c] > 0
  /\ req[c] > 0 =>
       {f.buf : f \in {g \in FilesOf(c) : g.req = req[c]}}
         = IF upc[c] = "idle" THEN 1..Buffers ELSE 1..buf[c] - 1

LEMMA SavedStep ==
  ASSUME IInv, Counters, [Next]_vars,
         NEW c \in Clients, Ordered(c), Gathering(c), Complete(c), Ready(c), Saved(c),
         (\E m \in Parcels : Sent(c, m)) \/ ReceiveDatagram(c) \/ RequestImage(c)
         \/ Elsewhere(c)
  PROVE  Saved(c)'
<1>0. /\ req \in [Clients -> Nat] /\ upc[c] \in {"idle", "header", "chunks"}
      /\ req[c] \in Nat /\ buf[c] \in 1..Buffers /\ Buffers \in Nat
  BY PlaneCount DEF Counters, IInv, ClientTypes, Buffers
<1>1. CASE Untouched(c) /\ ~ReceiveDatagram(c)
  <2>1. FilesOf(c)' = FilesOf(c)
    BY <1>1, OwnFiles
  <2> QED
    BY <1>1, <2>1 DEF Untouched, Saved
<1>2. CASE RequestImage(c)
  <2>1. /\ upc'[c] = "header" /\ buf'[c] = 1 /\ req'[c] = req[c] + 1
        /\ FilesOf(c)' = FilesOf(c)
    BY <1>0, <1>2 DEF RequestImage, Receiver!RequestImage, IInv, ClientTypes, FilesOf
  <2>2. \A f \in FilesOf(c) : f.req \in 1..req[c] + 1 /\ f.req # req[c] + 1
    BY <1>0 DEF Saved
  <2>3. {f.buf : f \in {g \in FilesOf(c) : g.req = req[c] + 1}} = {}
    BY <2>2
  <2>4. 1..1 - 1 = {}
    OBVIOUS
  <2> QED
    BY <1>0, <2>1, <2>2, <2>3, <2>4 DEF Saved
<1>3. CASE ReceiveDatagram(c)
  <2> DEFINE m == Head(net[c])
             filled == [data[c] EXCEPT ![m.num + 1] = m.tag]
             new == [client |-> c, req |-> req[c], buf |-> buf[c], size |-> mem[c],
                     data |-> filled]
  <2>1. req' = req /\ upc[c] # "idle" /\ req[c] > 0
    BY <1>0, <1>3 DEF ReceiveDatagram, Receiver!ReceiveHeader, Receiver!ReceiveChunk, Saved
  <2>2. CASE upc'[c] = "chunks" /\ UNCHANGED <<buf, files>>
    BY <2>1, <2>2 DEF Saved, FilesOf
  <2>3. CASE /\ upc[c] = "chunks" /\ Receiver!NextBuffer(c) /\ Receiver!Save(c, filled)
    <3>1. files' = files \cup {new}
      BY <2>3 DEF Receiver!Save
    <3>2. new.client = c /\ new.req = req[c] /\ new.buf = buf[c]
      OBVIOUS
    <3> HIDE DEF new
    <3>3. FilesOf(c)' = FilesOf(c) \cup {new}
      BY <3>1, <3>2 DEF FilesOf
    <3>4. \A f \in FilesOf(c)' : f.req \in 1..req[c]
      BY <1>0, <2>1, <3>2, <3>3 DEF Saved
    <3>5. {f.buf : f \in {g \in FilesOf(c)' : g.req = req[c]}}
            = {f.buf : f \in {g \in FilesOf(c) : g.req = req[c]}} \cup {buf[c]}
      BY <3>2, <3>3
    <3>6. {f.buf : f \in {g \in FilesOf(c) : g.req = req[c]}} = 1..buf[c] - 1
      BY <2>1 DEF Saved
    <3>7. (1..buf[c] - 1) \cup {buf[c]} = 1..buf[c]
      BY <1>0
    <3>8. IF buf[c] < Buffers THEN upc'[c] = "header" /\ buf'[c] = buf[c] + 1
                              ELSE upc'[c] = "idle" /\ buf'[c] = buf[c]
      BY <2>3 DEF Receiver!NextBuffer, IInv, ClientTypes
    <3>9. 1..buf[c] = IF upc'[c] = "idle" THEN 1..Buffers ELSE 1..buf'[c] - 1
      BY <1>0, <3>8
    <3> QED
      BY <2>1, <3>4, <3>5, <3>6, <3>7, <3>9 DEF Saved
  <2> QED
    BY <1>3, <2>2, <2>3, Accepting
<1> QED
  BY <1>1, <1>2, <1>3 DEF Sent, Elsewhere

FlowInv ==
  /\ Counters /\ OnlyOperatorsPing /\ NotListening
  /\ telemetry = 0 =>
       /\ PlanesOnly
       /\ \A c \in Clients : /\ Ordered(c)
                             /\ faults <= 1 => Gathering(c)
                             /\ faults = 0 => Complete(c) /\ Ready(c) /\ Saved(c)
  /\ FilesWhole

LEMMA InitFlow == Init => FlowInv
<1> SUFFICES ASSUME Init PROVE FlowInv
  OBVIOUS
<1>1. Mock \in Senders /\ Sending \in Senders
  BY DEF Senders
<1>2. Counters /\ OnlyOperatorsPing /\ NotListening /\ PlanesOnly /\ FilesWhole
  <2>1. OnlyOperatorsPing
    BY DEF Init, Obc!Init, OnlyOperatorsPing
  <2>2. NotListening
    BY DEF Init, Obc!Init, Receiver!Init, NotListening, Obc!Returned
  <2>3. Counters /\ PlanesOnly /\ FilesWhole
    BY <1>1 DEF Init, Obc!Init, Receiver!Init, Counters, PlanesOnly, Obc!Returned, FilesWhole
  <2> QED
    BY <2>1, <2>2, <2>3
<1>3. ASSUME NEW c \in Clients
      PROVE  Ordered(c) /\ Gathering(c) /\ Complete(c) /\ Ready(c) /\ Saved(c)
  <2>1. /\ net[c] = <<>> /\ upc[c] = "idle" /\ Len(net[c]) = 0 /\ xfer[Mock].pc = "idle"
        /\ files = {} /\ req[c] = 0
    BY <1>1, EmptySeq DEF Init, Obc!Init, Obc!Returned, Receiver!Init, Addresses
  <2>2. net[c] \in Seq(Parcels)
    BY <2>1, EmptySeq
  <2> QED
    BY <2>1, <2>2 DEF Ordered, Gathering, Complete, Linked, Ready, SentTo, Saved, FilesOf
<1> QED
  BY <1>2, <1>3 DEF FlowInv

LEMMA StepFlow == IInv /\ FlowInv /\ [Next]_vars => FlowInv'
<1> SUFFICES ASSUME IInv, FlowInv, [Next]_vars PROVE FlowInv'
  OBVIOUS
<1>1. Counters' /\ OnlyOperatorsPing' /\ NotListening'
  BY CountersStep, OnlyOperatorsPingStep, NotListeningStep DEF FlowInv, IInv
<1>2. ASSUME telemetry' = 0
      PROVE  /\ PlanesOnly'
             /\ \A c \in Clients : /\ Ordered(c)'
                                   /\ faults' <= 1 => Gathering(c)'
                                   /\ faults' = 0 => Complete(c)' /\ Ready(c)' /\ Saved(c)'
             /\ faults' <= 1 => \A f \in files' : IsWhole(f)
  <2>1. telemetry = 0 /\ ~CallSendTelemetry /\ faults \in Nat
        /\ (faults' = faults \/ faults' = faults + 1)
    BY <1>2, CountersStep DEF FlowInv, Counters
  <2>2. PlanesOnly /\ Counters /\ OnlyOperatorsPing /\ NotListening
        /\ \A c \in Clients : /\ Ordered(c)
                              /\ faults <= 1 => Gathering(c)
                              /\ faults = 0 => Complete(c) /\ Ready(c) /\ Saved(c)
    BY <2>1 DEF FlowInv
  <2>3. ASSUME NEW c \in Clients
        PROVE  /\ Ordered(c)'
               /\ faults' <= 1 => Gathering(c)'
               /\ faults' = 0 => Complete(c)' /\ Ready(c)' /\ Saved(c)'
    <3>1. \/ \E m \in Parcels : Sent(c, m)
          \/ ReceiveDatagram(c) \/ LoseDatagram(c) \/ RequestImage(c)
          \/ Elsewhere(c)
      BY <2>1, <2>2, Movement
    <3>2. LoseDatagram(c) => Removed(c) /\ faults' = faults + 1
      BY DEF LoseDatagram, Fault, Removed, listenVars, IInv, NetTypes, Addresses
    <3>3. ReceiveDatagram(c) => Removed(c)
      BY Received
    <3>4. RequestImage(c) => UNCHANGED <<net, xfer>>
      BY DEF RequestImage, Receiver!RequestImage
    <3>5. Ordered(c)'
      BY <2>2, <3>1, <3>2, <3>3, <3>4, OrderedStep
    <3>6. ASSUME faults' <= 1 PROVE Gathering(c)'
      BY <2>1, <2>2, <3>1, <3>6, GatheringStep
    <3>7. ASSUME faults' = 0 PROVE Complete(c)' /\ Ready(c)' /\ Saved(c)'
      <4>1. faults = 0 /\ faults' = faults /\ ~LoseDatagram(c)
        BY <2>1, <3>2, <3>7
      <4>2. Ordered(c) /\ Gathering(c) /\ Complete(c) /\ Ready(c) /\ Saved(c)
        BY <2>2, <4>1
      <4>3. (\E m \in Parcels : Sent(c, m)) \/ ReceiveDatagram(c) \/ RequestImage(c)
            \/ Elsewhere(c)
        BY <3>1, <4>1
      <4>4. Complete(c)'
        BY <2>1, <2>2, <4>1, <4>2, <4>3, CompleteStep
      <4>5. Ready(c)'
        BY <4>2, <4>3, ReadyStep
      <4>6. Saved(c)'
        BY <2>2, <4>2, <4>3, SavedStep
      <4> QED
        BY <4>4, <4>5, <4>6
    <3> QED
      BY <3>5, <3>6, <3>7
  <2>4. ASSUME faults' <= 1 PROVE \A f \in files' : IsWhole(f)
    <3>1. faults <= 1
      BY <2>1, <2>4
    <3>2. \A f \in files : IsWhole(f)
      BY <2>1, <3>1 DEF FlowInv, FilesWhole, IsWhole
    <3> QED
      BY <2>2, <3>1, <3>2, SavedWhole, FilesSteps
  <2>5. PlanesOnly'
    BY <2>1, <2>2, PlanesOnlyStep
  <2> QED
    BY <2>3, <2>4, <2>5
<1>3. FilesWhole'
  BY <1>2 DEF FilesWhole, IsWhole, Whole
<1> QED
  BY <1>1, <1>2, <1>3 DEF FlowInv

LEMMA Flow == Spec => []FlowInv
BY Invariance, InitFlow, StepFlow, PTL DEF Spec

\* A file holds every chunk of one plane and nothing of another, as long as no
\* telemetry is sent and at most one thing goes wrong, whoever asks and
\* whatever operators do: each client's queue holds runs of chunks, each in
\* order after its header, and a receiver has lost a chunk as soon as its count
\* falls behind their numbers, and then is too late to fill its buffer.
THEOREM NoFileMixed == Spec => []FilesWhole
<1>1. FlowInv => FilesWhole
  BY DEF FlowInv
<1> QED
  BY <1>1, Flow, PTL

\* Without fault and telemetry, every client that is done with a request has
\* saved all its buffers, whoever else asks in between and whatever operators
\* send: it finds a header where it expects one and every chunk after it.
THEOREM NoBufferMissing == Spec => []FaultlessSaved
<1>1. FlowInv => FaultlessSaved
  <2> SUFFICES ASSUME FlowInv, faults = 0, telemetry = 0, NEW c \in Clients,
                      upc[c] = "idle", req[c] > 0
               PROVE  {f.buf : f \in {g \in files : g.client = c /\ g.req = req[c]}} = 1..Buffers
    BY DEF FaultlessSaved, AllBuffersSaved
  <2>1. Saved(c)
    BY DEF FlowInv
  <2>2. {g \in files : g.client = c /\ g.req = req[c]} = {g \in FilesOf(c) : g.req = req[c]}
    BY DEF FilesOf
  <2> QED
    BY <2>1, <2>2 DEF Saved
<1> QED
  BY <1>1, Flow, PTL

----------------------------------------------------------------------------
(* A client that is alone with the server, and nothing goes wrong.         *)

Ask(c) == [from |-> c, cmd |-> "I"]

\* The listener serves, and only the client's requests arrive.
Listening(c) ==
  /\ ~quit /\ lpc # "ended" /\ (sock <=> lpc # "off")
  /\ \A k \in DOMAIN inbox : inbox[k] = Ask(c)
  /\ lpc \in {"store", "handle"} => dgram = Ask(c)
  /\ client \in {c, NoAddress}

\* Each request is in the inbox, in the listener's hands, counted or taken.
Handled == IF lpc \in {"store", "handle"} THEN 1 ELSE 0

Counted(c) ==
  /\ req[c] = Len(inbox) + Handled + sendCount + taken
  /\ req[c] > 0 => sock

\* The image of the last request that was taken.
Current == (taken - 1) % ImageCount

\* The mock thread sends the planes of the image that is due.
Working(c) ==
  /\ image = IF mpc \in {"scan", "poll"} THEN taken % ImageCount ELSE Current
  /\ mpc # "ended"
  /\ mpc \notin {"scan", "poll"} => taken > 0
  /\ mpc = "sending" <=> xfer[Mock].pc # "idle"
  /\ mpc = "sending" => xfer[Mock].tag = PlaneTag /\ xfer[Mock].dest = c

----------------------------------------------------------------------------
(* Positions in the stream of an image's datagrams: <<p, 0>> is the header *)
(* of plane p, <<p, k>> its k-th chunk.                                    *)

At(m) == <<m.tag.plane, Due(m)>>

After(p, k) ==
  IF k < Obc!Chunks(PlaneSizes[p]) THEN <<p, k + 1>> ELSE <<p + 1, 0>>

NextUp ==
  IF mpc \in {"scan", "poll"} THEN <<Planes + 1, 0>>
  ELSE IF mpc = "sending" /\ xfer[Mock].pc = "chunk" THEN After(stage + 1, xfer[Mock].next)
  ELSE <<stage + 1, 0>>

ImageOver == NextUp = <<Planes + 1, 0>>

Want(c) == IF upc[c] = "chunks" THEN <<buf[c], got[c] + 1>> ELSE <<buf[c], 0>>

\* A datagram is the next of the stream.
Streamed ==
  {p \in Parcels \X Parcels : At(p[2]) = After(p[1].tag.plane, Due(p[1]))}

OfImage(i) == {m \in Parcels : m.tag.image = i}

\* Client and mock thread take turns.
Turn(c) ==
  /\ req[c] \in {taken, taken + 1}
  /\ req[c] = taken + 1 => upc[c] = "header" /\ buf[c] = 1
  /\ upc[c] = "idle" \/ req[c] = taken + 1 => net[c] = <<>> /\ ImageOver
  /\ upc[c] # "idle" => req[c] > 0

\* The stream goes on where the client waits.
Stream(c) ==
  upc[c] # "idle" /\ req[c] = taken =>
    /\ net[c] \in Seq(OfImage(Current))
    /\ Linked(net[c], Streamed)
    /\ IF net[c] = <<>>
       THEN NextUp = Want(c)
       ELSE /\ At(Head(net[c])) = Want(c)
            /\ NextUp = After(Latest(net[c]).tag.plane, Due(Latest(net[c])))

\* The buffer is filled from its beginning.
Filling(c) ==
  upc[c] = "chunks" =>
    /\ mem[c] = PlaneSizes[buf[c]]
    /\ Len(data[c]) = Obc!Chunks(PlaneSizes[buf[c]])
    /\ \A k \in 1..got[c] : data[c][k] = [image |-> Current, plane |-> buf[c]]

\* Request n has the planes of the n-th image.
Right == \A f \in files : f.data = Whole(f.buf, (f.req - 1) % ImageCount)

Alone(c) ==
  Listening(c) /\ Counted(c) /\ Working(c) /\ Turn(c) /\ Stream(c) /\ Filling(c) /\ Right

LEMMA InitAlone ==
  ASSUME NEW c, Clients = {c}, Init
  PROVE  Alone(c)
<1>1. /\ inbox = <<>> /\ net[c] = <<>> /\ lpc = "off" /\ client = NoAddress /\ sock = FALSE
      /\ quit = FALSE /\ xfer[Mock].pc = "idle" /\ sendCount = 0 /\ mpc = "scan" /\ image = 0
      /\ taken = 0 /\ upc[c] = "idle" /\ req[c] = 0 /\ files = {}
  BY DEF Init, Obc!Init, Camera!Init, Receiver!Init, Obc!Returned, Senders, Addresses
<1>2. Listening(c) /\ Counted(c)
  BY <1>1, EmptySeq DEF Listening, Counted, Handled
<1>3. Working(c)
  BY <1>1, ImageAssumption DEF Working
<1>4. Turn(c) /\ Stream(c) /\ Filling(c) /\ Right
  BY <1>1 DEF Turn, Stream, Filling, Right, ImageOver, NextUp
<1> QED
  BY <1>2, <1>3, <1>4 DEF Alone

\* Nothing else can happen to them.
LEMMA UndisturbedSteps ==
  ASSUME IInv, FlowInv, NEW c, Clients = {c}, [Next]_vars, Undisturbed'
  PROVE  /\ Undisturbed /\ PlanesOnly /\ ~CallSendTelemetry
         /\ \/ Listener \/ ImageAsked \/ MockStep \/ CallSend \/ Transmit(Mock) \/ SendReturns
            \/ RequestImage(c) /\ sock
            \/ ReceiveDatagram(c)
            \/ UNCHANGED vars
<1>1. /\ Counters /\ faults \in Nat /\ telemetry \in Nat /\ operated \in Nat
      /\ faults' = 0 /\ telemetry' = 0 /\ operated' = 0
  BY DEF FlowInv, Counters, Undisturbed
<1>2. Undisturbed /\ ~CallSendTelemetry
      /\ ~(\E o \in Operators, cmd \in OperatorCmds : Operate(o, cmd))
  BY <1>1, CountersStep DEF Undisturbed
<1>3. PlanesOnly
  BY <1>2 DEF Undisturbed, FlowInv
<1>4. ~Fault
  BY <1>1, <1>2 DEF Fault, Undisturbed
<1>5. ~Transmit(Sending) /\ ~TelemetryReturns /\ ~TelemetryFails
  BY <1>3 DEF PlanesOnly, TelemetryReturns, TelemetryFails, Transmit, Obc!AllSent,
              Obc!SendRefused, Obc!SendFails, Obc!SendHeader, Obc!SendChunk
<1>6. RequestImage(c) => sock
  BY <1>4 DEF RequestImage
<1>7. ~ListenerFails /\ ~LoadFails /\ ~SendFails /\ ~LoseCommand /\ ~LoseDatagram(c)
  BY <1>4 DEF ListenerFails, LoadFails, SendFails, LoseCommand, LoseDatagram
<1> QED
  BY <1>2, <1>3, <1>5, <1>6, <1>7 DEF Next, MockThread, SendingThread

\* The listener stores and counts the client's requests.
LEMMA ListenerServes ==
  ASSUME ListenTypes, NEW c, Listening(c), Listener
  PROVE  /\ Obc!StartListener \/ Obc!TestQuit \/ Obc!Receive \/ Obc!StoreClient
         /\ UNCHANGED <<net, xfer, mockVars, clientVars>>
<1>1. ~Obc!HandleExit /\ ~Obc!HandlePing /\ ~Obc!HandleIgnored
  BY DEF Obc!HandleExit, Obc!HandlePing, Obc!HandleIgnored, Obc!Handle, Obc!Goto, Listening, Ask
<1> QED
  BY <1>1 DEF Listener, Obc!StartListener, Obc!TestQuit, Obc!Receive, Obc!StoreClient

LEMMA ListeningStep ==
  ASSUME IInv, FlowInv, NEW c, Clients = {c}, Listening(c), [Next]_vars, Undisturbed'
  PROVE  Listening(c)'
<1>0. inbox \in Seq(Commands) /\ ListenTypes
  BY DEF IInv, ListenTypes
<1>1. CASE Listener
  <2>1. CASE Obc!StartListener \/ Obc!TestQuit
    <3>1. UNCHANGED <<inbox, dgram, client, quit>>
      BY <2>1 DEF Obc!StartListener, Obc!TestQuit
    <3>2. lpc' \in {"test", "recv"} /\ sock'
      BY <2>1 DEF Obc!StartListener, Obc!TestQuit, Obc!Goto, Listening
    <3> QED
      BY <3>1, <3>2 DEF Listening
  <2>3. CASE Obc!StoreClient
    BY <2>3 DEF Obc!StoreClient, Obc!Goto, Listening, Ask
  <2>2. CASE Obc!Receive
    <3>1. inbox # <<>>
      BY <2>2 DEF Obc!Receive
    <3>2. 1 \in DOMAIN inbox /\ Head(inbox) = inbox[1]
      BY <1>0, <3>1
    <3>3. \A k \in DOMAIN Tail(inbox) : k + 1 \in DOMAIN inbox /\ Tail(inbox)[k] = inbox[k + 1]
      BY <1>0, <3>1
    <3> QED
      BY <2>2, <3>2, <3>3 DEF Obc!Receive, Obc!Goto, Listening
  <2> QED
    BY <1>0, <1>1, <2>1, <2>2, <2>3, ListenerServes
<1>2. CASE ImageAsked
  BY <1>2 DEF ImageAsked, Obc!HandleImage, Obc!Handle, Obc!Goto, Listening
<1>3. CASE RequestImage(c) /\ sock
  <2>1. inbox' = Append(inbox, Ask(c)) /\ UNCHANGED <<lpc, dgram, client, sock, quit>>
    BY <1>3 DEF RequestImage, SendCommand, Ask
  <2>2. \A k \in DOMAIN Append(inbox, Ask(c)) :
          Append(inbox, Ask(c))[k] = Ask(c)
          \/ (k \in DOMAIN inbox /\ Append(inbox, Ask(c))[k] = inbox[k])
    BY <1>0
  <2> QED
    BY <2>1, <2>2 DEF Listening
<1>4. CASE UNCHANGED listenVars
  BY <1>4 DEF listenVars, Listening
<1>5. MockStep \/ CallSend \/ Transmit(Mock) \/ SendReturns \/ ReceiveDatagram(c)
      \/ UNCHANGED vars => UNCHANGED listenVars
  BY DEF MockStep, CallSend, Transmit, SendReturns, ReceiveDatagram, vars, portVars, listenVars,
         Obc!listenVars, Obc!SendImage, Obc!SendHeader, Obc!SendChunk, Obc!AllSent,
         Obc!SendRefused
<1> QED
  BY <1>1, <1>2, <1>3, <1>4, <1>5, UndisturbedSteps

LEMMA CountedStep ==
  ASSUME IInv, FlowInv, NEW c, Clients = {c}, Listening(c), Counted(c), [Next]_vars,
         Undisturbed'
  PROVE  Counted(c)'
<1>0. inbox \in Seq(Commands) /\ ListenTypes /\ Len(inbox) \in Nat
      /\ sendCount \in Nat /\ taken \in Nat /\ Handled \in Nat
  BY DEF IInv, ListenTypes, MockTypes, Handled
<1>1. CASE Listener
  <2>1. UNCHANGED <<sendCount, taken, req>>
    BY <1>0, <1>1, ListenerServes DEF mockVars, clientVars
  <2>2. CASE Obc!StartListener \/ Obc!TestQuit \/ Obc!StoreClient
    BY <2>1, <2>2 DEF Obc!StartListener, Obc!TestQuit, Obc!StoreClient, Obc!Goto, Listening,
                      Counted, Handled
  <2>3. CASE Obc!Receive
    <3>1. inbox # <<>> /\ inbox' = Tail(inbox) /\ lpc = "recv" /\ lpc' = "store"
          /\ UNCHANGED sock
      BY <2>3 DEF Obc!Receive, Obc!Goto
    <3>2. Len(Tail(inbox)) = Len(inbox) - 1
      BY <1>0, <3>1, HeadTailProperties
    <3>3. Handled = 0 /\ Handled' = 1
      BY <3>1 DEF Handled
    <3> QED
      BY <1>0, <2>1, <3>1, <3>2, <3>3 DEF Counted
  <2> QED
    BY <1>0, <1>1, <2>2, <2>3, ListenerServes
<1>2. CASE ImageAsked
  <2>1. /\ lpc = "handle" /\ lpc' = "test" /\ sendCount' = sendCount + 1
        /\ UNCHANGED <<inbox, sock, taken, req>>
    BY <1>2 DEF ImageAsked, Obc!HandleImage, Obc!Handle, Obc!Goto, Camera!CountRequest,
                clientVars
  <2>2. Handled = 1 /\ Handled' = 0
    BY <2>1 DEF Handled
  <2> QED
    BY <1>0, <2>1, <2>2 DEF Counted
<1>3. CASE RequestImage(c) /\ sock
  <2>1. inbox' = Append(inbox, Ask(c)) /\ UNCHANGED <<lpc, sock, sendCount, taken>>
    BY <1>3 DEF RequestImage, SendCommand, Ask, mockVars
  <2>2. req'[c] = req[c] + 1
    BY <1>3 DEF RequestImage, Receiver!RequestImage, FlowInv, Counters
  <2>3. Len(Append(inbox, Ask(c))) = Len(inbox) + 1
    BY <1>0
  <2> QED
    BY <1>0, <1>3, <2>1, <2>2, <2>3 DEF Counted, Handled
<1>4. CASE MockStep
  <2>1. UNCHANGED <<inbox, lpc, sock, req>>
    BY <1>4 DEF MockStep, portVars, listenVars, clientVars
  <2>2. \/ sendCount > 0 /\ sendCount' = sendCount - 1 /\ taken' = taken + 1
        \/ UNCHANGED <<sendCount, taken>>
    BY <1>4 DEF MockStep, Camera!Scan, Camera!Poll, Camera!Load, Camera!ImageSent
  <2> QED
    BY <1>0, <2>1, <2>2 DEF Counted, Handled
<1>5. CASE UNCHANGED <<inbox, lpc, sock, sendCount, taken, req>>
  BY <1>5 DEF Counted, Handled
<1>6. CallSend \/ Transmit(Mock) \/ SendReturns \/ ReceiveDatagram(c) \/ UNCHANGED vars
        => UNCHANGED <<inbox, lpc, sock, sendCount, taken, req>>
  BY DEF CallSend, Transmit, SendReturns, ReceiveDatagram, vars, portVars, listenVars, mockVars,
         clientVars, Obc!listenVars, Obc!SendImage, Obc!SendHeader, Obc!SendChunk, Obc!AllSent,
         Obc!SendRefused, Camera!CallSend, Camera!SendReturns, Receiver!ReceiveHeader,
         Receiver!ReceiveChunk
<1> QED
  BY <1>1, <1>2, <1>3, <1>4, <1>5, <1>6, UndisturbedSteps

----------------------------------------------------------------------------
(* The mock thread, undisturbed.                                           *)

LEMMA RequestTaken ==
  ASSUME IInv, NEW c, Counted(c), taken > 0
  PROVE  req[c] > 0 /\ sock
<1>1. Len(inbox) \in Nat /\ Handled \in Nat /\ sendCount \in Nat /\ taken \in Nat
  BY DEF IInv, ListenTypes, MockTypes, Handled
<1>2. req[c] > 0
  BY <1>1 DEF Counted
<1> QED
  BY <1>2 DEF Counted

\* The steps that disturb the mock thread and its transfer.
LEMMA WorkingSteps ==
  ASSUME IInv, FlowInv, NEW c, Clients = {c}, Listening(c), [Next]_vars, Undisturbed'
  PROVE  \/ MockStep \/ CallSend \/ Transmit(Mock) \/ SendReturns
         \/ UNCHANGED <<mpc, image, stage, taken, xfer>>
<1>1. Listener => UNCHANGED <<mpc, image, stage, taken, xfer>>
  BY ListenerServes DEF mockVars, IInv
<1>2. ImageAsked \/ RequestImage(c) \/ ReceiveDatagram(c) \/ UNCHANGED vars
        => UNCHANGED <<mpc, image, stage, taken, xfer>>
  BY DEF ImageAsked, RequestImage, ReceiveDatagram, vars, mockVars, Obc!HandleImage,
         Camera!CountRequest
<1> QED
  BY <1>1, <1>2, UndisturbedSteps

LEMMA CalledSend ==
  ASSUME IInv, NEW c, Clients = {c}, Listening(c), Counted(c), Working(c), CallSend
  PROVE  /\ xfer'[Mock].pc = "header" /\ xfer'[Mock].dest = c /\ xfer'[Mock].tag = PlaneTag
         /\ mpc = "call" /\ mpc' = "sending" /\ UNCHANGED <<image, stage, taken, net, clientVars>>
<1>1. mpc = "call" /\ mpc' = "sending" /\ UNCHANGED <<image, stage, taken, net, clientVars>>
  BY DEF CallSend, Camera!CallSend, Camera!Goto, Obc!SendImage
<1>2. sock
  BY <1>1, RequestTaken DEF Working
<1>3. client = c
  BY <1>1, NotNobody DEF IInv, Known, Listening
<1>4. Mock \in Senders /\ xfer \in [Senders -> Xfers]
  BY XferTypesOK DEF Senders, IInv
<1>5. xfer'[Mock] = [pc |-> "header", dest |-> c, size |-> PlaneSizes[stage + 1],
                     next |-> 0, tag |-> PlaneTag]
  BY <1>2, <1>3, <1>4 DEF CallSend, Obc!SendImage
<1>6. xfer'[Mock].pc = "header" /\ xfer'[Mock].dest = c /\ xfer'[Mock].tag = PlaneTag
  BY <1>5
<1> QED
  BY <1>1, <1>6

\* send_image returns because it is through.
LEMMA SendDone ==
  ASSUME IInv, PlanesOnly, NEW c, Clients = {c}, Counted(c), Working(c), SendReturns
  PROVE  /\ xfer[Mock].pc = "chunk" /\ xfer[Mock].next = Obc!Chunks(PlaneSizes[stage + 1])
         /\ xfer'[Mock].pc = "idle"
         /\ mpc = "sending" /\ mpc' = "call" /\ stage' = stage + 1
         /\ UNCHANGED <<image, taken, net, clientVars>>
<1>1. mpc = "sending" /\ mpc' = "call" /\ stage' = stage + 1
      /\ UNCHANGED <<image, taken, clientVars>>
  BY DEF SendReturns, Camera!SendReturns, Camera!Goto
<1>2. sock
  BY <1>1, RequestTaken DEF Working
<1>3. xfer[Mock].pc # "idle" /\ xfer[Mock].tag = PlaneTag /\ xfer[Mock].dest = c
  BY <1>1 DEF Working
<1>4. c # NoAddress
  BY NotNobody DEF Addresses
<1>5. Obc!AllSent(Mock)
  BY <1>2, <1>3, <1>4 DEF SendReturns, Obc!SendRefused
<1>6. Mock \in Senders /\ xfer \in [Senders -> Xfers]
  BY XferTypesOK DEF Senders, IInv
<1>7. xfer[Mock].size = PlaneSizes[stage + 1]
  BY <1>3 DEF PlanesOnly, PlaneTag
<1> QED
  BY <1>1, <1>5, <1>6, <1>7 DEF Obc!AllSent, Obc!Return, Obc!Returned

LEMMA WorkingStep ==
  ASSUME IInv, FlowInv, NEW c, Clients = {c}, Listening(c), Counted(c), Working(c),
         [Next]_vars, Undisturbed'
  PROVE  Working(c)'
<1>0. taken \in Nat /\ PlanesOnly
  BY UndisturbedSteps DEF IInv, MockTypes
<1>1. CASE MockStep
  <2>1. UNCHANGED xfer
    BY <1>1 DEF MockStep, portVars
  <2>2. CASE Camera!Scan
    BY <2>1, <2>2, ImageAssumption DEF Camera!Scan, Camera!Goto, Working
  <2>3. CASE Camera!Poll
    <3>1. (taken + 1) - 1 = taken /\ taken + 1 > 0
      BY <1>0
    <3> QED
      BY <2>1, <2>3, <3>1 DEF Camera!Poll, Camera!Goto, Working, Current
  <2>4. CASE Camera!Load
    BY <2>1, <2>4 DEF Camera!Load, Camera!Goto, Working, Current
  <2>5. CASE Camera!ImageSent
    <3>1. taken - 1 \in Nat /\ (taken - 1) + 1 = taken
      BY <1>0, <2>5 DEF Camera!ImageSent, Camera!Goto, Working
    <3>2. (Current + 1) % ImageCount = taken % ImageCount
      BY <3>1, RemainderStep, ImageAssumption DEF Current
    <3> QED
      BY <2>1, <2>5, <3>2 DEF Camera!ImageSent, Camera!NextImage, Camera!Goto, Working
  <2> QED
    BY <1>1, <2>2, <2>3, <2>4, <2>5 DEF MockStep
<1>2. CASE CallSend
  <2>1. /\ xfer'[Mock].pc = "header" /\ xfer'[Mock].dest = c /\ xfer'[Mock].tag = PlaneTag
        /\ mpc = "call" /\ mpc' = "sending" /\ UNCHANGED <<image, stage, taken>>
    BY <1>2, CalledSend
  <2>2. PlaneTag' = PlaneTag /\ Current' = Current
    BY <2>1 DEF PlaneTag, Current
  <2> QED
    BY <2>1, <2>2 DEF Working
<1>3. CASE SendReturns
  BY <1>0, <1>3, SendDone DEF Working, Current
<1>4. CASE Transmit(Mock)
  <2>1. Mock \in Senders /\ xfer \in [Senders -> Xfers]
    BY XferTypesOK DEF Senders, IInv
  <2>2. xfer[Mock].pc # "idle" /\ xfer'[Mock].pc # "idle"
        /\ xfer'[Mock].tag = xfer[Mock].tag /\ xfer'[Mock].dest = xfer[Mock].dest
    BY <1>4, <2>1 DEF Transmit, Obc!SendHeader, Obc!SendChunk, Xfers
  <2>3. UNCHANGED <<mpc, image, stage, taken>>
    BY <1>4 DEF Transmit, mockVars
  <2> QED
    BY <2>2, <2>3 DEF Working, Current, PlaneTag
<1>5. CASE UNCHANGED <<mpc, image, stage, taken, xfer>>
  BY <1>5 DEF Working, Current, PlaneTag
<1> QED
  BY <1>1, <1>2, <1>3, <1>4, <1>5, WorkingSteps

\* Between two datagrams nothing changes which one is next.
LEMMA NextUpStays ==
  ASSUME IInv, PlanesOnly, NEW c, Clients = {c}, Listening(c), Counted(c), Working(c),
         (MockStep /\ ~Camera!Poll) \/ CallSend \/ SendReturns
         \/ UNCHANGED <<mpc, stage, xfer>>
  PROVE  NextUp' = NextUp
<1>0. MockTypes /\ stage \in Nat /\ Planes \in Nat
  BY PlaneCount DEF IInv, MockTypes
<1>1. CASE Camera!Scan
  BY <1>1, ImageAssumption DEF Camera!Scan, Camera!Goto, NextUp
<1>2. CASE Camera!Load
  BY <1>0, <1>2 DEF Camera!Load, Camera!Goto, NextUp, MockTypes
<1>3. CASE Camera!ImageSent
  BY <1>0, <1>3 DEF Camera!ImageSent, Camera!Goto, NextUp
<1>4. CASE CallSend
  <2>1. xfer'[Mock].pc = "header" /\ mpc = "call" /\ mpc' = "sending" /\ UNCHANGED stage
    BY <1>4, CalledSend
  <2> QED
    BY <2>1 DEF NextUp
<1>5. CASE SendReturns
  <2>1. Obc!Chunks(PlaneSizes[stage + 1]) \in Nat
    <3>1. stage + 1 \in 1..Planes
      BY <1>0, <1>5, SendDone DEF MockTypes
    <3> QED
      BY <3>1, PlaneCount, ChunkCount
  <2>2. After(stage + 1, Obc!Chunks(PlaneSizes[stage + 1])) = <<stage + 1 + 1, 0>>
    BY <2>1 DEF After
  <2> QED
    BY <1>0, <1>5, <2>2, SendDone DEF NextUp
<1>6. CASE UNCHANGED <<mpc, stage, xfer>>
  BY <1>6 DEF NextUp
<1> QED
  BY <1>1, <1>2, <1>3, <1>4, <1>5, <1>6 DEF MockStep

\* The datagram that is sent is the one that is next.
LEMMA SentNextUp ==
  ASSUME IInv, PlanesOnly, NEW c, Clients = {c}, Working(c), Working(c)', Transmit(Mock),
         NEW m \in Parcels, Sent(c, m)
  PROVE  /\ At(m) = NextUp /\ NextUp' = After(m.tag.plane, Due(m))
         /\ m.tag.image = Current
<1>1. xfer[Mock].pc # "idle" /\ UNCHANGED <<mpc, image, stage, taken>>
  BY DEF Transmit, Obc!SendHeader, Obc!SendChunk, mockVars
<1>2. mpc = "sending" /\ mpc' = "sending" /\ m.tag = PlaneTag
  BY <1>1 DEF Working, Sent, PlaneTag
<1>3. m.tag.plane = stage + 1 /\ m.tag.image = Current
  BY <1>2 DEF PlaneTag, Working
<1>4. NextUp' = After(m.tag.plane, Due(m))
  BY <1>1, <1>2, <1>3 DEF Sent, SentTo, NextUp
<1>5. At(m) = NextUp
  <2>1. CASE m.kind = "header"
    BY <1>2, <1>3, <2>1 DEF Sent, NextUp, At, Due
  <2>2. CASE m.kind = "chunk"
    <3>1. m.num < Obc!Chunks(PlaneSizes[m.tag.plane])
      BY <2>2, ParcelTypes DEF Parts
    <3> QED
      BY <1>2, <1>3, <2>2, <3>1 DEF Sent, SentTo, NextUp, At, Due, After
  <2> QED
    BY <2>1, <2>2, ParcelTypes
<1> QED
  BY <1>3, <1>4, <1>5

----------------------------------------------------------------------------
(* The client, undisturbed.                                                *)

\* A client that has something to receive is being served, and what it receives
\* is what it wants.
LEMMA Wanted ==
  ASSUME IInv, NEW c, Clients = {c}, Turn(c), Stream(c), ReceiveDatagram(c)
  PROVE  LET m == Head(net[c])
         IN /\ upc[c] # "idle" /\ req[c] = taken /\ req[c] > 0
            /\ Removed(c) /\ m \in Parcels
            /\ m.tag.image = Current /\ m.tag.plane = buf[c]
            /\ IF upc[c] = "chunks" THEN m.kind = "chunk" /\ m.num = got[c]
                                    ELSE m.kind = "header"
<1> DEFINE m == Head(net[c])
<1>1. Removed(c) /\ upc[c] # "idle"
  BY Received
<1>2. req[c] = taken /\ req[c] > 0
  BY <1>1 DEF Turn, Removed
<1>3. net[c] \in Seq(OfImage(Current)) /\ At(m) = Want(c)
  BY <1>1, <1>2 DEF Stream, Removed
<1>4. m \in OfImage(Current)
  BY <1>1, <1>3, HeadTailProperties DEF Removed
<1> HIDE DEF m
<1>5. m \in Parcels /\ m.tag.image = Current
  BY <1>4 DEF OfImage
<1>6. /\ m.num \in Nat /\ m.kind \in {"header", "chunk"}
      /\ got[c] \in Nat /\ upc[c] \in {"idle", "header", "chunks"}
  BY <1>5, ParcelTypes DEF IInv, ClientTypes
<1>7. m.tag.plane = buf[c] /\ Due(m) = IF upc[c] = "chunks" THEN got[c] + 1 ELSE 0
  BY <1>3 DEF At, Want
<1>8. IF upc[c] = "chunks" THEN m.kind = "chunk" /\ m.num = got[c] ELSE m.kind = "header"
  BY <1>6, <1>7 DEF Due
<1> QED
  BY <1>1, <1>2, <1>5, <1>7, <1>8 DEF m

\* What the client does with it.
LEMMA Accepted ==
  ASSUME IInv, NEW c, Clients = {c}, Turn(c), Stream(c), Filling(c), ReceiveDatagram(c)
  PROVE  LET m == Head(net[c])
             n == Obc!Chunks(PlaneSizes[buf[c]])
             filled == [data[c] EXCEPT ![m.num + 1] = m.tag]
         IN \/ /\ upc[c] = "header" /\ upc'[c] = "chunks" /\ mem'[c] = m.size /\ got'[c] = 0
               /\ data'[c] = [i \in 1..m.num |-> NoTag]
               /\ UNCHANGED <<buf, files>>
            \/ /\ upc[c] = "chunks" /\ got[c] + 1 < n
               /\ upc'[c] = "chunks" /\ mem'[c] = mem[c] /\ got'[c] = got[c] + 1
               /\ data'[c] = filled
               /\ UNCHANGED <<buf, files>>
            \/ /\ upc[c] = "chunks" /\ got[c] + 1 = n
               /\ Receiver!Save(c, filled)
               /\ IF buf[c] < Buffers THEN upc'[c] = "header" /\ buf'[c] = buf[c] + 1
                                      ELSE upc'[c] = "idle" /\ buf'[c] = buf[c]
<1> DEFINE m == Head(net[c])
           n == Obc!Chunks(PlaneSizes[buf[c]])
<1>1. m \in Parcels /\ m.tag.plane = buf[c]
      /\ IF upc[c] = "chunks" THEN m.kind = "chunk" /\ m.num = got[c] ELSE m.kind = "header"
  BY Wanted
<1>2. upc[c] = "chunks" => Receiver!Fits(m, c) /\ Len(data[c]) = n /\ got[c] < n
  BY <1>1, ChunkFits DEF Filling, IInv, ClientTypes
<1>3. got[c] \in Nat /\ n \in Nat
  <2>1. buf[c] \in 1..Planes
    BY DEF IInv, ClientTypes, Buffers
  <2> QED
    BY <2>1, PlaneCount, ChunkCount DEF IInv, ClientTypes
<1>4. Receiver!NextBuffer(c) =>
        IF buf[c] < Buffers THEN upc'[c] = "header" /\ buf'[c] = buf[c] + 1
                            ELSE upc'[c] = "idle" /\ buf'[c] = buf[c]
  BY DEF Receiver!NextBuffer, IInv, ClientTypes
<1>5. upc[c] \in {"idle", "header", "chunks"} /\ upc[c] # "idle"
  BY Wanted DEF IInv, ClientTypes
<1> HIDE DEF n
<1>6. got[c] + 1 = n \/ got[c] + 1 < n \/ upc[c] # "chunks"
  BY <1>2, <1>3
<1> QED
  BY <1>1, <1>2, <1>4, <1>5, <1>6, Received DEF n

\* The client goes on with what follows.
LEMMA WantsNext ==
  ASSUME IInv, NEW c, Clients = {c}, Turn(c), Stream(c), Filling(c), ReceiveDatagram(c)
  PROVE  LET m == Head(net[c])
         IN IF upc'[c] = "idle" THEN After(m.tag.plane, Due(m)) = <<Planes + 1, 0>>
                                ELSE After(m.tag.plane, Due(m)) = Want(c)'
<1> DEFINE m == Head(net[c])
           n == Obc!Chunks(PlaneSizes[buf[c]])
<1>1. m \in Parcels /\ m.tag.plane = buf[c]
      /\ IF upc[c] = "chunks" THEN m.kind = "chunk" /\ m.num = got[c] ELSE m.kind = "header"
  BY Wanted
<1>2. buf[c] \in 1..Planes /\ Buffers = Planes /\ Planes \in Nat /\ got[c] \in Nat
  BY PlaneCount DEF IInv, ClientTypes, Buffers
<1>3. n \in Nat \ {0}
  BY <1>2, PlaneCount, ChunkAssumption, AtLeastOneChunk DEF Obc!Chunks
<1>4. CASE upc[c] = "header" /\ upc'[c] = "chunks" /\ got'[c] = 0 /\ UNCHANGED buf
  BY <1>1, <1>2, <1>3, <1>4 DEF After, Due, Want
<1>5. CASE upc[c] = "chunks" /\ got[c] + 1 < n /\ upc'[c] = "chunks" /\ got'[c] = got[c] + 1
           /\ UNCHANGED buf
  BY <1>1, <1>2, <1>3, <1>5 DEF After, Due, Want
<1>6. CASE /\ upc[c] = "chunks" /\ got[c] + 1 = n
           /\ IF buf[c] < Buffers THEN upc'[c] = "header" /\ buf'[c] = buf[c] + 1
                                  ELSE upc'[c] = "idle" /\ buf'[c] = buf[c]
  BY <1>1, <1>2, <1>3, <1>6 DEF After, Due, Want
<1> QED
  BY <1>4, <1>5, <1>6, Accepted

\* The steps that mean something to the client.
LEMMA AloneSteps ==
  ASSUME IInv, FlowInv, NEW c, Clients = {c}, Listening(c), Counted(c), Working(c),
         [Next]_vars, Undisturbed'
  PROVE  \/ UNCHANGED <<taken, net, clientVars>> /\ NextUp' = NextUp
         \/ MockStep /\ Camera!Poll
         \/ Transmit(Mock) /\ \E m \in Parcels : Sent(c, m)
         \/ RequestImage(c)
         \/ ReceiveDatagram(c)
<1>1. PlanesOnly
  BY UndisturbedSteps
<1>2. CASE Listener \/ ImageAsked \/ UNCHANGED vars
  <2>1. UNCHANGED <<taken, net, clientVars, mpc, stage, xfer>>
    BY <1>2, ListenerServes
       DEF ImageAsked, Obc!HandleImage, Camera!CountRequest, vars, mockVars, clientVars, IInv
  <2> QED
    BY <1>1, <2>1, NextUpStays
<1>3. CASE MockStep /\ ~Camera!Poll
  <2>1. UNCHANGED <<taken, net, clientVars>>
    BY <1>3 DEF MockStep, portVars, Camera!Scan, Camera!Load, Camera!ImageSent
  <2> QED
    BY <1>1, <1>3, <2>1, NextUpStays
<1>4. CASE CallSend
  BY <1>1, <1>4, CalledSend, NextUpStays
<1>5. CASE SendReturns
  BY <1>1, <1>5, SendDone, NextUpStays
<1>6. CASE Transmit(Mock)
  <2>1. xfer[Mock].pc # "idle"
    BY <1>6 DEF Transmit, Obc!SendHeader, Obc!SendChunk
  <2>2. xfer[Mock].dest = c
    BY <2>1 DEF Working
  <2> QED
    BY <1>1, <1>6, <2>2, Transmitted
<1> QED
  BY <1>2, <1>3, <1>4, <1>5, <1>6, UndisturbedSteps

\* A request is taken, and its image begins.
LEMMA Begun ==
  ASSUME IInv, NEW c, Clients = {c}, Counted(c), Turn(c), MockStep, Camera!Poll
  PROVE  /\ req[c] = taken + 1 /\ taken' = taken + 1 /\ NextUp' = <<1, 0>>
         /\ UNCHANGED <<net, clientVars>>
<1>1. sendCount > 0 /\ taken' = taken + 1 /\ mpc = "poll" /\ mpc' = "load" /\ stage' = stage
      /\ UNCHANGED <<net, clientVars>>
  BY DEF MockStep, portVars, Camera!Poll, Camera!Goto
<1>2. Len(inbox) \in Nat /\ Handled \in Nat /\ sendCount \in Nat /\ taken \in Nat /\ stage = 0
  BY <1>1 DEF IInv, ListenTypes, MockTypes, Handled
<1>3. req[c] = taken + 1
  BY <1>1, <1>2 DEF Counted, Turn
<1>4. NextUp' = <<1, 0>>
  BY <1>1, <1>2 DEF NextUp
<1> QED
  BY <1>1, <1>3, <1>4

LEMMA TurnStep ==
  ASSUME IInv, FlowInv, NEW c, Clients = {c}, Alone(c), Working(c)', [Next]_vars, Undisturbed'
  PROVE  Turn(c)' /\ Stream(c)'
<1>0. /\ Listening(c) /\ Counted(c) /\ Working(c) /\ Turn(c) /\ Stream(c) /\ Filling(c)
      /\ PlanesOnly /\ Ordered(c) /\ taken \in Nat
  BY UndisturbedSteps DEF Alone, FlowInv, Undisturbed, IInv, MockTypes
<1>1. CASE UNCHANGED <<taken, net, clientVars>> /\ NextUp' = NextUp
  <2>1. Current' = Current /\ ImageOver' = ImageOver /\ Want(c)' = Want(c)
    BY <1>1 DEF Current, ImageOver, Want, clientVars
  <2> QED
    BY <1>0, <1>1, <2>1 DEF Turn, Stream, clientVars
<1>2. CASE MockStep /\ Camera!Poll
  <2>1. req[c] = taken + 1 /\ taken' = taken + 1 /\ NextUp' = <<1, 0>>
        /\ UNCHANGED <<net, clientVars>>
    BY <1>0, <1>2, Begun
  <2>2. upc[c] = "header" /\ buf[c] = 1 /\ net[c] = <<>> /\ req[c] > 0
    BY <1>0, <2>1 DEF Turn
  <2>3. net'[c] = <<>> /\ net'[c] \in Seq(OfImage(Current')) /\ Linked(net'[c], Streamed)
    BY <2>1, <2>2, EmptySeq DEF Linked
  <2>4. Want(c)' = <<1, 0>>
    BY <2>1, <2>2 DEF Want, clientVars
  <2> QED
    BY <1>0, <2>1, <2>2, <2>3, <2>4 DEF Turn, Stream, clientVars
<1>3. ASSUME Transmit(Mock), NEW m \in Parcels, Sent(c, m) PROVE Turn(c)' /\ Stream(c)'
  <2>1. At(m) = NextUp /\ NextUp' = After(m.tag.plane, Due(m)) /\ m.tag.image = Current
    BY <1>0, <1>3, SentNextUp
  <2>2. UNCHANGED taken /\ Untouched(c) /\ net'[c] = Append(net[c], m)
    BY <1>3 DEF Transmit, mockVars, Sent
  <2>3. ~ImageOver
    <3>1. m.tag.plane \in 1..Planes
      BY ParcelTypes DEF PlaneTags
    <3> QED
      BY <2>1, <3>1, PlaneCount DEF ImageOver, At
  <2>4. upc[c] # "idle" /\ req[c] = taken
    BY <1>0, <2>3 DEF Turn
  <2>5. net[c] \in Seq(OfImage(Current)) /\ m \in OfImage(Current) /\ Linked(net[c], Streamed)
    BY <1>0, <2>1, <2>4 DEF Stream, OfImage
  <2>6. net[c] # <<>> => <<Latest(net[c]), m>> \in Streamed
    BY <1>0, <2>1, <2>4, LatestParcel DEF Stream, Streamed
  <2>7. /\ Linked(net'[c], Streamed) /\ net'[c] # <<>> /\ Latest(net'[c]) = m
        /\ net[c] # <<>> => Head(net'[c]) = Head(net[c])
        /\ net[c] = <<>> => Head(net'[c]) = m
    BY <2>2, <2>5, <2>6, LinkedAppend
  <2>8. net'[c] \in Seq(OfImage(Current)) /\ Current' = Current /\ Want(c)' = Want(c)
    BY <2>2, <2>5, AppendProperties DEF Current, Want, Untouched
  <2>9. At(Head(net'[c])) = Want(c)
    BY <1>0, <2>1, <2>4, <2>7 DEF Stream
  <2>10. Turn(c)'
    BY <1>0, <2>2, <2>4 DEF Turn, Untouched
  <2>11. Stream(c)'
    BY <2>1, <2>7, <2>8, <2>9 DEF Stream
  <2> QED
    BY <2>10, <2>11
<1>4. CASE RequestImage(c)
  <2>1. /\ upc[c] = "idle" /\ upc'[c] = "header" /\ buf'[c] = 1 /\ req'[c] = req[c] + 1
        /\ UNCHANGED <<net, taken, mpc, stage, xfer>>
    BY <1>4 DEF RequestImage, Receiver!RequestImage, IInv, ClientTypes, FlowInv, Counters,
                mockVars
  <2>2. req[c] = taken /\ net[c] = <<>> /\ ImageOver
    BY <1>0, <2>1 DEF Turn
  <2>3. ImageOver'
    BY <2>1, <2>2 DEF ImageOver, NextUp
  <2> QED
    BY <1>0, <2>1, <2>2, <2>3 DEF Turn, Stream
<1>5. CASE ReceiveDatagram(c)
  <2> DEFINE m == Head(net[c])
  <2>1. /\ upc[c] # "idle" /\ req[c] = taken /\ req[c] > 0 /\ Removed(c) /\ m \in Parcels
    BY <1>0, <1>5, Wanted
  <2>2. UNCHANGED <<taken, mpc, stage, xfer, req>>
    BY <1>5 DEF ReceiveDatagram, mockVars, Receiver!ReceiveHeader, Receiver!ReceiveChunk
  <2>3. NextUp' = NextUp /\ Current' = Current
    BY <2>2 DEF NextUp, Current
  <2>4. net[c] \in Seq(OfImage(Current)) /\ net[c] # <<>> /\ net'[c] = Tail(net[c])
        /\ Linked(net[c], Streamed) /\ NextUp = After(Latest(net[c]).tag.plane, Due(Latest(net[c])))
    BY <1>0, <2>1 DEF Stream, Removed
  <2>5. /\ Linked(Tail(net[c]), Streamed)
        /\ Tail(net[c]) # <<>> => /\ <<m, Head(Tail(net[c]))>> \in Streamed
                                  /\ Latest(Tail(net[c])) = Latest(net[c])
        /\ Tail(net[c]) = <<>> => Latest(net[c]) = m
    BY <2>4, LinkedTail
  <2>6. Tail(net[c]) \in Seq(OfImage(Current))
    BY <2>4, HeadTailProperties
  <2>7. IF upc'[c] = "idle" THEN After(m.tag.plane, Due(m)) = <<Planes + 1, 0>>
                            ELSE After(m.tag.plane, Due(m)) = Want(c)'
    BY <1>0, <1>5, WantsNext
  <2>8. ASSUME upc'[c] = "idle" PROVE net'[c] = <<>> /\ ImageOver'
    <3>1. Tail(net[c]) = <<>>
      <4> SUFFICES ASSUME Tail(net[c]) # <<>> PROVE FALSE
        OBVIOUS
      <4> DEFINE h == Head(Tail(net[c]))
      <4>1. h \in Parcels /\ At(h) = After(m.tag.plane, Due(m))
        BY <2>5 DEF Streamed
      <4> HIDE DEF h
      <4>2. h.tag.plane \in 1..Planes
        BY <4>1, ParcelTypes DEF PlaneTags
      <4> QED
        BY <2>7, <2>8, <4>1, <4>2, PlaneCount DEF At
    <3> QED
      BY <2>3, <2>4, <2>5, <2>7, <2>8, <3>1 DEF ImageOver
  <2>9. Turn(c)'
    BY <1>0, <2>1, <2>2, <2>8 DEF Turn
  <2>10. ASSUME upc'[c] # "idle"
         PROVE  IF net'[c] = <<>>
                THEN NextUp' = Want(c)'
                ELSE /\ At(Head(net'[c])) = Want(c)'
                     /\ NextUp' = After(Latest(net'[c]).tag.plane, Due(Latest(net'[c])))
    BY <2>3, <2>4, <2>5, <2>7, <2>10 DEF Streamed
  <2>11. Stream(c)'
    BY <2>3, <2>4, <2>5, <2>6, <2>10 DEF Stream
  <2> QED
    BY <2>9, <2>11
<1> QED
  BY <1>0, <1>1, <1>2, <1>3, <1>4, <1>5, AloneSteps

\* A chunk that is accepted continues the buffer.
LEMMA Continued ==
  ASSUME IInv, NEW c, Clients = {c}, Turn(c), Stream(c), Filling(c), ReceiveDatagram(c),
         upc[c] = "chunks"
  PROVE  LET m == Head(net[c])
             filled == [data[c] EXCEPT ![m.num + 1] = m.tag]
         IN /\ filled \in Seq(Tags)
            /\ Len(filled) = Obc!Chunks(PlaneSizes[buf[c]])
            /\ \A k \in 1..got[c] + 1 : filled[k] = [image |-> Current, plane |-> buf[c]]
<1> DEFINE m == Head(net[c])
           filled == [data[c] EXCEPT ![m.num + 1] = m.tag]
           tag == [image |-> Current, plane |-> buf[c]]
<1>1. m \in Parcels /\ m.num = got[c] /\ m.tag.image = Current /\ m.tag.plane = buf[c]
  BY Wanted
<1>2. m.tag = tag /\ m.tag \in Tags
  BY <1>1 DEF Parcels, PlaneTags, Datagrams
<1>3. data[c] \in Seq(Tags) /\ got[c] \in Nat /\ got[c] < Len(data[c])
      /\ Len(data[c]) = Obc!Chunks(PlaneSizes[buf[c]])
      /\ \A k \in 1..got[c] : data[c][k] = tag
  BY DEF IInv, ClientTypes, Filling
<1> HIDE DEF m, tag
<1>4. filled \in Seq(Tags) /\ Len(filled) = Len(data[c])
  <2>1. m.num + 1 \in Nat
    BY <1>1, <1>3
  <2> QED
    BY <1>2, <1>3, <2>1, WrittenAt, Zenon
<1>5. \A k \in 1..Len(data[c]) : filled[k] = IF k = got[c] + 1 THEN tag ELSE data[c][k]
  BY <1>1, <1>2, <1>3
<1> HIDE DEF filled
<1>6. \A k \in 1..got[c] + 1 : filled[k] = tag
  BY <1>3, <1>5
<1> QED
  BY <1>3, <1>4, <1>6 DEF filled, m, tag

LEMMA FillingStep ==
  ASSUME IInv, FlowInv, NEW c, Clients = {c}, Alone(c), [Next]_vars, Undisturbed'
  PROVE  Filling(c)'
<1>0. /\ Listening(c) /\ Counted(c) /\ Working(c) /\ Turn(c) /\ Stream(c) /\ Filling(c)
  BY DEF Alone
<1>1. CASE UNCHANGED <<taken, net, clientVars>>
  BY <1>0, <1>1 DEF Filling, clientVars, Current
<1>2. CASE MockStep /\ Camera!Poll
  <2>1. req[c] = taken + 1 /\ UNCHANGED clientVars
    BY <1>0, <1>2, Begun
  <2>2. upc'[c] = "header"
    BY <1>0, <2>1 DEF Turn, clientVars
  <2> QED
    BY <2>2 DEF Filling
<1>3. ASSUME Transmit(Mock), NEW m \in Parcels, Sent(c, m) PROVE Filling(c)'
  <2>1. Untouched(c) /\ UNCHANGED taken
    BY <1>3 DEF Transmit, mockVars, Sent
  <2> QED
    BY <1>0, <2>1 DEF Untouched, Filling, Current
<1>4. CASE RequestImage(c)
  BY <1>4 DEF RequestImage, Receiver!RequestImage, IInv, ClientTypes, Filling
<1>5. CASE ReceiveDatagram(c)
  <2> DEFINE m == Head(net[c])
             filled == [data[c] EXCEPT ![m.num + 1] = m.tag]
  <2>1. Current' = Current
    BY <1>5 DEF ReceiveDatagram, mockVars, Current
  <2>2. m \in Parcels /\ m.tag.plane = buf[c] /\ (upc[c] = "header" => m.kind = "header")
    BY <1>0, <1>5, Wanted
  <2>3. CASE /\ upc[c] = "header" /\ mem'[c] = m.size /\ got'[c] = 0
             /\ data'[c] = [i \in 1..m.num |-> NoTag] /\ UNCHANGED buf
    <3>1. m.size = PlaneSizes[buf[c]] /\ m.num = Obc!Chunks(PlaneSizes[buf[c]]) /\ m.num \in Nat
      BY <2>2, <2>3, ParcelTypes DEF Parts
    <3> HIDE DEF m
    <3>2. Len([i \in 1..m.num |-> NoTag]) = m.num
      BY <3>1
    <3> QED
      BY <2>3, <3>1, <3>2 DEF Filling
  <2>4. CASE /\ upc[c] = "chunks" /\ mem'[c] = mem[c] /\ got'[c] = got[c] + 1
             /\ data'[c] = filled /\ UNCHANGED buf
    <3>1. Len(filled) = Obc!Chunks(PlaneSizes[buf[c]])
          /\ \A k \in 1..got[c] + 1 : filled[k] = [image |-> Current, plane |-> buf[c]]
      BY <1>0, <1>5, <2>4, Continued
    <3> HIDE DEF filled
    <3> QED
      BY <1>0, <2>1, <2>4, <3>1 DEF Filling
  <2>5. CASE upc'[c] # "chunks"
    BY <2>5 DEF Filling
  <2> QED
    BY <1>0, <1>5, <2>3, <2>4, <2>5, Accepted
<1> QED
  BY <1>0, <1>1, <1>2, <1>3, <1>4, <1>5, AloneSteps

LEMMA RightStep ==
  ASSUME IInv, FlowInv, NEW c, Clients = {c}, Alone(c), [Next]_vars, Undisturbed'
  PROVE  Right'
<1>0. Turn(c) /\ Stream(c) /\ Filling(c) /\ Right
  BY DEF Alone
<1>1. CASE UNCHANGED files
  BY <1>0, <1>1 DEF Right, Whole
<1>2. CASE ReceiveDatagram(c)
  <2> DEFINE m == Head(net[c])
             filled == [data[c] EXCEPT ![m.num + 1] = m.tag]
             n == Obc!Chunks(PlaneSizes[buf[c]])
             new == [client |-> c, req |-> req[c], buf |-> buf[c], size |-> mem[c],
                     data |-> filled]
  <2>1. req[c] = taken
    BY <1>0, <1>2, Wanted
  <2>2. CASE upc[c] = "chunks" /\ got[c] + 1 = n /\ Receiver!Save(c, filled)
    <3>1. filled \in Seq(Tags) /\ Len(filled) = n
          /\ \A k \in 1..got[c] + 1 : filled[k] = [image |-> Current, plane |-> buf[c]]
      BY <1>0, <1>2, <2>2, Continued
    <3>2. files' = files \cup {new}
      BY <2>2 DEF Receiver!Save
    <3> HIDE DEF filled
    <3>3. filled = Whole(buf[c], Current)
      BY <2>2, <3>1 DEF Whole
    <3>4. new.req = taken /\ new.buf = buf[c] /\ new.data = filled
      BY <2>1
    <3> HIDE DEF new
    <3> QED
      BY <1>0, <3>2, <3>3, <3>4 DEF Right, Current, Whole
  <2> QED
    BY <1>0, <1>1, <1>2, <2>2, Accepted
<1> QED
  BY <1>1, <1>2, FilesSteps

\* There is one client, whichever it is.
OneClient == \E c : Clients = {c}

AloneInv == IInv /\ FlowInv /\ (Undisturbed => \A c \in Clients : Alone(c))

LEMMA InitAloneInv == OneClient /\ Init => AloneInv
<1> SUFFICES ASSUME OneClient, Init PROVE AloneInv
  OBVIOUS
<1>1. PICK c : Clients = {c}
  BY DEF OneClient
<1> QED
  BY <1>1, InitIInv, InitFlow, InitAlone DEF AloneInv

LEMMA StepAloneInv == OneClient /\ AloneInv /\ [Next]_vars => AloneInv'
<1> SUFFICES ASSUME OneClient, AloneInv, [Next]_vars PROVE AloneInv'
  OBVIOUS
<1>1. PICK c : Clients = {c}
  BY DEF OneClient
<1>2. IInv /\ FlowInv /\ IInv' /\ FlowInv'
  BY StepIInv, StepFlow DEF AloneInv
<1>3. ASSUME Undisturbed' PROVE Alone(c)'
  <2>1. Undisturbed
    BY <1>1, <1>2, <1>3, UndisturbedSteps
  <2>2. Alone(c)
    BY <1>1, <2>1 DEF AloneInv
  <2>3. Listening(c) /\ Counted(c) /\ Working(c)
    BY <2>2 DEF Alone
  <2>4. Working(c)'
    BY <1>1, <1>2, <1>3, <2>3, WorkingStep
  <2>5. Listening(c)' /\ Counted(c)'
    BY <1>1, <1>2, <1>3, <2>3, ListeningStep, CountedStep
  <2>6. Turn(c)' /\ Stream(c)'
    BY <1>1, <1>2, <1>3, <2>2, <2>4, TurnStep
  <2>7. Filling(c)' /\ Right'
    BY <1>1, <1>2, <1>3, <2>2, FillingStep, RightStep
  <2> QED
    BY <2>4, <2>5, <2>6, <2>7 DEF Alone
<1> QED
  BY <1>1, <1>2, <1>3 DEF AloneInv

LEMMA AlwaysAlone == OneClient /\ Spec => []AloneInv
<1>1. OneClient => OneClient'
  BY DEF OneClient
<1> QED
  BY <1>1, InitAloneInv, StepAloneInv, PTL DEF Spec

\* Undisturbed, the only client gets the right planes: its n-th request is
\* answered with the n-th file of the directory, in turn, and its n-th buffer
\* with the n-th plane, however far the mock thread runs ahead of the client.
THEOREM RightImages == OneClient /\ Spec => []FilesRight
<1>1. OneClient /\ AloneInv => FilesRight
  BY DEF OneClient, AloneInv, Alone, Right, FilesRight
<1>2. OneClient => OneClient'
  BY DEF OneClient
<1> QED
  BY <1>1, <1>2, AlwaysAlone, PTL
==============================================================================
