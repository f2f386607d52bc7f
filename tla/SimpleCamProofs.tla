--------------------------- MODULE SimpleCamProofs ---------------------------
(***************************************************************************)
(* The capture pipeline, for any number of buffers, planes, requests and   *)
(* start commands: the OBC is sent no image it did not ask for, every      *)
(* frame is sent whole, nothing is torn down while it is in use, and the   *)
(* ring of requests only turns, without one being lost or doubled.         *)
(***************************************************************************)
EXTENDS SimpleCam, SequenceTheorems, FiniteSetTheorems, TLAPS

CountTypes ==
  /\ sendCount \in Nat
  /\ tmp \in Nat \cup {NoTmp}
  /\ asked \in Nat
  /\ taken \in Nat
  /\ spc \in {"idle", "count", "planes", "requeue"}
  /\ sendCurrent \in BOOLEAN
  /\ plane \in Nat
  /\ sent \in Nat

\* What the listener read under the mutex is out of date only if start reset
\* the count since: it is never too high.
TmpNotTooHigh == tmp # NoTmp => taken + tmp <= asked

\* send_current is set only while the planes of the frame it is for are sent.
CurrentIsThisFrame ==
  /\ sendCurrent => spc = "planes"
  /\ spc = "count" => sent = 0 /\ plane = 1
  /\ spc = "planes" => sent < plane

IInv == CountTypes /\ NoUnaskedImage /\ TmpNotTooHigh /\ CurrentIsThisFrame

----------------------------------------------------------------------------

LEMMA InitIInv == Init => IInv
<1> SUFFICES ASSUME Init PROVE IInv
  OBVIOUS
<1>1. CountTypes
  BY DEF Init, CountTypes
<1>2. NoUnaskedImage /\ TmpNotTooHigh
  BY DEF Init, NoUnaskedImage, TmpNotTooHigh
<1>3. CurrentIsThisFrame
  BY DEF Init, CurrentIsThisFrame
<1> QED
  BY <1>1, <1>2, <1>3 DEF IInv

\* The steps that have nothing to do with image requests.
Others ==
  \/ StartCameraThread \/ StartThrows \/ SetupFails \/ Setup \/ StartCamera
  \/ QueueRequest \/ RunLoop \/ StopCamera \/ FreeBuffers \/ ReleaseCamera
  \/ RequestComplete \/ LibInterrupt \/ StartExec \/ LoopThread \/ TimerExpires
  \/ UseAfterTeardown \/ UNCHANGED vars

LEMMA OthersKeepCounts == Others => UNCHANGED <<countVars, saveVars>>
BY DEF Others, StartCameraThread, StartThrows, SetupFails, Setup, StartCamera,
       QueueRequest, RunLoop, StopCamera, FreeBuffers, ReleaseCamera,
       RequestComplete, LibInterrupt, StartExec, LoopThread, ProcessRequest,
       ExecStep, TimerExpires, UseAfterTeardown, ringRest, vars

LEMMA StepCases ==
  [Next]_vars =>
    \/ Others \/ ResetSendCount \/ AskRead \/ AskWrite \/ TakeTask \/ TakeRequest
    \/ SavePlane \/ MmapFails \/ EndOfPlanes \/ Requeue
BY DEF Next, CameraThread, SenderThread, Others

----------------------------------------------------------------------------

LEMMA UnchangedIInv ==
  IInv /\ UNCHANGED <<countVars, saveVars>> => IInv'
BY DEF IInv, CountTypes, NoUnaskedImage, TmpNotTooHigh, CurrentIsThisFrame,
       countVars, saveVars

\* The reset of start and the two halves of send_count++.
LEMMA CountIInv ==
  ASSUME IInv, ResetSendCount \/ AskRead \/ AskWrite
  PROVE  IInv'
<1>1. CASE ResetSendCount
  BY <1>1 DEF ResetSendCount, saveVars, IInv, CountTypes, NoUnaskedImage,
              TmpNotTooHigh, CurrentIsThisFrame
<1>2. CASE AskRead
  BY <1>2 DEF AskRead, saveVars, IInv, CountTypes, NoUnaskedImage,
              TmpNotTooHigh, CurrentIsThisFrame, NoTmp
<1>3. CASE AskWrite
  BY <1>3 DEF AskWrite, saveVars, IInv, CountTypes, NoUnaskedImage,
              TmpNotTooHigh, CurrentIsThisFrame, NoTmp
<1> QED
  BY <1>1, <1>2, <1>3

\* saveData takes a request only while the listener does not hold the mutex.
LEMMA TakeRequestIInv ==
  ASSUME IInv, TakeRequest
  PROVE  IInv'
<1> USE DEF TakeRequest, IInv, CountTypes
<1>1. CountTypes'
  <2>1. CASE sendCount >= 1
    <3>1. sendCount' \in Nat /\ taken' \in Nat
      BY <2>1
    <3>2. sendCurrent' = TRUE
      BY <2>1
    <3> QED
      BY <3>1, <3>2
  <2>2. CASE ~(sendCount >= 1)
    BY <2>2
  <2> QED
    BY <2>1, <2>2
<1>2. NoUnaskedImage'
  BY DEF NoUnaskedImage
<1>3. TmpNotTooHigh'
  BY DEF TmpNotTooHigh
<1>4. CurrentIsThisFrame'
  BY DEF CurrentIsThisFrame
<1> QED
  BY <1>1, <1>2, <1>3, <1>4

LEMMA SenderIInv ==
  ASSUME IInv, TakeTask \/ SavePlane \/ MmapFails \/ EndOfPlanes \/ Requeue
  PROVE  IInv'
<1> USE DEF IInv, CountTypes, NoUnaskedImage, TmpNotTooHigh, CurrentIsThisFrame,
            countVars
<1>1. CASE TakeTask
  BY <1>1 DEF TakeTask
<1>2. CASE SavePlane
  BY <1>2 DEF SavePlane, Sends
<1>3. CASE MmapFails
  BY <1>3 DEF MmapFails
<1>4. CASE EndOfPlanes
  BY <1>4 DEF EndOfPlanes
<1>5. CASE Requeue
  BY <1>5 DEF Requeue
<1> QED
  BY <1>1, <1>2, <1>3, <1>4, <1>5

\* Every step keeps the invariant.
LEMMA NextIInv == IInv /\ [Next]_vars => IInv'
BY StepCases, OthersKeepCounts, UnchangedIInv, CountIInv, TakeRequestIInv, SenderIInv

THEOREM Invariance == Spec => []IInv
BY InitIInv, NextIInv, PTL DEF Spec

\* Requests answered and requests waiting never exceed the requests received.
THEOREM NeverUnasked == Spec => []NoUnaskedImage
<1>1. IInv => NoUnaskedImage
  BY DEF IInv
<1> QED
  BY <1>1, Invariance, PTL

----------------------------------------------------------------------------
(* The refinement of ImageService.                                         *)

LEMMA InitService == Init => Service!Init
BY DEF Init, Service!Init, Service!NoImage

\* The step that is taken in the service, or none.
LEMMA NextService == IInv /\ [Next]_vars => [Service!Next]_(Service!serviceVars)
<1> SUFFICES ASSUME IInv, [Next]_vars
             PROVE  Service!Next \/ UNCHANGED Service!serviceVars
  OBVIOUS
<1> USE DEF IInv, CountTypes, Service!NoImage
<1>1. CASE UNCHANGED <<countVars, saveVars>>
  BY <1>1 DEF countVars, saveVars, Service!serviceVars
<1>2. CASE ResetSendCount \/ AskRead
  BY <1>2 DEF ResetSendCount, AskRead, saveVars, Service!serviceVars
<1>3. CASE AskWrite
  <2>1. Service!Ask
    BY <1>3 DEF AskWrite, saveVars, Service!Ask
  <2> QED
    BY <2>1 DEF Service!Next
<1>4. CASE TakeRequest /\ sendCount >= 1
  <2>1. Service!Accept
    BY <1>4 DEF TakeRequest, CurrentIsThisFrame, NoUnaskedImage, Service!Accept
  <2> QED
    BY <2>1 DEF Service!Next
<1>5. CASE TakeRequest /\ ~(sendCount >= 1)
  BY <1>5 DEF TakeRequest, CurrentIsThisFrame, Service!serviceVars
<1>6. CASE SavePlane /\ Sends
  <2>1. Service!SendPlane
    BY <1>6, PlanesAssumption
    DEF SavePlane, Sends, CurrentIsThisFrame, countVars, Service!SendPlane
  <2> QED
    BY <2>1 DEF Service!Next
<1>7. CASE SavePlane /\ ~Sends
  BY <1>7 DEF SavePlane, Sends, countVars, Service!serviceVars
<1>8. CASE (MmapFails \/ EndOfPlanes) /\ sendCurrent
  <2>1. Service!End
    BY <1>8 DEF MmapFails, EndOfPlanes, countVars, Service!End
  <2> QED
    BY <2>1 DEF Service!Next
<1>9. CASE (MmapFails \/ EndOfPlanes) /\ ~sendCurrent
  BY <1>9 DEF MmapFails, EndOfPlanes, countVars, Service!serviceVars
<1>10. CASE TakeTask \/ Requeue
  BY <1>10 DEF TakeTask, Requeue, CurrentIsThisFrame, countVars, Service!serviceVars
<1> QED
  BY <1>1, <1>2, <1>3, <1>4, <1>5, <1>6, <1>7, <1>8, <1>9, <1>10,
     StepCases, OthersKeepCounts

\* saveData, fed by the listener, serves each request at most once, one frame
\* at a time and plane after plane.
THEOREM ImplementsService == Spec => ServiceSpec
BY Invariance, InitService, NextService, PTL DEF Spec, ServiceSpec, Service!Spec

----------------------------------------------------------------------------
(* The type invariant.  It needs that the call being run is a request and  *)
(* that fewer planes were sent than visited.                               *)

LoopTypes ==
  /\ Loop!TypeOK
  /\ lpc \in {"call", "last"} => current # NoRequest

RingTypes ==
  /\ queue \in Seq(Requests)
  /\ held \in [{Sender} -> Requests \cup {NoRequest}]
  /\ atCamera \in Seq(Requests)

StartTypes ==
  /\ started \in BOOLEAN
  /\ cpc \in {"off", "begin", "reset", "start", "queue", "join", "free",
              "release", "ended"}
  /\ camera \in {"null", "acquired", "running", "stopped"}
  /\ allocated \in BOOLEAN
  /\ next \in 1..BufferCount + 1
  /\ starts \in Nat

PlaneTypes ==
  /\ plane \in 1..Planes + 1
  /\ sent \in Nat
  /\ sent < plane

Types ==
  /\ LoopTypes
  /\ RingTypes
  /\ StartTypes
  /\ PlaneTypes
  /\ crashed \in BOOLEAN

LEMMA TypesTypeOK == IInv /\ Types => TypeOK
<1> SUFFICES ASSUME IInv, Types PROVE TypeOK
  OBVIOUS
<1>1. sent \in 0..Planes
  BY PlanesAssumption DEF Types, PlaneTypes
<1> QED
  BY <1>1 DEF IInv, CountTypes, Types, LoopTypes, RingTypes, StartTypes, PlaneTypes, TypeOK

LEMMA InitTypes == Init => Types
<1> SUFFICES ASSUME Init PROVE Types
  OBVIOUS
<1> USE DEF Init
<1>1. LoopTypes
  <2>1. calls \in Seq(Requests)
    BY EmptySeq DEF Loop!Init
  <2>2. gap \in 0..MaxGapPosts
    BY BoundAssumption DEF Loop!Init
  <2> QED
    BY <2>1, <2>2 DEF LoopTypes, Loop!Init, Loop!TypeOK, Loop!LoopPCs
<1>2. RingTypes
  BY EmptySeq DEF RingTypes, Deque!Init
<1>3. StartTypes
  <2>1. next \in 1..BufferCount + 1 /\ starts \in Nat
    BY BufferAssumption
  <2> QED
    BY <2>1 DEF StartTypes
<1>4. PlaneTypes
  BY PlanesAssumption DEF PlaneTypes
<1> QED
  BY <1>1, <1>2, <1>3, <1>4 DEF Types

\* A filled request is posted.
LEMMA CallLaterTypes ==
  ASSUME LoopTypes, NEW r \in Requests, Loop!CallLater(Lib, r)
  PROVE  LoopTypes'
<1> USE DEF LoopTypes, Loop!TypeOK, Loop!CallLater
<1>1. calls' \in Seq(Requests)
  BY AppendProperties
<1>2. gap' \in 0..MaxGapPosts
  BY BoundAssumption
<1>3. tpc' \in [Loop!Threads -> {"idle", "interrupt"}]
  OBVIOUS
<1> QED
  BY <1>1, <1>2, <1>3

\* The event loop takes the next request.
LEMMA TakeCallTypes ==
  ASSUME LoopTypes, Loop!TakeCall
  PROVE  LoopTypes'
<1> USE DEF LoopTypes, Loop!TypeOK, Loop!TakeCall
<1>1. Head(calls) \in Requests /\ Tail(calls) \in Seq(Requests)
  BY HeadTailProperties
<1>2. gap' \in 0..MaxGapPosts
  BY BoundAssumption
<1>3. current' # NoRequest
  BY <1>1, BufferAssumption DEF Requests, NoRequest
<1>4. lpc' \in Loop!LoopPCs
  BY DEF Loop!LoopPCs
<1> QED
  BY <1>1, <1>2, <1>3, <1>4

\* The other steps of the loop, of its timer and of those who interrupt it.
LEMMA LoopTypesKept ==
  ASSUME LoopTypes,
         \/ Loop!Interrupt(Lib) \/ Loop!StartExec \/ Loop!CallReturns
         \/ Loop!TestExit \/ Loop!EndDispatch \/ Loop!EnterLoop \/ Loop!LeaveLoop
         \/ Loop!Timeout \/ Loop!TimeoutTriggered
  PROVE  LoopTypes'
<1> USE DEF LoopTypes, Loop!TypeOK, Loop!LoopPCs
<1>1. CASE Loop!Interrupt(Lib)
  BY <1>1 DEF Loop!Interrupt
<1>2. CASE Loop!StartExec \/ Loop!TestExit \/ Loop!EnterLoop \/ Loop!LeaveLoop
  BY <1>2 DEF Loop!StartExec, Loop!TestExit, Loop!EnterLoop, Loop!LeaveLoop
<1>3. CASE Loop!CallReturns
  BY <1>3 DEF Loop!CallReturns
<1>4. CASE Loop!EndDispatch
  BY <1>4, BoundAssumption DEF Loop!EndDispatch
<1>5. CASE Loop!Timeout \/ Loop!TimeoutTriggered
  BY <1>5 DEF Loop!Timeout, Loop!TimeoutTriggered
<1> QED
  BY <1>1, <1>2, <1>3, <1>4, <1>5

\* The camera thread.
LEMMA CameraThreadTypes ==
  ASSUME Types, StartCameraThread \/ CameraThread
  PROVE  Types'
<1> USE DEF Types, Goto
<1>1. CASE StartCameraThread
  <2>1. starts' \in Nat
    BY <1>1 DEF StartCameraThread, StartTypes
  <2>2. StartTypes'
    BY <1>1, <2>1 DEF StartCameraThread, StartTypes
  <2> QED
    BY <1>1, <2>2 DEF StartCameraThread, loopVars, dequeVars, saveVars, LoopTypes,
       Loop!TypeOK, RingTypes, PlaneTypes
<1>6. CASE StartThrows \/ SetupFails \/ Setup
  <2>1. StartTypes'
    BY <1>6 DEF StartThrows, SetupFails, Setup, StartTypes
  <2> QED
    BY <1>6, <2>1 DEF StartThrows, SetupFails, Setup, loopVars, dequeVars,
       saveVars, LoopTypes, Loop!TypeOK, RingTypes, PlaneTypes
<1>2. CASE ResetSendCount \/ StartCamera \/ FreeBuffers \/ ReleaseCamera
  <2>1. StartTypes'
    BY <1>2 DEF ResetSendCount, StartCamera, FreeBuffers, ReleaseCamera, StartTypes
  <2>2. UNCHANGED <<loopVars, dequeVars, saveVars, atCamera, crashed>>
    BY <1>2 DEF ResetSendCount, StartCamera, FreeBuffers, ReleaseCamera
  <2> QED
    BY <2>1, <2>2 DEF loopVars, dequeVars, saveVars, LoopTypes, Loop!TypeOK, RingTypes,
       PlaneTypes
<1>3. CASE QueueRequest
  <2>1. next \in Requests /\ next' \in 1..BufferCount + 1
    BY <1>3, BufferAssumption DEF QueueRequest, StartTypes, Requests
  <2>2. atCamera' \in Seq(Requests)
    BY <1>3, <2>1, AppendProperties DEF QueueRequest, RingTypes
  <2> QED
    BY <1>3, <2>1, <2>2 DEF QueueRequest, loopVars, dequeVars, saveVars, LoopTypes,
       Loop!TypeOK, RingTypes, StartTypes, PlaneTypes
<1>4. CASE RunLoop
  <2>1. LoopTypes'
    BY <1>4, LoopTypesKept DEF RunLoop
  <2> QED
    BY <1>4, <2>1 DEF RunLoop, dequeVars, saveVars, RingTypes, StartTypes, PlaneTypes
<1>5. CASE StopCamera
  <2>1. atCamera' \in Seq(Requests)
    BY <1>5, EmptySeq DEF StopCamera
  <2> QED
    BY <1>5, <2>1 DEF StopCamera, loopVars, dequeVars, saveVars, LoopTypes,
       Loop!TypeOK, RingTypes, StartTypes, PlaneTypes
<1> QED
  BY <1>1, <1>2, <1>3, <1>4, <1>5, <1>6 DEF CameraThread

\* libcamera's thread, the event loop and its timer.
LEMMA LoopThreadTypes ==
  ASSUME Types,
         RequestComplete \/ LibInterrupt \/ StartExec \/ LoopThread \/ TimerExpires
  PROVE  Types'
<1> USE DEF Types
<1>1. UNCHANGED <<startVars, saveVars, crashed, held>>
  BY DEF RequestComplete, LibInterrupt, StartExec, LoopThread, ProcessRequest, ExecStep,
     TimerExpires, ringRest, dequeVars, Deque!PushBack
<1>2. StartTypes' /\ PlaneTypes' /\ crashed' \in BOOLEAN
  BY <1>1 DEF StartTypes, PlaneTypes, startVars, saveVars
<1>3. CASE RequestComplete
  <2>1. Head(atCamera) \in Requests /\ Tail(atCamera) \in Seq(Requests)
    BY <1>3, HeadTailProperties DEF RequestComplete, RingTypes
  <2>2. LoopTypes'
    BY <1>3, <2>1, CallLaterTypes DEF RequestComplete
  <2>3. RingTypes'
    BY <1>3, <2>1 DEF RequestComplete, RingTypes, dequeVars
  <2> QED
    BY <1>2, <2>2, <2>3
<1>4. CASE ProcessRequest
  <2>1. current \in Requests
    BY <1>4 DEF ProcessRequest, Loop!CallReturns, LoopTypes, Loop!TypeOK
  <2>2. LoopTypes'
    BY <1>4, LoopTypesKept DEF ProcessRequest
  <2>3. RingTypes'
    BY <1>4, <2>1, AppendProperties DEF ProcessRequest, Deque!PushBack, RingTypes
  <2> QED
    BY <1>2, <2>2, <2>3
<1>5. CASE LibInterrupt \/ StartExec \/ ExecStep \/ TimerExpires
  <2>1. LoopTypes'
    BY <1>5, LoopTypesKept, TakeCallTypes
    DEF LibInterrupt, StartExec, ExecStep, TimerExpires
  <2>2. RingTypes'
    BY <1>5 DEF LibInterrupt, StartExec, ExecStep, TimerExpires, RingTypes, dequeVars
  <2> QED
    BY <1>2, <2>1, <2>2
<1> QED
  BY <1>3, <1>4, <1>5 DEF LoopThread

\* saveData; what it uses after the teardown changes nothing else.
LEMMA SenderTypes ==
  ASSUME Types, SenderThread \/ UseAfterTeardown
  PROVE  Types'
<1> USE DEF Types, senderRest
<1>1. CASE TakeTask
  <2>1. Head(queue) \in Requests /\ Tail(queue) \in Seq(Requests)
    BY <1>1, HeadTailProperties DEF TakeTask, Deque!Take, RingTypes
  <2>2. RingTypes'
    BY <1>1, <2>1 DEF TakeTask, Deque!Take, RingTypes
  <2>3. PlaneTypes'
    BY <1>1, PlanesAssumption DEF TakeTask, PlaneTypes
  <2> QED
    BY <1>1, <2>2, <2>3 DEF TakeTask, loopVars, startVars, LoopTypes, Loop!TypeOK,
       StartTypes
<1>2. CASE SavePlane
  <2>1. PlaneTypes'
    BY <1>2, PlanesAssumption DEF SavePlane, PlaneTypes
  <2> QED
    BY <1>2, <2>1 DEF SavePlane, loopVars, startVars, dequeVars, LoopTypes, Loop!TypeOK,
       StartTypes, RingTypes
<1>3. CASE TakeRequest \/ MmapFails \/ EndOfPlanes
  BY <1>3 DEF TakeRequest, MmapFails, EndOfPlanes, loopVars, startVars,
     dequeVars, LoopTypes, Loop!TypeOK, StartTypes, RingTypes, PlaneTypes
<1>5. CASE UseAfterTeardown
  BY <1>5 DEF UseAfterTeardown, loopVars, startVars, saveVars, dequeVars, LoopTypes,
     Loop!TypeOK, StartTypes, RingTypes, PlaneTypes
<1>4. CASE Requeue
  <2>1. held[Sender] \in Requests
    BY <1>4 DEF Requeue, Deque!Finish, RingTypes
  <2>2. RingTypes'
    BY <1>4, <2>1, AppendProperties DEF Requeue, Deque!Finish, RingTypes
  <2> QED
    BY <1>4, <2>2 DEF Requeue, loopVars, startVars, LoopTypes, Loop!TypeOK, StartTypes,
       PlaneTypes
<1> QED
  BY <1>1, <1>2, <1>3, <1>4, <1>5 DEF SenderThread

LEMMA NextTypes == Types /\ [Next]_vars => Types'
<1> SUFFICES ASSUME Types, [Next]_vars PROVE Types'
  OBVIOUS
<1>1. CASE AskRead \/ AskWrite \/ UNCHANGED vars
  BY <1>1 DEF AskRead, AskWrite, vars, loopVars, startVars, dequeVars, saveVars, Types,
     LoopTypes, Loop!TypeOK, StartTypes, RingTypes, PlaneTypes
<1> QED
  BY <1>1, CameraThreadTypes, LoopThreadTypes, SenderTypes DEF Next

\* Every variable keeps its type: the counters stay natural, nothing but a
\* request enters the ring, and no frame is sent more planes than it has.
THEOREM TypeCorrect == Spec => []TypeOK
<1>1. Spec => []Types
  BY InitTypes, NextTypes, PTL DEF Spec
<1> QED
  BY <1>1, Invariance, TypesTypeOK, PTL

----------------------------------------------------------------------------
(* Frames are sent in full.                                                *)

\* Every plane visited of a frame that is asked for was sent.
AllSoFar == spc = "planes" /\ sendCurrent => sent = plane - 1

LEMMA AllSoFarStep ==
  ASSUME SendToObc, IInv, AllSoFar, [Next]_vars
  PROVE  AllSoFar'
<1> USE DEF AllSoFar, IInv, CountTypes
<1>1. CASE Others \/ ResetSendCount \/ AskRead \/ AskWrite
  <2>1. UNCHANGED saveVars
    BY <1>1, OthersKeepCounts DEF ResetSendCount, AskRead, AskWrite
  <2> QED
    BY <2>1 DEF saveVars
<1>2. CASE TakeTask \/ MmapFails \/ EndOfPlanes \/ Requeue
  BY <1>2 DEF TakeTask, MmapFails, EndOfPlanes, Requeue
<1>3. CASE TakeRequest
  BY <1>3 DEF TakeRequest, CurrentIsThisFrame
<1>4. CASE SavePlane
  BY <1>4 DEF SavePlane, Sends
<1> QED
  BY <1>1, <1>2, <1>3, <1>4, StepCases

\* If images are sent to the OBC at all, a frame that answers a request, and
\* whose planes could all be mapped, is sent with all its planes: no request
\* that is counted or taken meanwhile changes which frame is sent.
THEOREM AlwaysComplete == SendToObc /\ Spec => []AllPlanesSent
<1>1. SUFFICES ASSUME SendToObc PROVE Spec => []AllPlanesSent
  OBVIOUS
<1>2. Init => AllSoFar
  BY DEF Init, AllSoFar
<1>3. IInv /\ AllSoFar /\ [Next]_vars => AllSoFar'
  BY <1>1, AllSoFarStep
<1>4. IInv /\ Types /\ AllSoFar => AllPlanesSent
  BY PlanesAssumption DEF AllSoFar, AllPlanesSent, Types, PlaneTypes
<1>5. Spec => []Types
  BY InitTypes, NextTypes, PTL DEF Spec
<1> QED
  BY <1>2, <1>3, <1>4, <1>5, Invariance, PTL DEF Spec

----------------------------------------------------------------------------
(* The teardown.                                                           *)

\* No request is anywhere, and nothing will bring one.
Resting ==
  /\ atCamera = <<>> /\ calls = <<>> /\ queue = <<>>
  /\ spc = "idle" /\ lpc = "off" /\ camera # "running"

\* What the camera thread has built, and what it is still waiting for.
Standing ==
  /\ ~started => cpc = "off"
  /\ cpc \in {"off", "begin", "reset", "start"} => Resting
  /\ cpc \in {"reset", "start", "queue", "join"} => allocated /\ camera # "null"
  /\ cpc \in {"free", "release"} => timer = "fired"
  /\ cpc = "ended" => timer = "fired" \/ Resting
  /\ exit \/ lpc = "done" => timer = "fired"

LEMMA InitStanding == Init => Standing
BY DEF Init, Loop!Init, Deque!Init, Standing, Resting

LEMMA StandingStep ==
  ASSUME Types, Standing, [Next]_vars
  PROVE  Standing'
<1> USE DEF Standing
<1>1. CASE StartCameraThread
  BY <1>1 DEF StartCameraThread, Resting, loopVars, dequeVars, saveVars
<1>2. CASE StartThrows \/ SetupFails \/ Setup \/ ResetSendCount \/ StartCamera \/ QueueRequest
  BY <1>2 DEF StartThrows, SetupFails, Setup, ResetSendCount, StartCamera, QueueRequest,
              Goto, Resting, loopVars, dequeVars, saveVars
<1>3. CASE RunLoop
  BY <1>3 DEF RunLoop, Goto, Loop!Timeout
<1>4. CASE StopCamera \/ FreeBuffers \/ ReleaseCamera
  BY <1>4 DEF StopCamera, FreeBuffers, ReleaseCamera, Goto, loopVars
<1>5. CASE RequestComplete \/ LibInterrupt
  <2>1. UNCHANGED <<startVars, timer, exit, lpc>>
    BY <1>5 DEF RequestComplete, LibInterrupt, ringRest, Loop!CallLater, Loop!Interrupt
  <2>2. Resting => Resting'
    BY <1>5 DEF RequestComplete, LibInterrupt, ringRest, Loop!Interrupt, Resting, dequeVars,
                startVars, saveVars
  <2> QED
    BY <2>1, <2>2 DEF startVars
<1>6. CASE StartExec
  <2>1. cpc = "join" /\ exit' = FALSE /\ lpc' = "test" /\ UNCHANGED <<startVars, timer>>
    BY <1>6 DEF StartExec, Loop!StartExec, ringRest
  <2> QED
    BY <2>1 DEF startVars
<1>7. CASE LoopThread
  <2>1. UNCHANGED <<startVars, timer, exit>>
    BY <1>7 DEF LoopThread, ProcessRequest, ExecStep, ringRest, Loop!CallReturns,
                Loop!TestExit, Loop!TakeCall, Loop!EndDispatch, Loop!EnterLoop, Loop!LeaveLoop
  <2>2. ~Resting
    BY <1>7 DEF LoopThread, ProcessRequest, ExecStep, Loop!CallReturns, Loop!TestExit,
                Loop!TakeCall, Loop!EndDispatch, Loop!EnterLoop, Loop!LeaveLoop, Resting
  <2>3. lpc' = "done" => exit
    BY <1>7 DEF LoopThread, ProcessRequest, ExecStep, Loop!CallReturns, Loop!TestExit,
                Loop!TakeCall, Loop!EndDispatch, Loop!EnterLoop, Loop!LeaveLoop
  <2> QED
    BY <2>1, <2>2, <2>3 DEF startVars
<1>8. CASE TimerExpires
  <2>1. timer' = "fired" /\ ~Resting /\ UNCHANGED <<startVars, lpc>>
    BY <1>8 DEF TimerExpires, Loop!TimeoutTriggered, Resting, ringRest
  <2> QED
    BY <2>1 DEF startVars
<1>9. CASE SenderThread \/ UseAfterTeardown
  <2>1. UNCHANGED <<startVars, loopVars>>
    BY <1>9 DEF SenderThread, TakeTask, TakeRequest, SavePlane, MmapFails, EndOfPlanes,
                Requeue, UseAfterTeardown, senderRest
  <2>2. ~Resting
    BY <1>9 DEF SenderThread, TakeTask, TakeRequest, SavePlane, MmapFails, EndOfPlanes,
                Requeue, UseAfterTeardown, Deque!Take, Resting
  <2> QED
    BY <2>1, <2>2 DEF startVars, loopVars
<1>10. CASE AskRead \/ AskWrite \/ UNCHANGED vars
  BY <1>10 DEF AskRead, AskWrite, vars, Resting, loopVars, dequeVars, startVars, saveVars
<1> QED
  BY <1>1, <1>2, <1>3, <1>4, <1>5, <1>6, <1>7, <1>8, <1>9, <1>10 DEF Next, CameraThread

\* As long as the timeout of start has not fired, saveData has the buffers and
\* the camera it uses: the camera thread passes its join only when the loop
\* has ended, the loop ends only when it was told to exit, and nothing but
\* the timeout tells it; a set-up that fails leaves no request to work on.
THEOREM NoEarlyTeardown == Spec => []NoTeardownWhileCapturing
<1>1. Spec => []Types
  BY InitTypes, NextTypes, PTL DEF Spec
<1>2. Types /\ Standing /\ [Next]_vars => Standing'
  BY StandingStep
<1>3. Types /\ Standing => NoTeardownWhileCapturing
  BY DEF Types, StartTypes, Standing, Resting, NoTeardownWhileCapturing
<1> QED
  BY <1>1, <1>2, <1>3, InitStanding, PTL DEF Spec

----------------------------------------------------------------------------
(* Sequences without repetition.                                           *)

LEMMA MembersFinite ==
  ASSUME NEW T, NEW s \in Seq(T)
  PROVE  /\ IsFiniteSet(Members(s)) /\ Len(s) \in Nat
         /\ Cardinality(Members(s)) \in Nat
         /\ Cardinality(Members(s)) <= Len(s)
<1>1. Len(s) \in Nat /\ s \in [1..Len(s) -> Members(s)]
  BY DEF Members
<1>2. s \in Surjection(1..Len(s), Members(s))
  BY <1>1 DEF Surjection, Members
<1>3. IsFiniteSet(1..Len(s)) /\ Cardinality(1..Len(s)) = Len(s)
  BY <1>1, FS_Interval
<1>4. IsFiniteSet(Members(s)) /\ Cardinality(Members(s)) <= Len(s)
  BY <1>2, <1>3, FS_Surjection
<1> QED
  BY <1>1, <1>4, FS_CardinalityType

LEMMA MembersConcat ==
  ASSUME NEW T, NEW s \in Seq(T), NEW t \in Seq(T)
  PROVE  Members(s \o t) = Members(s) \cup Members(t)
<1>1. ASSUME NEW v \in Members(s \o t) PROVE v \in Members(s) \cup Members(t)
  BY DEF Members
<1>2. ASSUME NEW i \in 1..Len(s) PROVE s[i] \in Members(s \o t)
  <2>1. i \in 1..Len(s \o t) /\ (s \o t)[i] = s[i]
    OBVIOUS
  <2> QED
    BY <2>1 DEF Members
<1>3. ASSUME NEW i \in 1..Len(t) PROVE t[i] \in Members(s \o t)
  <2>1. Len(s) + i \in 1..Len(s \o t) /\ (s \o t)[Len(s) + i] = t[i]
    OBVIOUS
  <2> QED
    BY <2>1 DEF Members
<1> QED
  BY <1>1, <1>2, <1>3 DEF Members

Distinct(s) == Len(s) = Cardinality(Members(s))

\* The parts of a sequence without repetition have none.
LEMMA DistinctParts ==
  ASSUME NEW T, NEW s \in Seq(T), NEW t \in Seq(T), Distinct(s \o t)
  PROVE  Distinct(s) /\ Distinct(t)
<1>1. /\ Cardinality(Members(s)) \in Nat /\ Cardinality(Members(s)) <= Len(s)
      /\ Cardinality(Members(t)) \in Nat /\ Cardinality(Members(t)) <= Len(t)
      /\ IsFiniteSet(Members(s)) /\ IsFiniteSet(Members(t))
  BY MembersFinite
<1>2. Cardinality(Members(s) \cup Members(t))
        <= Cardinality(Members(s)) + Cardinality(Members(t))
  <2>1. IsFiniteSet(Members(s) \cap Members(t))
    BY <1>1, FS_Intersection
  <2>2. Cardinality(Members(s) \cap Members(t)) \in Nat
    BY <2>1, FS_CardinalityType
  <2>3. Cardinality(Members(s) \cup Members(t))
          = Cardinality(Members(s)) + Cardinality(Members(t))
            - Cardinality(Members(s) \cap Members(t))
    BY <1>1, FS_Union
  <2> QED
    BY <1>1, <2>2, <2>3
<1>3. Cardinality(Members(s) \cup Members(t)) = Len(s) + Len(t)
  <2>1. Members(s \o t) = Members(s) \cup Members(t)
    BY MembersConcat
  <2>2. Len(s \o t) = Len(s) + Len(t)
    OBVIOUS
  <2> QED
    BY <2>1, <2>2 DEF Distinct
<1> QED
  BY <1>1, <1>2, <1>3 DEF Distinct

\* Nor does a sequence to which something new is appended.
LEMMA DistinctAppend ==
  ASSUME NEW T, NEW s \in Seq(T), NEW v \in T, Distinct(s), v \notin Members(s)
  PROVE  Distinct(Append(s, v)) /\ Members(Append(s, v)) = Members(s) \cup {v}
<1> DEFINE w == <<v>>
<1>1. Append(s, v) = s \o w /\ w \in Seq(T) /\ Members(w) = {v}
  BY DEF Members
<1>2. Members(Append(s, v)) = Members(s) \cup {v}
  <2> HIDE DEF w
  <2>1. Members(s \o w) = Members(s) \cup Members(w)
    BY <1>1, MembersConcat
  <2> QED
    BY <1>1, <2>1
<1>3. Cardinality(Members(s) \cup {v}) = Cardinality(Members(s)) + 1
  BY MembersFinite, FS_AddElement
<1>4. Len(Append(s, v)) = Len(s) + 1
  OBVIOUS
<1> QED
  BY <1>2, <1>3, <1>4 DEF Distinct

\* Turning a sequence keeps its members.
LEMMA Turned ==
  ASSUME NEW T, NEW v \in T, NEW s \in Seq(T)
  PROVE  /\ Members(s \o <<v>>) = Members(<<v>> \o s)
         /\ Len(s \o <<v>>) = Len(<<v>> \o s)
         /\ s \o <<v>> = Append(Tail(<<v>> \o s), Head(<<v>> \o s))
<1> DEFINE w == <<v>>
<1>1. w \in Seq(T)
  OBVIOUS
<1>2. Members(s \o w) = Members(w \o s)
  <2> HIDE DEF w
  <2>1. Members(s \o w) = Members(s) \cup Members(w)
    BY <1>1, MembersConcat
  <2>2. Members(w \o s) = Members(w) \cup Members(s)
    BY <1>1, MembersConcat
  <2> QED
    BY <2>1, <2>2
<1>3. Head(<<v>> \o s) = v /\ Tail(<<v>> \o s) = s
  OBVIOUS
<1> QED
  BY <1>2, <1>3

\* An element that moves from one sequence to the one before it.
LEMMA Moved ==
  ASSUME NEW T, NEW s \in Seq(T), NEW t \in Seq(T), t # <<>>
  PROVE  Append(s, Head(t)) \o Tail(t) = s \o t
<1>1. Head(t) \in T /\ Tail(t) \in Seq(T) /\ <<Head(t)>> \o Tail(t) = t
  BY HeadTailProperties
<1>2. <<Head(t)>> \in Seq(T) /\ Append(s, Head(t)) = s \o <<Head(t)>>
  BY <1>1
<1>3. (s \o <<Head(t)>>) \o Tail(t) = s \o (<<Head(t)>> \o Tail(t))
  BY <1>1, <1>2, ConcatAssociative
<1> QED
  BY <1>1, <1>2, <1>3

----------------------------------------------------------------------------
(* The steps that move a request.                                          *)

LEMMA RequestSequences ==
  \A x, s, t \in Seq(Requests) :
    /\ (x \o s) \o t = x \o (s \o t)
    /\ t # <<>> => (x \o Append(s, Head(t))) \o Tail(t) = (x \o s) \o t
<1> TAKE x, s, t \in Seq(Requests)
<1>1. (x \o s) \o t = x \o (s \o t)
  BY ConcatAssociative
<1>2. ASSUME t # <<>>
      PROVE  (x \o Append(s, Head(t))) \o Tail(t) = (x \o s) \o t
  <2> DEFINE w == Append(s, Head(t))
             u == Tail(t)
  <2>1. w \in Seq(Requests) /\ u \in Seq(Requests)
    BY <1>2, HeadTailProperties, AppendProperties
  <2>5. w \o u = s \o t
    BY <1>2, Moved
  <2> HIDE DEF w, u
  <2>2. (x \o w) \o u = x \o (w \o u)
    BY <2>1, ConcatAssociative
  <2>3. (x \o s) \o t = x \o (s \o t)
    BY ConcatAssociative
  <2>4. (x \o w) \o u = (x \o s) \o t
    BY <2>5, <2>2, <2>3
  <2> QED
    BY <2>4 DEF w, u
<1> QED
  BY <1>1, <1>2

LEMMA OneTypes ==
  ASSUME NEW r \in Requests \cup {NoRequest}
  PROVE  One(r) \in Seq(Requests)
BY EmptySeq DEF One

LEMMA RingType ==
  ASSUME Types
  PROVE  /\ One(held[Sender]) \in Seq(Requests) /\ One(current) \in Seq(Requests)
         /\ queue \in Seq(Requests) /\ calls \in Seq(Requests)
         /\ atCamera \in Seq(Requests)
         /\ Ring \in Seq(Requests)
<1>1. /\ held[Sender] \in Requests \cup {NoRequest}
      /\ current \in Requests \cup {NoRequest}
      /\ queue \in Seq(Requests) /\ calls \in Seq(Requests)
      /\ atCamera \in Seq(Requests)
  BY DEF Types, RingTypes, LoopTypes, Loop!TypeOK
<1>2. One(held[Sender]) \in Seq(Requests) /\ One(current) \in Seq(Requests)
  BY <1>1, OneTypes
<1> HIDE DEF Requests
<1> QED
  BY <1>1, <1>2, ConcatProperties DEF Ring

\* The requests queued, completed and being processed only change hands.
LEMMA ChangesHands ==
  ASSUME Types, RequestComplete \/ LoopThread \/ TakeTask, spc = "idle" => held[Sender] = NoRequest,
         lpc \notin {"call", "last"} => current = NoRequest
  PROVE  Ring' = Ring
<1> HIDE DEF Requests
<1> DEFINE h == One(held[Sender])
           c == One(current)
<1>0. /\ h \in Seq(Requests) /\ c \in Seq(Requests) /\ queue \in Seq(Requests)
      /\ calls \in Seq(Requests) /\ atCamera \in Seq(Requests)
      /\ h \o queue \in Seq(Requests) /\ (h \o queue) \o c \in Seq(Requests)
  BY RingType, ConcatProperties
<1>1. CASE RequestComplete
  <2> DEFINE x == (h \o queue) \o c
  <2>1. /\ atCamera # <<>> /\ calls' = Append(calls, Head(atCamera))
        /\ atCamera' = Tail(atCamera) /\ x' = x
    BY <1>1 DEF RequestComplete, Loop!CallLater, dequeVars
  <2>2. x \in Seq(Requests) /\ calls \in Seq(Requests) /\ atCamera \in Seq(Requests)
    BY <1>0
  <2>3. Ring = (x \o calls) \o atCamera /\ Ring' = (x' \o calls') \o atCamera'
    BY DEF Ring
  <2> HIDE DEF x
  <2>5. atCamera # <<>>
    BY <2>1
  <2>4. (x \o Append(calls, Head(atCamera))) \o Tail(atCamera) = (x \o calls) \o atCamera
    BY <2>2, <2>5, RequestSequences, Zenon
  <2> QED
    BY <2>1, <2>3, <2>4
<1>2. CASE ExecStep /\ ~Loop!TakeCall
  <2>1. UNCHANGED <<held, queue, current, calls, atCamera>>
    BY <1>2 DEF ExecStep, dequeVars, Loop!TestExit, Loop!EndDispatch, Loop!EnterLoop,
                Loop!LeaveLoop
  <2> QED
    BY <2>1 DEF Ring
<1>3. CASE ExecStep /\ Loop!TakeCall
  <2> DEFINE x == h \o queue
  <2>1. /\ calls # <<>> /\ current = NoRequest /\ current' = Head(calls)
        /\ calls' = Tail(calls) /\ x' = x /\ atCamera' = atCamera
    BY <1>3 DEF ExecStep, Loop!TakeCall, dequeVars
  <2>2. x \in Seq(Requests) /\ Head(calls) \in Requests
    BY <1>0, HeadTailProperties, <2>1
  <2>3. c = <<>> /\ c' = <<Head(calls)>>
    BY <2>1, <2>2, BufferAssumption DEF One, Requests, NoRequest
  <2>4. Ring = ((x \o c) \o calls) \o atCamera /\ Ring' = ((x' \o c') \o calls') \o atCamera'
    BY DEF Ring
  <2> HIDE DEF x, c
  <2>5. (x \o <<Head(calls)>>) \o Tail(calls) = x \o calls
    BY <1>0, <2>1, <2>2, Moved, AppendIsConcat
  <2>6. x \o <<>> = x
    BY <2>2, ConcatEmptySeq
  <2> QED
    BY <2>1, <2>3, <2>4, <2>5, <2>6
<1>4. CASE ProcessRequest
  <2>1. /\ current \in Requests /\ current # NoRequest /\ current' = NoRequest
        /\ queue' = Append(queue, current)
        /\ h' = h /\ calls' = calls /\ atCamera' = atCamera
    BY <1>4 DEF ProcessRequest, Loop!CallReturns, Deque!PushBack, Types, LoopTypes, Loop!TypeOK
  <2>2. c = <<current>> /\ c' = <<>>
    BY <2>1 DEF One
  <2>3. Ring = (((h \o queue) \o c) \o calls) \o atCamera
        /\ Ring' = (((h' \o queue') \o c') \o calls') \o atCamera'
    BY DEF Ring
  <2> HIDE DEF h, c
  <2> DEFINE w == <<current>>
  <2>4. w \in Seq(Requests) /\ Append(queue, current) = queue \o w
    BY <1>0, <2>1
  <2> HIDE DEF w
  <2>9. h \in Seq(Requests) /\ queue \in Seq(Requests) /\ w \in Seq(Requests)
    BY <1>0, <2>4
  <2>7. (h \o queue) \o w = h \o (queue \o w)
    BY <2>9, RequestSequences, Zenon
  <2>8. h \o (queue \o w) \in Seq(Requests)
    BY <1>0, <2>4, ConcatProperties
  <2>5. h \o (queue \o w) = (h \o queue) \o w /\ h \o (queue \o w) \in Seq(Requests)
    BY <2>7, <2>8
  <2>6. (h \o Append(queue, current)) \o <<>> = (h \o queue) \o w
    BY <2>4, <2>5, ConcatEmptySeq
  <2> QED
    BY <2>1, <2>2, <2>3, <2>6 DEF w
<1>5. CASE TakeTask
  <2>1. /\ queue # <<>> /\ held[Sender] = NoRequest /\ held'[Sender] = Head(queue)
        /\ queue' = Tail(queue) /\ c' = c /\ calls' = calls /\ atCamera' = atCamera
    BY <1>5 DEF TakeTask, Deque!Take, senderRest, loopVars, Types, RingTypes
  <2>2. Head(queue) \in Requests
    BY <1>0, HeadTailProperties, <2>1
  <2>3. h = <<>> /\ h' = <<Head(queue)>>
    BY <2>1, <2>2, BufferAssumption DEF One, Requests, NoRequest
  <2>4. Ring = (((h \o queue) \o c) \o calls) \o atCamera
        /\ Ring' = (((h' \o queue') \o c') \o calls') \o atCamera'
    BY DEF Ring
  <2> HIDE DEF h, c
  <2>5. <<Head(queue)>> \o Tail(queue) = queue /\ <<>> \o queue = queue
    BY <1>0, <2>1, HeadTailProperties, ConcatEmptySeq
  <2> QED
    BY <2>1, <2>3, <2>4, <2>5
<1> QED
  BY <1>1, <1>2, <1>3, <1>4, <1>5 DEF LoopThread

\* saveData gives its request back to a camera that runs: the ring turns.
\* Any other camera refuses it: the ring is shortened at the front.
LEMMA GivesBack ==
  ASSUME Types, Requeue
  PROVE  \E v \in Requests, r \in Seq(Requests) :
           /\ Ring = <<v>> \o r
           /\ Ring' = IF camera = "running" THEN r \o <<v>> ELSE r
<1> HIDE DEF Requests
<1> DEFINE v == held[Sender]
           b == (queue \o One(current)) \o calls
           r == b \o atCamera
           w == <<v>>
<1>1. /\ v \in Requests /\ v # NoRequest /\ held'[Sender] = NoRequest
      /\ queue' = queue /\ current' = current /\ calls' = calls
      /\ atCamera' = IF camera = "running" THEN Append(atCamera, v) ELSE atCamera
  BY DEF Requeue, Deque!Finish, senderRest, loopVars, Types, RingTypes
<1>2. /\ queue \in Seq(Requests) /\ One(current) \in Seq(Requests)
      /\ calls \in Seq(Requests) /\ atCamera \in Seq(Requests)
  BY RingType
<1>3. b \in Seq(Requests) /\ r \in Seq(Requests) /\ w \in Seq(Requests)
  BY <1>1, <1>2, ConcatProperties
<1>4. Ring = w \o r
  <2>1. Ring = (((w \o queue) \o One(current)) \o calls) \o atCamera
    BY <1>1 DEF Ring, One
  <2> DEFINE c == One(current)
             qc == queue \o c
  <2>2. queue \in Seq(Requests) /\ c \in Seq(Requests) /\ w \in Seq(Requests)
    BY <1>2, <1>3
  <2>3. qc \in Seq(Requests) /\ calls \in Seq(Requests) /\ w \in Seq(Requests)
    BY <1>2, <1>3, ConcatProperties
  <2>4. b \in Seq(Requests) /\ atCamera \in Seq(Requests) /\ w \in Seq(Requests)
    BY <1>2, <1>3
  <2>5. b = qc \o calls
    OBVIOUS
  <2> HIDE DEF w, c, b
  <2>6. (w \o queue) \o c = w \o (queue \o c)
    BY <2>2, RequestSequences, Zenon
  <2> HIDE DEF qc
  <2>7. (w \o qc) \o calls = w \o (qc \o calls)
    BY <2>3, RequestSequences, Zenon
  <2>8. (w \o b) \o atCamera = w \o (b \o atCamera)
    BY <2>4, RequestSequences, Zenon
  <2> QED
    BY <2>1, <2>5, <2>6, <2>7, <2>8 DEF c, qc
<1>5. Ring' = b \o atCamera'
  <2>1. Ring' = (((<<>> \o queue) \o One(current)) \o calls) \o atCamera'
    BY <1>1 DEF Ring, One
  <2>2. <<>> \o queue = queue
    BY <1>2, ConcatEmptySeq
  <2> QED
    BY <2>1, <2>2
<1>6. Ring' = IF camera = "running" THEN r \o w ELSE r
  <2>1. CASE camera = "running"
    <3>1. atCamera' = atCamera \o w
      BY <1>1, <1>2, <2>1, AppendIsConcat
    <3> HIDE DEF w, b
    <3>3. b \in Seq(Requests) /\ atCamera \in Seq(Requests) /\ w \in Seq(Requests)
      BY <1>2, <1>3
    <3>2. (b \o atCamera) \o w = b \o (atCamera \o w)
      BY <3>3, RequestSequences, Zenon
    <3> QED
      BY <1>5, <2>1, <3>1, <3>2
  <2>2. CASE camera # "running"
    BY <1>1, <1>5, <2>2
  <2> QED
    BY <2>1, <2>2
<1> HIDE DEF r
<1> QED
  BY <1>1, <1>3, <1>4, <1>6

\* start queues a request it has not queued yet.
LEMMA QueuesNew ==
  ASSUME Types, QueueRequest
  PROVE  next \in Requests /\ Ring' = Append(Ring, next)
<1> DEFINE x == ((One(held[Sender]) \o queue) \o One(current)) \o calls
           w == <<next>>
<1>1. next \in Requests
  BY DEF QueueRequest, Types, StartTypes, Requests
<1> HIDE DEF Requests
<1>2. x \in Seq(Requests) /\ w \in Seq(Requests) /\ atCamera \in Seq(Requests)
  BY <1>1, RingType, ConcatProperties
<1>3. x' = x /\ atCamera' = atCamera \o w
  BY <1>1, <1>2, AppendIsConcat DEF QueueRequest, loopVars, dequeVars
<1>4. Ring = x \o atCamera /\ Ring' = x' \o atCamera'
  BY DEF Ring
<1>5. Append(Ring, next) = Ring \o w
  BY <1>1, RingType, AppendIsConcat
<1> HIDE DEF x, w
<1>6. (x \o atCamera) \o w = x \o (atCamera \o w)
  BY <1>2, RequestSequences, Zenon
<1> QED
  BY <1>1, <1>3, <1>4, <1>5, <1>6

\* camera->stop() takes the requests the camera had.
LEMMA StopsShort ==
  ASSUME Types, StopCamera
  PROVE  Ring' \in Seq(Requests) /\ Ring = Ring' \o atCamera
<1> HIDE DEF Requests
<1> DEFINE x == ((One(held[Sender]) \o queue) \o One(current)) \o calls
<1>2. x \in Seq(Requests)
  BY RingType, ConcatProperties
<1>3. x' = x /\ atCamera' = <<>>
  BY DEF StopCamera, loopVars, dequeVars
<1>4. Ring = x \o atCamera /\ Ring' = x' \o atCamera'
  BY DEF Ring
<1> HIDE DEF x
<1>5. x \o <<>> = x
  BY <1>2, ConcatEmptySeq
<1> QED
  BY <1>2, <1>3, <1>4, <1>5

LEMMA RingKept ==
  ASSUME UNCHANGED <<held, queue, current, calls, atCamera>>
  PROVE  Ring' = Ring
BY DEF Ring

----------------------------------------------------------------------------
(* The invariant.                                                          *)

\* Who holds a request, and what the ring holds before the camera runs.
Holding ==
  /\ spc = "idle" => held[Sender] = NoRequest
  /\ lpc \notin {"call", "last"} => current = NoRequest
  /\ cpc \in {"off", "begin", "reset", "start"} => next = 1
  /\ cpc = "queue" => camera = "running"

RingInv == Types /\ Standing /\ Holding /\ RequestsConserved

LEMMA InitRingInv == Init => RingInv
<1> SUFFICES ASSUME Init PROVE RingInv
  OBVIOUS
<1>1. Types /\ Standing
  BY InitTypes, InitStanding
<1>2. Holding
  BY DEF Init, Holding, Loop!Init, Deque!Init
<1>3. Ring = <<>>
  BY EmptySeq DEF Init, Ring, One, Loop!Init, Deque!Init
<1>4. Members(Ring) = {} /\ Len(Ring) = 0
  BY <1>3 DEF Members
<1>5. camera # "running"
  BY DEF Init
<1> QED
  BY <1>1, <1>2, <1>4, <1>5, FS_EmptySet DEF RingInv, RequestsConserved

LEMMA HoldingStep ==
  ASSUME Types, Standing, Holding, [Next]_vars
  PROVE  Holding'
<1> USE DEF Holding
<1>1. CASE StartCameraThread
  BY <1>1 DEF StartCameraThread, Standing, loopVars, dequeVars, saveVars
<1>2. CASE CameraThread
  <2>1. UNCHANGED <<held, spc, current, lpc>>
    BY <1>2 DEF CameraThread, StartThrows, SetupFails, Setup, ResetSendCount, StartCamera,
                QueueRequest, RunLoop, StopCamera, FreeBuffers, ReleaseCamera,
                Loop!Timeout, loopVars, dequeVars, saveVars
  <2>2. /\ cpc' \in {"off", "begin", "reset", "start"} => next' = 1
        /\ cpc' = "queue" => camera' = "running"
    BY <1>2 DEF CameraThread, StartThrows, SetupFails, Setup, ResetSendCount, StartCamera,
                QueueRequest, RunLoop, StopCamera, FreeBuffers, ReleaseCamera, Goto
  <2> QED
    BY <2>1, <2>2
<1>3. CASE RequestComplete \/ LibInterrupt \/ StartExec \/ TimerExpires
  BY <1>3 DEF RequestComplete, LibInterrupt, StartExec, TimerExpires, ringRest, dequeVars,
              startVars, saveVars, Loop!CallLater, Loop!Interrupt, Loop!StartExec,
              Loop!TimeoutTriggered
<1>4. CASE LoopThread
  <2>1. UNCHANGED <<held, startVars, saveVars>>
    BY <1>4 DEF LoopThread, ProcessRequest, ExecStep, ringRest, dequeVars, Deque!PushBack
  <2>2. lpc' \notin {"call", "last"} => current' = NoRequest
    BY <1>4 DEF LoopThread, ProcessRequest, ExecStep, Loop!CallReturns, Loop!TestExit,
                Loop!TakeCall, Loop!EndDispatch, Loop!EnterLoop, Loop!LeaveLoop
  <2> QED
    BY <2>1, <2>2 DEF startVars, saveVars
<1>5. CASE SenderThread \/ UseAfterTeardown
  <2>1. UNCHANGED <<startVars, loopVars>>
    BY <1>5 DEF SenderThread, TakeTask, TakeRequest, SavePlane, MmapFails, EndOfPlanes,
                Requeue, UseAfterTeardown, senderRest
  <2>2. spc' = "idle" => held'[Sender] = NoRequest
    BY <1>5 DEF SenderThread, TakeTask, TakeRequest, SavePlane, MmapFails, EndOfPlanes,
                Requeue, UseAfterTeardown, Deque!Finish, dequeVars, saveVars, Types, RingTypes
  <2> QED
    BY <2>1, <2>2 DEF startVars, loopVars
<1>6. CASE AskRead \/ AskWrite \/ UNCHANGED vars
  BY <1>6 DEF AskRead, AskWrite, vars, loopVars, dequeVars, startVars, saveVars
<1> QED
  BY <1>1, <1>2, <1>3, <1>4, <1>5, <1>6 DEF Next

\* What each step does to the ring.
RingMoves ==
  \/ /\ Ring' = Ring
     /\ next' = next
     /\ camera' = "running" => camera = "running" \/ (Ring = <<>> /\ next = 1)
  \/ /\ camera = "running" /\ camera' = "running" /\ next' = next
     /\ \E v \in Requests, r \in Seq(Requests) : Ring = <<v>> \o r /\ Ring' = r \o <<v>>
  \/ /\ camera # "running" /\ camera' # "running"
     /\ \E v \in Requests, r \in Seq(Requests) : Ring = <<v>> \o r /\ Ring' = r
  \/ /\ camera' # "running"
     /\ \E r \in Seq(Requests) : Ring = Ring' \o r /\ Ring' \in Seq(Requests)
  \/ /\ camera = "running" /\ camera' = "running" /\ next <= BufferCount
     /\ next \in Requests /\ next' = next + 1 /\ Ring' = Append(Ring, next)

LEMMA StepMoves ==
  ASSUME Types, Standing, Holding, [Next]_vars
  PROVE  RingMoves
<1> USE DEF RingMoves
<1>1. CASE \/ StartCameraThread \/ StartThrows \/ SetupFails \/ Setup \/ ResetSendCount
           \/ RunLoop \/ FreeBuffers \/ ReleaseCamera
  <2>1. /\ UNCHANGED <<held, queue, current, calls, atCamera, next>>
        /\ camera' = "running" => camera = "running"
    BY <1>1 DEF StartCameraThread, StartThrows, SetupFails, Setup, ResetSendCount, RunLoop,
                FreeBuffers, ReleaseCamera, Loop!Timeout, loopVars, dequeVars
  <2>2. Ring' = Ring
    BY <2>1, RingKept
  <2> QED
    BY <2>1, <2>2
<1>2. CASE StartCamera
  <2>1. UNCHANGED <<held, queue, current, calls, atCamera, next>> /\ cpc = "start"
    BY <1>2 DEF StartCamera, Goto, loopVars, dequeVars
  <2>2. Ring' = Ring
    BY <2>1, RingKept
  <2>3. next = 1 /\ Resting /\ held[Sender] = NoRequest /\ current = NoRequest
    BY <2>1 DEF Holding, Standing, Resting
  <2>4. Ring = <<>>
    BY <2>3, EmptySeq DEF Resting, Ring, One
  <2> QED
    BY <2>1, <2>2, <2>3, <2>4
<1>3. CASE QueueRequest
  BY <1>3, QueuesNew DEF QueueRequest, Holding
<1>4. CASE StopCamera
  <2>1. Ring' \in Seq(Requests) /\ Ring = Ring' \o atCamera
    BY <1>4, StopsShort
  <2>2. camera' # "running"
    BY <1>4 DEF StopCamera
  <2>3. atCamera \in Seq(Requests)
    BY RingType
  <2> QED
    BY <2>1, <2>2, <2>3
<1>5. CASE RequestComplete \/ LoopThread \/ TakeTask
  <2>1. Ring' = Ring
    BY <1>5, ChangesHands DEF Holding
  <2>2. UNCHANGED <<next, camera>>
    BY <1>5 DEF RequestComplete, LoopThread, ProcessRequest, ExecStep, TakeTask, ringRest,
                senderRest, startVars
  <2> QED
    BY <2>1, <2>2
<1>6. CASE Requeue
  <2>1. UNCHANGED <<next, camera>>
    BY <1>6 DEF Requeue, senderRest, startVars
  <2>2. PICK v \in Requests, r \in Seq(Requests) :
          /\ Ring = <<v>> \o r
          /\ Ring' = IF camera = "running" THEN r \o <<v>> ELSE r
    BY <1>6, GivesBack
  <2>3. CASE camera = "running"
    BY <2>1, <2>2, <2>3, Zenon
  <2>4. CASE camera # "running"
    BY <2>1, <2>2, <2>4, Zenon
  <2> QED
    BY <2>3, <2>4
<1>7. CASE \/ LibInterrupt \/ StartExec \/ TimerExpires \/ AskRead \/ AskWrite
           \/ TakeRequest \/ SavePlane \/ MmapFails \/ EndOfPlanes \/ UseAfterTeardown
           \/ UNCHANGED vars
  <2>1. UNCHANGED <<held, queue, current, calls, atCamera, next, camera>>
    BY <1>7 DEF LibInterrupt, StartExec, TimerExpires, AskRead, AskWrite, TakeRequest,
                SavePlane, MmapFails, EndOfPlanes, UseAfterTeardown, vars, ringRest,
                senderRest, loopVars, dequeVars, startVars, Loop!Interrupt, Loop!StartExec,
                Loop!TimeoutTriggered
  <2>2. Ring' = Ring
    BY <2>1, RingKept
  <2> QED
    BY <2>1, <2>2
<1> QED
  BY <1>1, <1>2, <1>3, <1>4, <1>5, <1>6, <1>7 DEF Next, CameraThread, SenderThread

LEMMA ConservedStep ==
  ASSUME Types, RequestsConserved, RingMoves
  PROVE  RequestsConserved'
<1> HIDE DEF Requests
<1> USE DEF RequestsConserved, Distinct
<1>0. Ring \in Seq(Requests) /\ Distinct(Ring)
  BY RingType
<1>1. CASE /\ Ring' = Ring /\ next' = next
           /\ camera' = "running" => camera = "running" \/ (Ring = <<>> /\ next = 1)
  <2>1. Ring = <<>> => Members(Ring) = {}
    BY DEF Members
  <2>4. 1..1 - 1 = {}
    OBVIOUS
  <2>2. Members(Ring)' = Members(Ring)
    BY <1>1 DEF Members
  <2>3. (camera' = "running") => Members(Ring) = 1..next - 1
    BY <1>1, <2>1, <2>4
  <2> QED
    BY <1>1, <2>2, <2>3
<1>2. ASSUME camera = "running", camera' = "running", next' = next,
             NEW v \in Requests, NEW r \in Seq(Requests),
             Ring = <<v>> \o r, Ring' = r \o <<v>>
      PROVE  RequestsConserved'
  <2>1. Members(r \o <<v>>) = Members(<<v>> \o r) /\ Len(r \o <<v>>) = Len(<<v>> \o r)
    BY Turned
  <2>2. Members(Ring)' = Members(r \o <<v>>)
    BY <1>2 DEF Members
  <2>3. Members(Ring)' = Members(Ring) /\ Len(Ring') = Len(Ring)
    BY <1>2, <2>1, <2>2
  <2> QED
    BY <1>2, <2>3
<1>3. ASSUME camera' # "running",
             NEW v \in Requests, NEW r \in Seq(Requests), Ring = <<v>> \o r, Ring' = r
      PROVE  RequestsConserved'
  <2> DEFINE w == <<v>>
  <2>1. w \in Seq(Requests) /\ Distinct(w \o r)
    BY <1>0, <1>3
  <2> HIDE DEF w
  <2>2. Distinct(r)
    BY <2>1, DistinctParts
  <2>3. Members(Ring)' = Members(r)
    BY <1>3 DEF Members
  <2> QED
    BY <1>3, <2>2, <2>3
<1>4. ASSUME camera' # "running",
             NEW r \in Seq(Requests), Ring = Ring' \o r, Ring' \in Seq(Requests)
      PROVE  RequestsConserved'
  <2> DEFINE w == Ring'
  <2>1. w \in Seq(Requests) /\ Distinct(w \o r)
    BY <1>0, <1>4
  <2> HIDE DEF w
  <2>2. Distinct(w)
    BY <2>1, DistinctParts
  <2>3. Members(Ring)' = Members(w)
    BY DEF w, Members
  <2> QED
    BY <1>4, <2>2, <2>3 DEF w
<1>5. CASE /\ camera = "running" /\ camera' = "running" /\ next <= BufferCount
           /\ next \in Requests /\ next' = next + 1 /\ Ring' = Append(Ring, next)
  <2>1. next \in Nat \ {0}
    BY DEF Types, StartTypes
  <2>2. Members(Ring) = 1..next - 1 /\ next \notin Members(Ring)
    BY <1>5, <2>1
  <2> DEFINE x == Ring
             n == next
  <2>3. x \in Seq(Requests) /\ n \in Requests /\ Distinct(x) /\ n \notin Members(x)
    BY <1>0, <1>5, <2>2
  <2> HIDE DEF x, n
  <2>4. Distinct(Append(x, n)) /\ Members(Append(x, n)) = Members(x) \cup {n}
    BY <2>3, DistinctAppend
  <2>5. Members(Ring)' = Members(Append(x, n)) /\ Ring' = Append(x, n)
    BY <1>5 DEF x, n, Members
  <2>6. Members(Ring)' = 1..next' - 1
    BY <1>5, <2>1, <2>2, <2>4, <2>5 DEF x, n
  <2> QED
    BY <1>5, <2>4, <2>5, <2>6
<1> QED
  BY <1>1, <1>2, <1>3, <1>4, <1>5 DEF RingMoves

LEMMA RingInvStep == RingInv /\ [Next]_vars => RingInv'
BY NextTypes, StandingStep, HoldingStep, StepMoves, ConservedStep DEF RingInv

LEMMA RingInvariance == Spec => []RingInv
BY InitRingInv, RingInvStep, PTL DEF Spec

\* With any number of buffers: none of the threads that hand the requests on,
\* nor the one that starts and stops the camera, ever loses a request of a
\* running camera or has it in two places, whatever the order of their steps.
THEOREM NoRequestLost == Spec => []RequestsConserved
<1>1. RingInv => RequestsConserved
  BY DEF RingInv
<1> QED
  BY <1>1, RingInvariance, PTL

\* With any number of buffers: frames are saved and given back in the order
\* they were taken; requestComplete, processRequest, the work queue and
\* saveData never let one overtake another.
THEOREM OnlyTurns == Spec => RingTurns
<1>1. ASSUME RingInv, [Next]_vars,
             camera = "running", camera' = "running", next > BufferCount
      PROVE  Ring' = Ring \/ Ring' = Append(Tail(Ring), Head(Ring))
  <2>1. RingMoves
    BY <1>1, StepMoves DEF RingInv
  <2>2. CASE Ring' = Ring
    BY <2>2
  <2>3. ASSUME NEW v \in Requests, NEW r \in Seq(Requests),
               Ring = <<v>> \o r, Ring' = r \o <<v>>
        PROVE  Ring' = Append(Tail(Ring), Head(Ring))
    <3>1. r \o <<v>> = Append(Tail(<<v>> \o r), Head(<<v>> \o r))
      BY Turned
    <3> QED
      BY <2>3, <3>1
  <2>4. ~(next <= BufferCount)
    BY <1>1, BufferAssumption DEF RingInv, Types, StartTypes
  <2> QED
    BY <1>1, <2>1, <2>2, <2>3, <2>4 DEF RingMoves
<1>2. RingInv /\ [Next]_vars =>
        [camera = "running" /\ camera' = "running" /\ next > BufferCount =>
           Ring' = Ring \/ Ring' = Append(Tail(Ring), Head(Ring))]_vars
  BY <1>1
<1> QED
  BY <1>2, RingInvariance, PTL DEF Spec, RingTurns
=============================================================================
