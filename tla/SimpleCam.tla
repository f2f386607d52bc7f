------------------------------ MODULE SimpleCam ------------------------------
(***************************************************************************)
(* The capture pipeline of src/simple-cam.cpp with a real camera.  A       *)
(* libcamera request travels round a ring: the camera fills it, libcamera's*)
(* thread hands it to the event loop (requestComplete, callLater), the loop*)
(* pushes saveData on the work queue (processRequest), the sending thread  *)
(* runs saveData and queues the request to the camera again.  The listener *)
(* counts image requests in send_count; saveData takes one per frame.  The *)
(* camera thread (start) builds all this, waits for the loop to end, and   *)
(* takes it down while the other threads go on.                            *)
(*                                                                         *)
(* MAVLink is off, mock_mode is false and a camera is found: otherwise     *)
(* start only starts the thread of MockCamera.tla.  RPICam::mutex is left  *)
(* out: saveData runs in one thread and nothing else takes it.             *)
(***************************************************************************)
EXTENDS Naturals, Integers, Sequences, FiniteSets

CONSTANTS
  BufferCount,   \* buffers the allocator hands out, one request each
  Planes,        \* planes of a frame buffer (YUV420: 3)
  SendToObc,     \* the send_to_obc setting
  MaxGapPosts,   \* bound: see EventLoop
  MaxAsks,       \* bound: image requests received
  MaxStarts      \* bound: start commands received, the one of main included

ASSUME BufferAssumption == BufferCount \in Nat \ {0}
ASSUME PlanesAssumption == Planes \in Nat \ {0}
ASSUME BoundAssumption ==
  /\ MaxGapPosts \in Nat
  /\ MaxAsks \in Nat
  /\ MaxStarts \in Nat
ASSUME SendToObcAssumption == SendToObc \in BOOLEAN

NoRequest == 0
Requests == 1..BufferCount
Sender == "sender"       \* the thread of functionQueue::runLoop
Lib == "libcamera"       \* the thread that emits requestCompleted
NoTmp == -1

VARIABLES
  calls, current, lpc, exit, brk, timer, tpc, gap,   \* EventLoop
  queue, held,                                       \* TaskDeque
  started,       \* camera_thread_started
  cpc,           \* where the camera thread is in start
  camera,        \* the shared camera pointer and the state of the camera
  allocated,     \* the frame buffers exist
  next,          \* start: index of the next request to queue
  atCamera,      \* requests queued to the camera, oldest first
  sendCount,     \* send_count
  tmp,           \* listener: send_count as read inside send_count++
  spc,           \* where the sending thread is in saveData
  sendCurrent,   \* send_current
  plane,         \* saveData: index of the plane to map next
  sent,          \* planes of this frame passed to send_image
  crashed,       \* a freed object or a null camera was used
  asked,         \* history: image requests counted
  taken,         \* history: image requests a frame was found for
  starts         \* history: start commands handled

loopVars == <<calls, current, lpc, exit, brk, timer, tpc, gap>>
dequeVars == <<queue, held>>
startVars == <<started, cpc, camera, allocated, next, starts>>
countVars == <<sendCount, tmp, asked>>
saveVars == <<spc, sendCurrent, plane, sent, taken>>
vars == <<loopVars, dequeVars, startVars, countVars, saveVars, atCamera, crashed>>

Loop == INSTANCE EventLoop WITH
  Calls <- Requests, NoCall <- NoRequest, pc <- lpc,
  Posters <- {Lib}, Stoppers <- {}

Deque == INSTANCE TaskDeque WITH
  Consumers <- {Sender}, Tasks <- Requests, NoTask <- NoRequest

Init ==
  /\ Loop!Init
  /\ Deque!Init
  /\ started = FALSE
  /\ cpc = "off"
  /\ camera = "null"
  /\ allocated = FALSE
  /\ next = 1
  /\ atCamera = <<>>
  /\ sendCount = 0
  /\ tmp = NoTmp
  /\ spc = "idle"
  /\ sendCurrent = FALSE
  /\ plane = 1
  /\ sent = 0
  /\ crashed = FALSE
  /\ asked = 0
  /\ taken = 0
  /\ starts = 0

----------------------------------------------------------------------------
(* The camera thread: start_camera_thread and RPICam::start.               *)

Goto(from, to) == cpc = from /\ cpc' = to

\* Called by main and by the 's' command; only the caller that finds
\* camera_thread_started false gets a thread.
StartCameraThread ==
  /\ starts < MaxStarts
  /\ starts' = starts + 1
  /\ started' = TRUE
  /\ cpc' = IF started THEN cpc ELSE "begin"
  /\ UNCHANGED <<loopVars, dequeVars, countVars, saveVars, atCamera, crashed,
                 camera, allocated, next>>

\* start throws a std::exception before it has a camera; the flag is reset.
StartThrows ==
  /\ Goto("begin", "off")
  /\ started' = FALSE
  /\ UNCHANGED <<loopVars, dequeVars, countVars, saveVars, atCamera, crashed,
                 camera, allocated, next, starts>>

\* The camera is acquired, then the buffers cannot be had, or the requests, with
\* the buffers allocated and not freed: start returns and the flag stays set.
SetupFails ==
  /\ Goto("begin", "ended")
  /\ camera' = "acquired"
  /\ allocated' \in BOOLEAN
  /\ UNCHANGED <<loopVars, dequeVars, countVars, saveVars, atCamera, crashed,
                 started, next, starts>>

Setup ==
  /\ Goto("begin", "reset")
  /\ camera' = "acquired"
  /\ allocated' = TRUE
  /\ UNCHANGED <<loopVars, dequeVars, countVars, saveVars, atCamera, crashed,
                 started, next, starts>>

\* send_count = 0, without send_count_mutex, then camera->start().
ResetSendCount ==
  /\ Goto("reset", "start")
  /\ sendCount' = 0
  /\ UNCHANGED <<loopVars, dequeVars, saveVars, atCamera, crashed, tmp, asked,
                 started, camera, allocated, next, starts>>

StartCamera ==
  /\ Goto("start", "queue")
  /\ camera' = "running"
  /\ UNCHANGED <<loopVars, dequeVars, countVars, saveVars, atCamera, crashed,
                 started, allocated, next, starts>>

QueueRequest ==
  /\ cpc = "queue"
  /\ next <= BufferCount
  /\ atCamera' = Append(atCamera, next)
  /\ next' = next + 1
  /\ UNCHANGED <<loopVars, dequeVars, countVars, saveVars, crashed,
                 cpc, started, camera, allocated, starts>>

\* loop.timeout, then a thread for loop.exec and a join on it.
RunLoop ==
  /\ next > BufferCount
  /\ Goto("queue", "join")
  /\ Loop!Timeout
  /\ UNCHANGED <<dequeVars, countVars, saveVars, atCamera, crashed,
                 started, camera, allocated, next, starts>>

\* Mutant: start does not join the thread of loop.exec.
StopCamera_NoJoin ==
  /\ Goto("join", "free")
  /\ tpc[Lib] = "idle"
  /\ camera' = "stopped"
  /\ atCamera' = <<>>
  /\ UNCHANGED <<loopVars, dequeVars, countVars, saveVars, crashed,
                 started, allocated, next, starts>>

\* camera->stop(): the queued requests are cancelled, which requestComplete
\* ignores.  It waits for a slot that libcamera's thread is executing.
StopCamera ==
  /\ Goto("join", "free")
  /\ lpc = "done"
  /\ tpc[Lib] = "idle"
  /\ camera' = "stopped"
  /\ atCamera' = <<>>
  /\ UNCHANGED <<loopVars, dequeVars, countVars, saveVars, crashed,
                 started, allocated, next, starts>>

FreeBuffers ==
  /\ Goto("free", "release")
  /\ allocated' = FALSE
  /\ UNCHANGED <<loopVars, dequeVars, countVars, saveVars, atCamera, crashed,
                 started, camera, next, starts>>

\* camera->release(), camera.reset(), cm->stop().
ReleaseCamera ==
  /\ Goto("release", "ended")
  /\ camera' = "null"
  /\ UNCHANGED <<loopVars, dequeVars, countVars, saveVars, atCamera, crashed,
                 started, allocated, next, starts>>

CameraThread ==
  \/ StartThrows \/ SetupFails \/ Setup \/ ResetSendCount \/ StartCamera
  \/ QueueRequest \/ RunLoop \/ StopCamera \/ FreeBuffers \/ ReleaseCamera

----------------------------------------------------------------------------
(* libcamera's thread and the event loop.                                  *)

ringRest == <<startVars, countVars, saveVars, crashed>>

\* requestComplete: the camera has filled its oldest request.
RequestComplete ==
  /\ camera = "running"
  /\ atCamera # <<>>
  /\ Loop!CallLater(Lib, Head(atCamera))
  /\ atCamera' = Tail(atCamera)
  /\ UNCHANGED <<dequeVars, ringRest>>

LibInterrupt ==
  /\ Loop!Interrupt(Lib)
  /\ UNCHANGED <<dequeVars, atCamera, ringRest>>

\* The thread runs exec once start has reached its join.
StartExec ==
  /\ cpc = "join"
  /\ Loop!StartExec
  /\ UNCHANGED <<dequeVars, atCamera, ringRest>>

\* Mutant: processRequest pushes at the front, as the MAVLink reader does.
ProcessRequest_Front ==
  /\ Loop!CallReturns
  /\ Deque!PushFront(current)
  /\ UNCHANGED <<atCamera, ringRest>>

\* The call the loop dispatches.
ProcessRequest ==
  /\ Loop!CallReturns
  /\ Deque!PushBack(current)
  /\ UNCHANGED <<atCamera, ringRest>>

ExecStep ==
  /\ \/ Loop!TestExit \/ Loop!TakeCall \/ Loop!EndDispatch
     \/ Loop!EnterLoop \/ Loop!LeaveLoop
  /\ UNCHANGED <<dequeVars, atCamera, ringRest>>

LoopThread == ProcessRequest \/ ExecStep

TimerExpires ==
  /\ Loop!TimeoutTriggered
  /\ UNCHANGED <<dequeVars, atCamera, ringRest>>

----------------------------------------------------------------------------
(* The listener: the 'I' command.  send_count++ under send_count_mutex is  *)
(* a read and a write; ResetSendCount can come between them.               *)

AskRead ==
  /\ tmp = NoTmp
  /\ asked < MaxAsks
  /\ tmp' = sendCount
  /\ UNCHANGED <<loopVars, dequeVars, startVars, saveVars, atCamera, crashed,
                 sendCount, asked>>

AskWrite ==
  /\ tmp # NoTmp
  /\ sendCount' = tmp + 1
  /\ asked' = asked + 1
  /\ tmp' = NoTmp
  /\ UNCHANGED <<loopVars, dequeVars, startVars, saveVars, atCamera, crashed>>

----------------------------------------------------------------------------
(* The sending thread: saveData.                                           *)

senderRest == <<loopVars, startVars, crashed>>

TakeTask ==
  /\ spc = "idle"
  /\ Deque!Take(Sender)
  /\ spc' = "count"
  /\ plane' = 1
  /\ sent' = 0
  /\ UNCHANGED <<senderRest, countVars, atCamera, sendCurrent, taken>>

\* Mutant: send_count_mutex is not taken.
TakeRequest_Unlocked ==
  /\ spc = "count"
  /\ spc' = "planes"
  /\ IF sendCount >= 1
     THEN /\ sendCurrent' = TRUE
          /\ sendCount' = sendCount - 1
          /\ taken' = taken + 1
     ELSE UNCHANGED <<sendCurrent, sendCount, taken>>
  /\ UNCHANGED <<senderRest, dequeVars, atCamera, tmp, asked, plane, sent>>

\* Mutant: a frame is sent only when more than one request waits.
TakeRequest_MoreThanOne ==
  /\ spc = "count"
  /\ tmp = NoTmp
  /\ spc' = "planes"
  /\ IF sendCount > 1
     THEN /\ sendCurrent' = TRUE
          /\ sendCount' = sendCount - 1
          /\ taken' = taken + 1
     ELSE UNCHANGED <<sendCurrent, sendCount, taken>>
  /\ UNCHANGED <<senderRest, dequeVars, atCamera, tmp, asked, plane, sent>>

\* Under send_count_mutex: does this frame answer an image request?
TakeRequest ==
  /\ spc = "count"
  /\ tmp = NoTmp
  /\ spc' = "planes"
  /\ IF sendCount >= 1
     THEN /\ sendCurrent' = TRUE
          /\ sendCount' = sendCount - 1
          /\ taken' = taken + 1
     ELSE UNCHANGED <<sendCurrent, sendCount, taken>>
  /\ UNCHANGED <<senderRest, dequeVars, atCamera, tmp, asked, plane, sent>>

\* Mutant: only plane 0 looks at send_current.
Sends_FirstPlane == SendToObc /\ sendCurrent /\ plane = 1

Sends == SendToObc /\ sendCurrent

\* Mutant: the loop over the planes goes one too far.
SavePlane_OneMore ==
  /\ spc = "planes"
  /\ plane <= Planes + 1
  /\ plane' = plane + 1
  /\ sent' = IF Sends THEN sent + 1 ELSE sent
  /\ UNCHANGED <<senderRest, dequeVars, countVars, atCamera, spc, sendCurrent, taken>>

\* One plane is mapped, saved, and sent if it is asked for.
SavePlane ==
  /\ spc = "planes"
  /\ plane <= Planes
  /\ plane' = plane + 1
  /\ sent' = IF Sends THEN sent + 1 ELSE sent
  /\ UNCHANGED <<senderRest, dequeVars, countVars, atCamera, spc, sendCurrent, taken>>

\* Mutant: saveData returns when mmap fails.
MmapFails_Return ==
  /\ spc = "planes"
  /\ plane <= Planes
  /\ spc' = "idle"
  /\ sendCurrent' = FALSE
  /\ Deque!Finish(Sender)
  /\ UNCHANGED <<senderRest, countVars, atCamera, plane, sent, taken>>

\* mmap fails: the rest of the planes is skipped.
MmapFails ==
  /\ spc = "planes"
  /\ plane <= Planes
  /\ spc' = "requeue"
  /\ sendCurrent' = FALSE
  /\ UNCHANGED <<senderRest, dequeVars, countVars, atCamera, plane, sent, taken>>

\* Mutant: send_current is not cleared after the frame.
EndOfPlanes_NoReset ==
  /\ spc = "planes"
  /\ plane > Planes
  /\ spc' = "requeue"
  /\ UNCHANGED <<senderRest, dequeVars, countVars, atCamera, sendCurrent, plane, sent, taken>>

EndOfPlanes ==
  /\ spc = "planes"
  /\ plane > Planes
  /\ spc' = "requeue"
  /\ sendCurrent' = FALSE
  /\ UNCHANGED <<senderRest, dequeVars, countVars, atCamera, plane, sent, taken>>

\* reuse and camera->queueRequest: a camera that is not running refuses.
Requeue ==
  /\ spc = "requeue"
  /\ camera # "null"
  /\ atCamera' = IF camera = "running" THEN Append(atCamera, held[Sender])
                 ELSE atCamera
  /\ Deque!Finish(Sender)
  /\ spc' = "idle"
  /\ UNCHANGED <<senderRest, countVars, sendCurrent, plane, sent, taken>>

\* Planes of a freed buffer, or a request queued to a null camera.
UseAfterTeardown ==
  /\ \/ spc = "planes" /\ ~allocated
     \/ spc = "requeue" /\ camera = "null"
  /\ crashed' = TRUE
  /\ UNCHANGED <<loopVars, dequeVars, startVars, countVars, saveVars, atCamera>>

SenderThread ==
  TakeTask \/ TakeRequest \/ SavePlane \/ MmapFails \/ EndOfPlanes \/ Requeue

----------------------------------------------------------------------------

Next ==
  /\ ~crashed
  /\ \/ StartCameraThread \/ CameraThread
     \/ RequestComplete \/ LibInterrupt
     \/ StartExec \/ LoopThread \/ TimerExpires
     \/ AskRead \/ AskWrite
     \/ SenderThread \/ UseAfterTeardown

Spec == Init /\ [][Next]_vars

\* Every thread that can run runs, and a running camera goes on filling the
\* requests it has.  A listener that holds send_count_mutex releases it, but
\* no command need ever arrive; mmap may fail.
Fairness ==
  /\ WF_vars(~crashed /\ CameraThread)
  /\ WF_vars(~crashed /\ RequestComplete)
  /\ WF_vars(~crashed /\ LibInterrupt)
  /\ WF_vars(~crashed /\ StartExec)
  /\ WF_vars(~crashed /\ LoopThread)
  /\ WF_vars(~crashed /\ SenderThread)
  /\ WF_vars(~crashed /\ AskWrite)

FairSpec == Spec /\ Fairness

----------------------------------------------------------------------------
(* Properties.                                                             *)

TypeOK ==
  /\ Loop!TypeOK
  /\ queue \in Seq(Requests)
  /\ held \in [{Sender} -> Requests \cup {NoRequest}]
  /\ started \in BOOLEAN
  /\ cpc \in {"off", "begin", "reset", "start", "queue", "join", "free",
              "release", "ended"}
  /\ camera \in {"null", "acquired", "running", "stopped"}
  /\ allocated \in BOOLEAN
  /\ next \in 1..BufferCount + 1
  /\ atCamera \in Seq(Requests)
  /\ sendCount \in Nat
  /\ tmp \in Nat \cup {NoTmp}
  /\ spc \in {"idle", "count", "planes", "requeue"}
  /\ sendCurrent \in BOOLEAN
  /\ plane \in 1..Planes + 1
  /\ sent \in 0..Planes
  /\ crashed \in BOOLEAN
  /\ asked \in Nat /\ taken \in Nat /\ starts \in Nat

\* The requests from the one saveData works on back to the one the camera was
\* given last.
One(r) == IF r = NoRequest THEN <<>> ELSE <<r>>
Ring == One(held[Sender]) \o queue \o One(current) \o calls \o atCamera

Members(s) == {s[i] : i \in 1..Len(s)}

\* No step of the five threads involved loses a request while the camera
\* runs, and none is ever in two places: a buffer is never filled and read
\* at the same time.
RequestsConserved ==
  /\ Len(Ring) = Cardinality(Members(Ring))
  /\ camera = "running" => Members(Ring) = 1..next - 1

\* Frames are saved and sent in the order they were taken: once start has
\* queued every request the ring only turns, the oldest request going back
\* to the camera.
RingTurns ==
  [][camera = "running" /\ camera' = "running" /\ next > BufferCount =>
       \/ Ring' = Ring
       \/ Ring' = Append(Tail(Ring), Head(Ring))]_vars

\* The requests still counted are ones no frame was found for: the increment
\* of the listener, the unlocked reset of start and the decrement of saveData
\* never add one.
NoUnaskedImage == taken + sendCount <= asked

\* The OBC is sent the planes of a frame only if the frame answers a request
\* of its own, and no plane twice.
Service == INSTANCE ImageService WITH
  stage <- IF spc = "planes" /\ sendCurrent THEN sent ELSE -1
ServiceSpec == Service!Spec

\* A frame that answers a request and all planes of which could be mapped is
\* sent in full.
AllPlanesSent ==
  spc = "planes" /\ plane > Planes /\ sendCurrent => sent = Planes

\* Until the timeout of start fires, saveData finds its buffers allocated and
\* its camera in place, whatever the camera thread does.
NoTeardownWhileCapturing ==
  timer # "fired" =>
    /\ spc = "planes" => allocated
    /\ spc = "requeue" => camera # "null"

\* A counted request leaves the count only when a frame takes it.
NoRequestForgotten ==
  [][sendCount' < sendCount => taken' = taken + 1]_vars

\* saveData can always queue its request to the camera again.
RequeueFindsCamera == spc = "requeue" => camera # "null"

\* The event loop never sleeps while the camera has nothing left to fill and
\* every request waits in calls_: nothing but the timeout would wake it.
Stalled ==
  /\ camera = "running" /\ lpc = "wait" /\ ~brk /\ tpc[Lib] = "idle"
  /\ Len(calls) = BufferCount
NeverStalled == ~Stalled

\* After a start command the camera thread runs.
StartCommandStarts == [][starts' # starts => cpc' # "ended"]_vars

Capturing == cpc \in {"start", "queue", "join"} /\ timer # "fired"
Completed(r) == r \in Members(Ring) \ Members(atCamera)

\* Each request the camera completes is given back to it, whether or not it
\* was sent and whether or not its planes could be mapped, until the timeout
\* fires.  Fewer requests may fall into the gap of the event loop than there
\* are: the others wake it.
EveryFrameReturns ==
  \A r \in Requests :
    (Capturing /\ Completed(r)) ~> (r \in Members(atCamera) \/ ~Capturing)

\* Each image request counted while the camera captures is taken by a frame.
EveryAskTaken == (Capturing /\ sendCount > 0) ~> (sendCount = 0 \/ ~Capturing)

\* The timeout ends the capture and gives the camera back, unless a saveData
\* still in the queue uses it after that.
TimeoutEndsCapture == (timer = "fired") ~> (cpc = "ended" \/ crashed)
=============================================================================
