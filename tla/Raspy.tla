-------------------------------- MODULE Raspy --------------------------------
(***************************************************************************)
(* The program raspy (src/raspy.cpp): main loads the configuration, starts *)
(* the camera, then, if MAVLink is enabled, opens the port and waits for   *)
(* the autopilot, and only then starts the sending loop and listens.  The  *)
(* serial port (SerialPort), the connection (Mavlink) and the work queue   *)
(* (TaskDeque) are composed with the frames of the camera: each frame makes*)
(* saveData ask the autopilot for attitude and position, the answers come  *)
(* back as tasks in front of the frames.  The end of the capture is left   *)
(* to SimpleCam.tla, the UDP side to ImageExchange.tla.                    *)
(***************************************************************************)
EXTENDS Integers, Sequences, FiniteSets

CONSTANTS
  Frames,     \* requests of the camera
  Devices,    \* <<sysid, compid>> of what is on the serial line
  MsgBytes,   \* bytes of a MAVLink message
  Absent,     \* a key or section the configuration file does not have
  BadType,    \* a value of the wrong type
  CallStop,   \* whether somebody calls Mavlink::stop
  MaxLine,    \* bound: messages on their way from the autopilot
  MaxOut,     \* bound: commands on their way to it
  MaxQueue    \* bound: tasks queued when a device sends telemetry unasked

ASSUME DeviceAssumption == Devices \subseteq (1..255) \X (1..255) /\ Devices # {}
ASSUME BytesAssumption == MsgBytes \in Nat \ {0}
ASSUME BoundAssumption ==
  /\ CallStop \in BOOLEAN
  /\ MaxLine \in Nat \ {0} /\ MaxOut \in Nat \ {0}
  /\ MaxQueue \in Nat

Reader == "reader"
Sender == "sender"
NoThread == "none"
NoTask == "no task"
Telemetry == "telemetry"
\* A frame is not mistaken for a message, nor for no task.
ASSUME FrameAssumption == NoTask \notin Frames /\ Telemetry \notin Frames
Consumers == {Sender}
Tasks == Frames \cup {Telemetry}

VARIABLES
  pc,        \* where main is
  config,    \* the settings that load_configuration leaves
  camera,    \* the camera thread: "off", "starting", "running"
  filling,   \* the frames the camera has
  spc,       \* where the sending thread is
  queue, held,                                          \* TaskDeque
  opened, lock, line, parsed, out,                      \* SerialPort
  handshake, rpc, message, current, systemId,
  autopilotId, timeToExit, reading                      \* Mavlink

Queue == INSTANCE TaskDeque
Port == INSTANCE SerialPort
Link == INSTANCE Mavlink

queueVars == <<queue, held>>
portVars == <<opened, lock, line, parsed, out>>
linkVars == <<handshake, rpc, message, current, systemId, autopilotId,
              timeToExit, reading>>
mainVars == <<pc, config>>
cameraVars == <<camera, filling>>
vars == <<mainVars, cameraVars, spc, queueVars, portVars, linkVars>>

----------------------------------------------------------------------------
(* load_configuration.                                                     *)

Serial0 == "/dev/serial0"
Defaults == [uart |-> Serial0, mavlink |-> 0, toObc |-> 0, mock |-> FALSE]

Optional(values) == values \cup {Absent, BadType}
Networks ==
  [uart : Optional({Serial0}), mavlink : Optional({0, 1}), toObc : Optional({0, 1})]
Cameras == [mock : Optional(BOOLEAN)]

Mistyped(section) == section # Absent /\ \E key \in DOMAIN section : section[key] = BadType

\* value(): the fallback is not always the default.
Value(v, fallback) == IF v = Absent THEN fallback ELSE v

ReadNetwork(net) ==
  IF net = Absent
  THEN Defaults
  ELSE [Defaults EXCEPT !.uart = Value(net.uart, "dev/serial0"),
                        !.mavlink = Value(net.mavlink, 0),
                        !.toObc = Value(net.toObc, 0)]

Settings(net, cam) ==
  IF cam = Absent
  THEN ReadNetwork(net)
  ELSE [ReadNetwork(net) EXCEPT !.mock = Value(cam.mock, FALSE)]

Goto(from, to) == pc = from /\ pc' = to

\* No file, or one that is not JSON: the defaults stay.
NoConfiguration ==
  /\ Goto("load", "camera")
  /\ UNCHANGED <<config, cameraVars, spc, queueVars, portVars, linkVars>>

\* A type_error is not caught, and ends the program.
LoadConfiguration ==
  /\ pc = "load"
  /\ \E net \in Networks \cup {Absent}, cam \in Cameras \cup {Absent} :
       IF Mistyped(net) \/ Mistyped(cam)
       THEN pc' = "aborted" /\ UNCHANGED config
       ELSE pc' = "camera" /\ config' = Settings(net, cam)
  /\ UNCHANGED <<cameraVars, spc, queueVars, portVars, linkVars>>

----------------------------------------------------------------------------
(* main, after the configuration.                                          *)

Init ==
  /\ pc = "load"
  /\ config = Defaults
  /\ camera = "off"
  /\ filling = {}
  /\ spc = "off"
  /\ Queue!Init
  /\ Port!Init
  /\ Link!Init

Mavlinked == config.mavlink = 1

\* Mutant: the sending loop is started with the camera.
StartCameraThread_AndSender ==
  /\ Goto("camera", IF Mavlinked THEN "open" ELSE "queue")
  /\ camera' = "starting"
  /\ spc' = "idle"
  /\ UNCHANGED <<config, filling, queueVars, portVars, linkVars>>

StartCameraThread ==
  /\ Goto("camera", IF Mavlinked THEN "open" ELSE "queue")
  /\ camera' = "starting"
  /\ UNCHANGED <<config, filling, spc, queueVars, portVars, linkVars>>

\* The fallback of a missing uart_name is relative to the working directory,
\* where no port is.
OpenPort ==
  /\ config.uart = Serial0
  /\ Goto("open", "connect")
  /\ Port!Start
  /\ UNCHANGED <<config, cameraVars, spc, queueVars, linkVars>>

\* The port cannot be opened or set up: what start throws is not caught.
OpenFails ==
  /\ Goto("open", "aborted")
  /\ UNCHANGED <<config, cameraVars, spc, queueVars, portVars, linkVars>>

\* Mavlink::start, as far as the start of the read thread.
BeginConnect ==
  /\ Goto("connect", "connecting")
  /\ opened
  /\ Link!StartReadThread
  /\ UNCHANGED <<config, cameraVars, spc, queueVars, portVars>>

Connect ==
  /\ pc = "connecting"
  /\ Link!Start
  /\ pc' = IF handshake' = "returned" THEN "queue" ELSE "connecting"
  /\ UNCHANGED <<config, cameraVars, spc, queueVars, portVars>>

StartSendingLoop ==
  /\ Goto("queue", "listen")
  /\ spc' = "idle"
  /\ UNCHANGED <<config, cameraVars, queueVars, portVars, linkVars>>

Main ==
  \/ NoConfiguration \/ LoadConfiguration \/ StartCameraThread
  \/ OpenPort \/ OpenFails \/ BeginConnect \/ Connect \/ StartSendingLoop

Alive == pc # "aborted"

CallMavlinkStop ==
  /\ Alive /\ CallStop /\ ~timeToExit /\ handshake # "off"
  /\ Link!Stop
  /\ UNCHANGED <<mainVars, cameraVars, spc, queueVars, portVars>>

----------------------------------------------------------------------------
(* The camera: start, and the frames it completes.                         *)

\* In mock mode there are no frames.
StartCamera ==
  /\ Alive
  /\ camera = "starting" /\ ~config.mock
  /\ camera' = "running"
  /\ filling' = Frames
  /\ UNCHANGED <<mainVars, spc, queueVars, portVars, linkVars>>

CompleteFrame(f) ==
  /\ Alive
  /\ f \in filling
  /\ filling' = filling \ {f}
  /\ Queue!PushBack(f)
  /\ UNCHANGED <<mainVars, camera, spc, portVars, linkVars>>

----------------------------------------------------------------------------
(* The sending thread.                                                     *)

TakeTask ==
  /\ Alive
  /\ spc = "idle"
  /\ Queue!Take(Sender)
  /\ spc' = IF held'[Sender] = Telemetry THEN "telemetry"
            ELSE IF Mavlinked THEN "attitude" ELSE "requeue"
  /\ UNCHANGED <<mainVars, cameraVars, portVars, linkVars>>

\* saveData calls write_message, which waits for the port.
Asking == spc \in {"attitude", "gps"}

LockPort ==
  /\ Alive
  /\ Asking
  /\ Port!Lock(Sender)
  /\ UNCHANGED <<mainVars, cameraVars, spc, queueVars, linkVars>>

WriteCommand ==
  /\ Alive
  /\ Asking
  /\ Len(out) < MaxOut
  /\ Port!Write(Sender, Link!Command(spc))
  /\ spc' = IF spc = "attitude" THEN "gps" ELSE "requeue"
  /\ UNCHANGED <<mainVars, cameraVars, queueVars, linkVars>>

\* The planes are sent, and the frame is queued to the camera again.
Requeue ==
  /\ Alive
  /\ spc = "requeue"
  /\ filling' = filling \cup {held[Sender]}
  /\ Queue!Finish(Sender)
  /\ spc' = "idle"
  /\ UNCHANGED <<mainVars, camera, portVars, linkVars>>

\* send_image of a telemetry message.
SendTelemetry ==
  /\ Alive
  /\ spc = "telemetry"
  /\ Queue!Finish(Sender)
  /\ spc' = "idle"
  /\ UNCHANGED <<mainVars, cameraVars, portVars, linkVars>>

SenderThread == TakeTask \/ WriteCommand \/ Requeue \/ SendTelemetry

----------------------------------------------------------------------------
(* The read thread and the port.                                           *)

ReaderStep ==
  /\ Alive
  /\ Link!BeginReading \/ Link!TestExit \/ Link!PublishSysid \/ Link!PublishCompid
  /\ UNCHANGED <<mainVars, cameraVars, spc, queueVars, portVars>>

ReaderLocks ==
  /\ Alive
  /\ Link!BeginRead
  /\ Port!Lock(Reader)
  /\ UNCHANGED <<mainVars, cameraVars, spc, queueVars>>

\* read() blocks, with the lock held, until there is a byte.
Read ==
  /\ Alive
  /\ \/ Port!ReadByte(Reader) /\ Link!ReadNothing
     \/ Port!ReadLastByte(Reader) /\ Link!ReadMessage(Head(line))
  /\ UNCHANGED <<mainVars, cameraVars, spc, queueVars>>

ReadFails ==
  /\ Alive
  /\ Port!ReadFails(Reader)
  /\ Link!ReadNothing
  /\ UNCHANGED <<mainVars, cameraVars, spc, queueVars>>

\* Mutant: no break after the case of a position: it is processed twice.
Dispatch_FallsThrough ==
  /\ Alive
  /\ Link!Dispatch
  /\ IF message.kind = "gps" /\ config.toObc = 1
     THEN queue' = <<Telemetry, Telemetry>> \o queue /\ UNCHANGED held
     ELSE IF message.kind = "attitude" /\ config.toObc = 1
     THEN Queue!PushFront(Telemetry)
     ELSE UNCHANGED queueVars
  /\ UNCHANGED <<mainVars, cameraVars, spc, portVars>>

\* process_mavlink_message: telemetry goes in front of everything queued.
Dispatch ==
  /\ Alive
  /\ Link!Dispatch
  /\ IF message.kind \in Link!Telemetry /\ config.toObc = 1
     THEN Queue!PushFront(Telemetry)
     ELSE UNCHANGED queueVars
  /\ UNCHANGED <<mainVars, cameraVars, spc, portVars>>

ReaderThread == ReaderStep \/ ReaderLocks \/ Read \/ Dispatch

----------------------------------------------------------------------------
(* The other end of the line.                                              *)

Say(d, kind) == line' = Append(line, [sys |-> d[1], comp |-> d[2], kind |-> kind])

Heartbeat(d) ==
  /\ Alive
  /\ opened /\ line = <<>>
  /\ Say(d, "heartbeat")
  /\ UNCHANGED <<mainVars, cameraVars, spc, queueVars, opened, lock,
                 parsed, out, linkVars>>

\* Component 0 stands for every component of a system.
Addressed(command, d) ==
  command.sys = d[1] /\ command.comp \in {d[2], 0}

Answer(d) ==
  /\ Alive
  /\ out # <<>> /\ Addressed(Head(out), d)
  /\ Len(line) < MaxLine
  /\ Say(d, Head(out).kind)
  /\ out' = Tail(out)
  /\ UNCHANGED <<mainVars, cameraVars, spc, queueVars, opened, lock,
                 parsed, linkVars>>

\* Telemetry that nobody asked for, an autopilot's stream of it or the answer to
\* another station: the read thread takes it like an answer.
Volunteer(d) ==
  /\ Alive
  /\ opened
  /\ Len(line) < MaxLine /\ Len(queue) < MaxQueue
  /\ \E kind \in Link!Telemetry : Say(d, kind)
  /\ UNCHANGED <<mainVars, cameraVars, spc, queueVars, opened, lock,
                 parsed, out, linkVars>>

\* Lost on the line, addressed to nobody, or not answered.
DropCommand ==
  /\ Alive
  /\ out # <<>>
  /\ out' = Tail(out)
  /\ UNCHANGED <<mainVars, cameraVars, spc, queueVars, opened, lock,
                 line, parsed, linkVars>>

----------------------------------------------------------------------------

Next ==
  \/ Main \/ CallMavlinkStop
  \/ StartCamera \/ \E f \in Frames : CompleteFrame(f)
  \/ LockPort \/ SenderThread
  \/ ReaderThread \/ ReadFails
  \/ \E d \in Devices : Heartbeat(d) \/ Answer(d) \/ Volunteer(d)
  \/ DropCommand

Spec == Init /\ [][Next]_vars

\* The threads run, the devices send heartbeats and take what they are sent,
\* reading does not fail for ever.  Nothing is assumed of the camera, nor of
\* who gets the port's lock, nor that telemetry comes unasked.
Fairness ==
  /\ WF_vars(Main)
  /\ WF_vars(SenderThread)
  /\ WF_vars(ReaderThread) /\ SF_vars(Read)
  /\ WF_vars(\E d \in Devices : Heartbeat(d))
  /\ WF_vars(DropCommand \/ \E d \in Devices : Answer(d))

FairSpec == Spec /\ Fairness

----------------------------------------------------------------------------
(* Properties.                                                             *)

Origins == {[sys |-> d[1], comp |-> d[2]] : d \in Devices}
Kinds == {"heartbeat"} \cup Link!Telemetry
Messages == {[sys |-> d[1], comp |-> d[2], kind |-> k] : d \in Devices, k \in Kinds}

TypeOK ==
  /\ pc \in {"load", "camera", "open", "connect", "connecting", "queue", "listen",
             "aborted"}
  /\ config.uart \in {Serial0, "dev/serial0"}
  /\ config.mavlink \in {0, 1} /\ config.toObc \in {0, 1} /\ config.mock \in BOOLEAN
  /\ camera \in {"off", "starting", "running"}
  /\ filling \subseteq Frames
  /\ spc \in {"off", "idle", "attitude", "gps", "requeue", "telemetry"}
  /\ queue \in Seq(Tasks)
  /\ held \in [Consumers -> Tasks \cup {NoTask}]
  /\ spc = "requeue" \/ Asking => held[Sender] \in Frames
  /\ opened \in BOOLEAN
  /\ lock \in {NoThread, Reader, Sender}
  /\ line \in Seq(Messages)
  /\ parsed \in 0..MsgBytes - 1
  /\ out \in Seq([sys : 0..255, comp : 0..255, kind : Link!Telemetry])
  /\ handshake \in {"off", "wait", "check", "system", "component", "returned"}
  /\ rpc \in {"off", "begin", "test", "lock", "read", "sysid", "compid", "dispatch",
              "ended"}
  /\ message \in Messages \cup {Link!NoMessage}
  /\ current \in [sys : 0..255, comp : 0..255]
  /\ systemId \in 0..255 /\ autopilotId \in 0..255
  /\ timeToExit \in BOOLEAN /\ reading \in BOOLEAN

\* saveData asks for telemetry without looking whether there is a connection;
\* what it asks goes to a device that exists, because the queue it runs from
\* is started after the handshake (unless that was given up).
CommandsAddressed ==
  \A k \in DOMAIN out :
    \/ timeToExit /\ systemId = 0
    \/ \E d \in Devices : Addressed(out[k], d)

CountIn(s, Test(_)) == Cardinality({k \in DOMAIN s : Test(s[k])})
One(b) == IF b THEN 1 ELSE 0

\* Telemetry on its way round: asked for, on the line, in the read thread's
\* hand, queued, being sent.
Outstanding ==
  Len(out)
  + CountIn(line, LAMBDA m : m.kind \in Link!Telemetry)
  + One(message.kind \in Link!Telemetry)
  + CountIn(queue, LAMBDA t : t = Telemetry)
  + One(held[Sender] = Telemetry)

Unasked == \E d \in Devices : Volunteer(d)

\* A request, or a message that a device sends unasked, makes at most one
\* telemetry message for the OBC: whatever the interleaving of the reader, the
\* queue and saveData, nothing else adds to what is outstanding.
AnsweredOnce ==
  [][Outstanding' > Outstanding =>
       Outstanding' = Outstanding + 1 /\ (lock = Sender \/ Unasked)]_vars

\* main gets to the listener, if it does not die of the configuration or of
\* the port: it waits for the first message of the autopilot.
ServerListens == <>(pc \in {"aborted", "listen"})

\* Each frame in the work queue returns to the camera, although its saveData
\* waits for the port and telemetry overtakes it.  Two things are asked for
\* that the program does not see to: that saveData is not always late for the
\* lock the read thread holds while it waits for a byte, and takes again at
\* once, which a pthread mutex does not promise; and that the devices do not
\* send telemetry unasked for ever, for it is put in front of every frame.
EveryFrameServed ==
  SF_vars(LockPort) /\ <>[][~Unasked]_vars =>
    \A f \in Frames : (\E k \in DOMAIN queue : queue[k] = f) /\ spc # "off"
                      ~> (f \in filling \/ ~Alive)

\* stop ends the read thread with the next byte, on the same condition.
StopEndsReader ==
  SF_vars(ReaderLocks) => (timeToExit ~> (rpc = "ended" /\ ~reading))
=============================================================================
