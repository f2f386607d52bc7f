------------------------------ MODULE RaspyProofs ------------------------------
(***************************************************************************)
(* The state of raspy is always well-typed; with one device on the line,   *)
(* telemetry is asked of that device only; and a request brings at most    *)
(* one message to the OBC.  Nothing is assumed of the number of frames,    *)
(* the sizes of messages or the configuration file.                        *)
(***************************************************************************)
EXTENDS Raspy, SequenceTheorems, FiniteSetTheorems, TLAPS

MainTypes ==
  /\ pc \in {"load", "camera", "open", "connect", "connecting", "queue", "listen",
             "aborted"}
  /\ config.uart \in {Serial0, "dev/serial0"}
  /\ config.mavlink \in {0, 1} /\ config.toObc \in {0, 1} /\ config.mock \in BOOLEAN

FrameTypes ==
  /\ camera \in {"off", "starting", "running"}
  /\ filling \subseteq Frames
  /\ spc \in {"off", "idle", "attitude", "gps", "requeue", "telemetry"}
  /\ queue \in Seq(Tasks)
  /\ held \in [Consumers -> Tasks \cup {NoTask}]
  /\ spc = "requeue" \/ Asking => held[Sender] \in Frames

Commands == [sys : 0..255, comp : 0..255, kind : Link!Telemetry]

PortTypes ==
  /\ lock \in {NoThread, Reader, Sender}
  /\ line \in Seq(Messages)
  /\ parsed \in 0..MsgBytes - 1
  /\ out \in Seq(Commands)

LinkTypes ==
  /\ handshake \in {"off", "wait", "check", "system", "component", "returned"}
  /\ rpc \in {"off", "begin", "test", "lock", "read", "sysid", "compid", "dispatch",
              "ended"}
  /\ message \in Messages \cup {Link!NoMessage}
  /\ current \in [sys : 0..255, comp : 0..255]
  /\ systemId \in 0..255 /\ autopilotId \in 0..255

FlagTypes == opened \in BOOLEAN /\ timeToExit \in BOOLEAN /\ reading \in BOOLEAN

Types == MainTypes /\ FrameTypes /\ PortTypes /\ LinkTypes /\ FlagTypes

LEMMA TypesTypeOK == Types => TypeOK
BY DEF Types, MainTypes, FrameTypes, PortTypes, LinkTypes, FlagTypes, Commands, TypeOK

----------------------------------------------------------------------------
(* The operators of the configuration and of the line.                     *)

LEMMA SettingsTypes ==
  ASSUME NEW net \in Networks \cup {Absent}, NEW cam \in Cameras \cup {Absent},
         ~Mistyped(net), ~Mistyped(cam)
  PROVE  /\ Settings(net, cam).uart \in {Serial0, "dev/serial0"}
         /\ Settings(net, cam).mavlink \in {0, 1}
         /\ Settings(net, cam).toObc \in {0, 1}
         /\ Settings(net, cam).mock \in BOOLEAN
<1> DEFINE n == ReadNetwork(net)
<1>1. /\ n \in [uart : {Serial0, "dev/serial0"}, mavlink : {0, 1}, toObc : {0, 1},
                mock : {FALSE}]
  <2>1. CASE net = Absent
    BY <2>1 DEF ReadNetwork, Defaults
  <2>2. CASE net # Absent
    <3>1. /\ net.uart \in {Serial0, Absent}
          /\ net.mavlink \in {0, 1, Absent}
          /\ net.toObc \in {0, 1, Absent}
      BY <2>2 DEF Networks, Optional, Mistyped
    <3> QED
      BY <2>2, <3>1 DEF ReadNetwork, Defaults, Value
  <2> QED
    BY <2>1, <2>2
<1>2. cam # Absent => cam.mock \in BOOLEAN \cup {Absent}
  BY DEF Cameras, Optional, Mistyped
<1> HIDE DEF n
<1>3. CASE cam = Absent
  BY <1>1, <1>3 DEF Settings, n
<1>4. CASE cam # Absent
  <2>1. Value(cam.mock, FALSE) \in BOOLEAN
    BY <1>2, <1>4 DEF Value
  <2>2. Settings(net, cam) = [n EXCEPT !.mock = Value(cam.mock, FALSE)]
    BY <1>4 DEF Settings, n
  <2> QED
    BY <1>1, <2>1, <2>2
<1> QED
  BY <1>3, <1>4

LEMMA MessageTypes ==
  ASSUME NEW m \in Messages
  PROVE  /\ m.sys \in 0..255 /\ m.comp \in 0..255 /\ m.sys # 0
         /\ <<m.sys, m.comp>> \in Devices
BY DeviceAssumption DEF Messages

LEMMA DeviceSays ==
  ASSUME NEW d \in Devices, NEW kind \in Kinds, line \in Seq(Messages), Say(d, kind)
  PROVE  line' \in Seq(Messages)
<1>1. [sys |-> d[1], comp |-> d[2], kind |-> kind] \in Messages
  BY DEF Messages
<1> QED
  BY <1>1, AppendProperties DEF Say

----------------------------------------------------------------------------

LEMMA InitTypes == Init => Types
<1> SUFFICES ASSUME Init PROVE Types
  OBVIOUS
<1>1. MainTypes
  BY DEF Init, MainTypes, Defaults
<1>2. FrameTypes
  BY EmptySeq DEF Init, FrameTypes, Queue!Init, Asking, Consumers
<1>3. PortTypes
  BY EmptySeq, BytesAssumption DEF Init, PortTypes, Port!Init
<1>4. LinkTypes
  BY DEF Init, LinkTypes, Link!Init
<1>5. FlagTypes
  BY DEF Init, FlagTypes, Port!Init, Link!Init
<1> QED
  BY <1>1, <1>2, <1>3, <1>4, <1>5 DEF Types

LEMMA MainTypesStep ==
  ASSUME MainTypes, [Next]_vars
  PROVE  MainTypes'
<1>1. CASE LoadConfiguration
  <2>1. pc' \in {"aborted", "camera"}
    BY <1>1 DEF LoadConfiguration, Goto
  <2>2. CASE UNCHANGED config
    BY <2>1, <2>2 DEF MainTypes
  <2>3. CASE \E net \in Networks \cup {Absent}, cam \in Cameras \cup {Absent} :
               ~Mistyped(net) /\ ~Mistyped(cam) /\ config' = Settings(net, cam)
    BY <2>1, <2>3, SettingsTypes DEF MainTypes
  <2> QED
    BY <1>1, <2>2, <2>3 DEF LoadConfiguration
<1>2. CASE \/ NoConfiguration \/ StartCameraThread \/ OpenPort \/ OpenFails
           \/ BeginConnect \/ Connect \/ StartSendingLoop
  BY <1>2 DEF MainTypes, NoConfiguration, StartCameraThread, OpenPort, OpenFails,
              BeginConnect, Connect, StartSendingLoop, Goto
<1>3. CASE UNCHANGED mainVars
  BY <1>3 DEF MainTypes, mainVars
<1> QED
  BY <1>1, <1>2, <1>3
     DEF Next, Main, CallMavlinkStop, StartCamera, CompleteFrame, LockPort, SenderThread,
         TakeTask, WriteCommand, Requeue, SendTelemetry, ReaderThread, ReaderStep,
         ReaderLocks, Read, ReadFails, Dispatch, Heartbeat, Answer, Volunteer, DropCommand,
         vars

LEMMA FlagTypesStep ==
  ASSUME FlagTypes, [Next]_vars
  PROVE  FlagTypes'
<1>1. opened' \in BOOLEAN
  BY DEF FlagTypes, Next, Main, NoConfiguration, LoadConfiguration, StartCameraThread,
         OpenPort, OpenFails, BeginConnect, Connect, StartSendingLoop, CallMavlinkStop,
         StartCamera, CompleteFrame, LockPort, SenderThread, TakeTask, WriteCommand,
         Requeue, SendTelemetry, ReaderThread, ReaderStep, ReaderLocks, Read, ReadFails,
         Dispatch, Heartbeat, Answer, Volunteer, DropCommand, vars, portVars, Port!Start,
         Port!Lock,
         Port!Write, Port!ReadByte, Port!ReadLastByte, Port!ReadFails
<1>2. timeToExit' \in BOOLEAN
  BY DEF FlagTypes, Next, Main, NoConfiguration, LoadConfiguration, StartCameraThread,
         OpenPort, OpenFails, BeginConnect, Connect, StartSendingLoop, CallMavlinkStop,
         StartCamera, CompleteFrame, LockPort, SenderThread, TakeTask, WriteCommand,
         Requeue, SendTelemetry, ReaderThread, ReaderStep, ReaderLocks, Read, ReadFails,
         Dispatch, Heartbeat, Answer, Volunteer, DropCommand, vars, linkVars,
         Link!StartReadThread, Link!Start, Link!Connected, Link!NotConnected, Link!CheckExit,
         Link!CopySystemId, Link!CopyAutopilotId, Link!Stop, Link!BeginReading,
         Link!TestExit, Link!PublishSysid, Link!PublishCompid, Link!BeginRead,
         Link!ReadNothing, Link!ReadMessage, Link!Dispatch
<1>3. reading' \in BOOLEAN
  BY DEF FlagTypes, Next, Main, NoConfiguration, LoadConfiguration, StartCameraThread,
         OpenPort, OpenFails, BeginConnect, Connect, StartSendingLoop, CallMavlinkStop,
         StartCamera, CompleteFrame, LockPort, SenderThread, TakeTask, WriteCommand,
         Requeue, SendTelemetry, ReaderThread, ReaderStep, ReaderLocks, Read, ReadFails,
         Dispatch, Heartbeat, Answer, Volunteer, DropCommand, vars, linkVars,
         Link!StartReadThread, Link!Start, Link!Connected, Link!NotConnected, Link!CheckExit,
         Link!CopySystemId, Link!CopyAutopilotId, Link!Stop, Link!readVars,
         Link!BeginReading, Link!TestExit, Link!PublishSysid, Link!PublishCompid,
         Link!BeginRead, Link!ReadNothing, Link!ReadMessage, Link!Dispatch
<1> QED
  BY <1>1, <1>2, <1>3 DEF FlagTypes

\* The steps that disturb the camera, the work queue and the sending thread.
LEMMA FrameSteps ==
  [Next]_vars =>
    \/ StartCameraThread \/ StartSendingLoop \/ StartCamera
    \/ (\E f \in Frames : CompleteFrame(f))
    \/ TakeTask \/ WriteCommand \/ Requeue \/ SendTelemetry \/ Dispatch
    \/ UNCHANGED <<cameraVars, spc, queueVars>>
BY DEF Next, Main, NoConfiguration, LoadConfiguration, StartCameraThread, OpenPort,
         OpenFails, BeginConnect, Connect, StartSendingLoop, CallMavlinkStop, StartCamera,
         CompleteFrame, LockPort, SenderThread, TakeTask, WriteCommand, Requeue,
         SendTelemetry, ReaderThread, ReaderStep, ReaderLocks, Read, ReadFails, Dispatch,
         Heartbeat, Answer, Volunteer, DropCommand, vars

LEMMA FrameTypesStep ==
  ASSUME FrameTypes, [Next]_vars
  PROVE  FrameTypes'
<1> USE DEF FrameTypes, Asking, Consumers
<1>1. CASE StartCameraThread \/ StartSendingLoop \/ StartCamera
  <2>1. CASE StartCameraThread
    BY <2>1 DEF StartCameraThread, queueVars
  <2>2. CASE StartSendingLoop
    BY <2>2 DEF StartSendingLoop, queueVars, cameraVars
  <2>3. CASE StartCamera
    BY <2>3 DEF StartCamera, queueVars
  <2> QED
    BY <1>1, <2>1, <2>2, <2>3
<1>2. CASE \E f \in Frames : CompleteFrame(f)
  BY <1>2, AppendProperties DEF CompleteFrame, Queue!PushBack, Tasks
<1>3. CASE TakeTask
  <2>1. Head(queue) \in Tasks /\ Tail(queue) \in Seq(Tasks)
    BY <1>3, HeadTailProperties DEF TakeTask, Queue!Take
  <2>2. held'[Sender] = Head(queue)
    BY <1>3 DEF TakeTask, Queue!Take
  <2>3. spc' \in {"attitude", "requeue", "telemetry"}
        /\ (spc' # "telemetry" => held'[Sender] # Telemetry)
    BY <1>3 DEF TakeTask
  <2> QED
    BY <1>3, <2>1, <2>2, <2>3 DEF TakeTask, Queue!Take, cameraVars, Tasks
<1>4. CASE WriteCommand
  BY <1>4 DEF WriteCommand, cameraVars, queueVars
<1>5. CASE Requeue
  BY <1>5 DEF Requeue, Queue!Finish
<1>6. CASE SendTelemetry
  BY <1>6 DEF SendTelemetry, Queue!Finish, cameraVars
<1>7. CASE Dispatch
  <2>1. queue' \in Seq(Tasks) /\ UNCHANGED held
    <3>1. <<Telemetry>> \in Seq(Tasks)
      BY DEF Tasks
    <3>2. <<Telemetry>> \o queue \in Seq(Tasks)
      BY <3>1, ConcatProperties
    <3> QED
      BY <1>7, <3>2 DEF Dispatch, Queue!PushFront, queueVars
  <2> QED
    BY <1>7, <2>1 DEF Dispatch, cameraVars
<1>8. CASE UNCHANGED <<cameraVars, spc, queueVars>>
  BY <1>8 DEF cameraVars, queueVars
<1> QED
  BY <1>1, <1>2, <1>3, <1>4, <1>5, <1>6, <1>7, <1>8, FrameSteps

\* The steps that disturb the port and the line.
LEMMA PortSteps ==
  [Next]_vars =>
    \/ OpenPort \/ LockPort \/ WriteCommand \/ ReaderLocks \/ Read \/ ReadFails
    \/ (\E d \in Devices : Heartbeat(d) \/ Answer(d) \/ Volunteer(d))
    \/ DropCommand
    \/ UNCHANGED portVars
BY DEF Next, Main, NoConfiguration, LoadConfiguration, StartCameraThread, OpenPort,
         OpenFails, BeginConnect, Connect, StartSendingLoop, CallMavlinkStop, StartCamera,
         CompleteFrame, LockPort, SenderThread, TakeTask, WriteCommand, Requeue,
         SendTelemetry, ReaderThread, ReaderStep, ReaderLocks, Read, ReadFails, Dispatch,
         Heartbeat, Answer, Volunteer, DropCommand, vars

LEMMA PortTypesStep ==
  ASSUME PortTypes, LinkTypes, [Next]_vars
  PROVE  PortTypes'
<1> USE DEF PortTypes
<1>1. CASE OpenPort \/ LockPort \/ ReaderLocks \/ ReadFails
  BY <1>1 DEF OpenPort, LockPort, ReaderLocks, ReadFails, Port!Start, Port!Lock,
              Port!ReadFails, Port!Unlock, Port!lineVars
<1>2. CASE WriteCommand
  <2>1. Link!Command(spc) \in Commands
    BY <1>2 DEF WriteCommand, Asking, Link!Command, Link!Telemetry, Commands, LinkTypes
  <2> QED
    BY <1>2, <2>1, AppendProperties DEF WriteCommand, Port!Write, Port!Unlock
<1>3. CASE Read
  <2>1. line # <<>> => Tail(line) \in Seq(Messages)
    BY HeadTailProperties
  <2>2. CASE Port!ReadByte(Reader)
    BY <2>2, BytesAssumption DEF Port!ReadByte, Port!Unlock
  <2>3. CASE Port!ReadLastByte(Reader)
    BY <2>1, <2>3, BytesAssumption DEF Port!ReadLastByte, Port!Unlock
  <2> QED
    BY <1>3, <2>2, <2>3 DEF Read
<1>4. ASSUME NEW d \in Devices, Heartbeat(d) PROVE PortTypes'
  <2>1. line' \in Seq(Messages)
    BY <1>4, DeviceSays DEF Heartbeat, Kinds
  <2> QED
    BY <1>4, <2>1 DEF Heartbeat
<1>5. ASSUME NEW d \in Devices, Answer(d) PROVE PortTypes'
  <2>1. Head(out) \in Commands /\ Tail(out) \in Seq(Commands)
    BY <1>5, HeadTailProperties DEF Answer
  <2>2. line' \in Seq(Messages)
    BY <1>5, <2>1, DeviceSays DEF Answer, Kinds, Commands
  <2> QED
    BY <1>5, <2>1, <2>2 DEF Answer
<1>6. ASSUME NEW d \in Devices, Volunteer(d) PROVE PortTypes'
  <2>1. line' \in Seq(Messages)
    BY <1>6, DeviceSays DEF Volunteer, Kinds
  <2> QED
    BY <1>6, <2>1 DEF Volunteer
<1>7. CASE DropCommand
  BY <1>7, HeadTailProperties DEF DropCommand
<1>8. CASE UNCHANGED portVars
  BY <1>8 DEF portVars
<1> QED
  BY <1>1, <1>2, <1>3, <1>4, <1>5, <1>6, <1>7, <1>8, PortSteps

\* The steps that disturb the connection.
LEMMA LinkSteps ==
  [Next]_vars =>
    \/ BeginConnect \/ Connect \/ CallMavlinkStop \/ ReaderStep \/ ReaderLocks
    \/ Read \/ ReadFails \/ Dispatch
    \/ UNCHANGED linkVars
BY DEF Next, Main, NoConfiguration, LoadConfiguration, StartCameraThread, OpenPort,
         OpenFails, BeginConnect, Connect, StartSendingLoop, CallMavlinkStop, StartCamera,
         CompleteFrame, LockPort, SenderThread, TakeTask, WriteCommand, Requeue,
         SendTelemetry, ReaderThread, ReaderStep, ReaderLocks, Read, ReadFails, Dispatch,
         Heartbeat, Answer, Volunteer, DropCommand, vars

LEMMA LinkTypesStep ==
  ASSUME LinkTypes, PortTypes, [Next]_vars
  PROVE  LinkTypes'
<1> USE DEF LinkTypes, Link!startVars, Link!readVars, Link!Goto, Link!ReaderGoto
<1>1. CASE BeginConnect
  BY <1>1 DEF BeginConnect, Link!StartReadThread
<1>2. CASE Connect
  BY <1>2 DEF Connect, Link!Start, Link!Connected, Link!NotConnected, Link!CheckExit,
         Link!CopySystemId,
              Link!CopyAutopilotId
<1>3. CASE CallMavlinkStop
  BY <1>3 DEF CallMavlinkStop, Link!Stop
<1>4. message.sys \in 0..255 /\ message.comp \in 0..255
  <2>1. \A m \in Messages : m.sys \in 0..255 /\ m.comp \in 0..255
    BY MessageTypes
  <2>2. Link!NoMessage.sys \in 0..255 /\ Link!NoMessage.comp \in 0..255
    BY DEF Link!NoMessage
  <2>3. message \in Messages \/ message = Link!NoMessage
    OBVIOUS
  <2> HIDE DEF LinkTypes
  <2> QED
    BY <2>1, <2>2, <2>3
<1>5. CASE ReaderStep
  BY <1>4, <1>5 DEF ReaderStep, Link!BeginReading, Link!TestExit, Link!PublishSysid,
              Link!PublishCompid
<1>6. CASE ReaderLocks \/ ReadFails
  BY <1>6 DEF ReaderLocks, ReadFails, Link!BeginRead, Link!ReadNothing
<1>7. CASE Read
  <2>1. CASE Link!ReadNothing
    BY <2>1 DEF Link!ReadNothing
  <2>2. CASE line # <<>> /\ Link!ReadMessage(Head(line))
    <3>1. Head(line) \in Messages
      BY <2>2, HeadTailProperties DEF PortTypes
    <3> QED
      BY <2>2, <3>1 DEF Link!ReadMessage
  <2> QED
    BY <1>7, <2>1, <2>2 DEF Read, Port!ReadLastByte
<1>8. CASE Dispatch
  BY <1>8 DEF Dispatch, Link!Dispatch
<1>9. CASE UNCHANGED linkVars
  BY <1>9 DEF linkVars
<1> QED
  BY <1>1, <1>2, <1>3, <1>5, <1>6, <1>7, <1>8, <1>9, LinkSteps

LEMMA TypesStep == Types /\ [Next]_vars => Types'
BY MainTypesStep, FrameTypesStep, PortTypesStep, LinkTypesStep, FlagTypesStep DEF Types

LEMMA TypesInvariant == Spec => []Types
BY InitTypes, TypesStep, PTL DEF Spec

\* Whatever the configuration file, the devices and the order of the threads'
\* steps, the state stays well-typed: the parser never holds a whole message,
\* and what saveData holds when it asks and re-queues is a frame.
THEOREM TypeCorrect == Spec => []TypeOK
BY TypesInvariant, TypesTypeOK, PTL

----------------------------------------------------------------------------
(* The handshake with the only device on the line.                         *)

OneDevice == \E d : Devices = {d}

TheDevice == CHOOSE d : d \in Devices
Sys == TheDevice[1]
Comp == TheDevice[2]

\* The ids published so far are those of the device.
Heard ==
  /\ current.sys \in {0, Sys} /\ current.comp \in {0, Comp}
  /\ rpc \in {"sysid", "compid", "dispatch"} => message \in Messages

\* The ids taken are too; the component's may still be 0, the system's only if
\* the handshake was given up.
Taken ==
  /\ handshake \in {"off", "wait", "check", "system"} => systemId = 0
  /\ handshake = "system" => current.sys = Sys
  /\ handshake = "component" => systemId = Sys
  /\ handshake = "returned" => systemId = Sys \/ (timeToExit /\ systemId = 0)
  /\ autopilotId \in {0, Comp}

\* Nothing is asked before the handshake is over.
AskedAfterwards ==
  /\ pc \in {"queue", "listen"} /\ Mavlinked => handshake = "returned"
  /\ spc # "off" => pc = "listen"
  /\ Asking => Mavlinked
  /\ out # <<>> => handshake = "returned"

IInv == Types /\ Heard /\ Taken /\ AskedAfterwards /\ CommandsAddressed

LEMMA OnlyDevice ==
  ASSUME OneDevice
  PROVE  /\ Devices = {TheDevice}
         /\ \A m \in Messages : m.sys = Sys /\ m.comp = Comp
<1>1. Devices = {TheDevice}
  BY DEF OneDevice, TheDevice
<1>2. ASSUME NEW m \in Messages PROVE m.sys = Sys /\ m.comp = Comp
  <2>1. <<m.sys, m.comp>> = TheDevice
    BY <1>1, MessageTypes
  <2> QED
    BY <2>1 DEF Sys, Comp
<1> QED
  BY <1>1, <1>2

LEMMA InitIInv == Init => IInv
<1> SUFFICES ASSUME Init PROVE IInv
  OBVIOUS
<1>1. Types
  BY InitTypes
<1>2. Heard /\ Taken
  BY DEF Init, Link!Init, Heard, Taken
<1>3. AskedAfterwards /\ CommandsAddressed
  BY DEF Init, Port!Init, AskedAfterwards, Asking, CommandsAddressed
<1> QED
  BY <1>1, <1>2, <1>3 DEF IInv

LEMMA HeardStep ==
  ASSUME OneDevice, Types, Heard, [Next]_vars
  PROVE  Heard'
<1> USE DEF Heard, Link!startVars, Link!readVars, Link!Goto, Link!ReaderGoto
<1>1. CASE BeginConnect \/ Connect \/ CallMavlinkStop
  BY <1>1 DEF BeginConnect, Connect, CallMavlinkStop, Link!StartReadThread, Link!Start,
              Link!Connected, Link!NotConnected, Link!CheckExit, Link!CopySystemId,
         Link!CopyAutopilotId, Link!Stop
<1>2. CASE ReaderStep
  <2>1. CASE Link!BeginReading \/ Link!TestExit
    BY <2>1 DEF Link!BeginReading, Link!TestExit
  <2>2. CASE Link!PublishSysid \/ Link!PublishCompid
    <3>1. message.sys = Sys /\ message.comp = Comp
      BY <2>2, OnlyDevice DEF Link!PublishSysid, Link!PublishCompid
    <3> QED
      BY <2>2, <3>1 DEF Link!PublishSysid, Link!PublishCompid, Types, LinkTypes
  <2> QED
    BY <1>2, <2>1, <2>2 DEF ReaderStep
<1>3. CASE ReaderLocks \/ ReadFails
  BY <1>3 DEF ReaderLocks, ReadFails, Link!BeginRead, Link!ReadNothing
<1>4. CASE Read
  <2>1. CASE Link!ReadNothing
    BY <2>1 DEF Link!ReadNothing
  <2>2. CASE line # <<>> /\ Link!ReadMessage(Head(line))
    <3>1. Head(line) \in Messages
      BY <2>2, HeadTailProperties DEF Types, PortTypes
    <3> QED
      BY <2>2, <3>1 DEF Link!ReadMessage
  <2> QED
    BY <1>4, <2>1, <2>2 DEF Read, Port!ReadLastByte
<1>5. CASE Dispatch
  BY <1>5 DEF Dispatch, Link!Dispatch
<1>6. CASE UNCHANGED linkVars
  BY <1>6 DEF linkVars
<1> QED
  BY <1>1, <1>2, <1>3, <1>4, <1>5, <1>6, LinkSteps

LEMMA TakenStep ==
  ASSUME OneDevice, Types, Heard, Taken, [Next]_vars
  PROVE  Taken'
<1> USE DEF Taken, Link!startVars, Link!readVars, Link!Goto, Link!ReaderGoto
<1>1. CASE BeginConnect \/ CallMavlinkStop
  BY <1>1 DEF BeginConnect, CallMavlinkStop, Link!StartReadThread, Link!Stop
<1>2. CASE Connect
  <2>1. CASE Link!Connected
    BY <2>1 DEF Link!Connected, Heard
  <2>2. CASE Link!NotConnected \/ Link!CheckExit
    BY <2>2 DEF Link!NotConnected, Link!CheckExit
  <2>3. CASE Link!CopySystemId
    BY <2>3 DEF Link!CopySystemId
  <2>4. CASE Link!CopyAutopilotId
    BY <2>4 DEF Link!CopyAutopilotId, Heard
  <2> QED
    BY <1>2, <2>1, <2>2, <2>3, <2>4 DEF Connect, Link!Start
<1>3. CASE ReaderStep
  <2>1. UNCHANGED <<handshake, systemId, autopilotId, timeToExit>>
    BY <1>3 DEF ReaderStep, Link!BeginReading, Link!TestExit, Link!PublishSysid,
                Link!PublishCompid
  <2>2. current.sys = Sys => current'.sys = Sys
    <3>1. CASE Link!PublishSysid
      <4>1. message.sys = Sys
        BY <3>1, OnlyDevice DEF Link!PublishSysid, Heard
      <4> QED
        BY <3>1, <4>1 DEF Link!PublishSysid, Types, LinkTypes
    <3>2. CASE Link!PublishCompid
      BY <3>2 DEF Link!PublishCompid, Types, LinkTypes
    <3>3. CASE Link!BeginReading \/ Link!TestExit
      BY <3>3 DEF Link!BeginReading, Link!TestExit
    <3> QED
      BY <1>3, <3>1, <3>2, <3>3 DEF ReaderStep
  <2> QED
    BY <2>1, <2>2
<1>4. CASE ReaderLocks \/ Read \/ ReadFails \/ Dispatch
  BY <1>4 DEF ReaderLocks, Read, ReadFails, Dispatch, Link!BeginRead, Link!ReadNothing,
              Link!ReadMessage, Link!Dispatch
<1>5. CASE UNCHANGED linkVars
  BY <1>5 DEF linkVars
<1> QED
  BY <1>1, <1>2, <1>3, <1>4, <1>5, LinkSteps

LEMMA ReturnedStays ==
  ASSUME [Next]_vars, handshake = "returned"
  PROVE  /\ handshake' = "returned"
         /\ UNCHANGED <<systemId, autopilotId>>
         /\ timeToExit => timeToExit'
<1> USE DEF Link!startVars, Link!readVars, Link!Goto, Link!ReaderGoto
<1>1. CASE BeginConnect \/ Connect \/ CallMavlinkStop
  BY <1>1 DEF BeginConnect, Connect, CallMavlinkStop, Link!StartReadThread, Link!Start,
              Link!Connected, Link!NotConnected, Link!CheckExit, Link!CopySystemId,
         Link!CopyAutopilotId, Link!Stop
<1>2. CASE ReaderStep
  BY <1>2 DEF ReaderStep, Link!BeginReading, Link!TestExit, Link!PublishSysid,
              Link!PublishCompid
<1>3. CASE ReaderLocks \/ Read \/ ReadFails \/ Dispatch
  BY <1>3 DEF ReaderLocks, Read, ReadFails, Dispatch, Link!BeginRead, Link!ReadNothing,
              Link!ReadMessage, Link!Dispatch
<1>4. CASE UNCHANGED linkVars
  BY <1>4 DEF linkVars
<1> QED
  BY <1>1, <1>2, <1>3, <1>4, LinkSteps

\* The steps of main: the configuration is final when it is loaded, and once
\* main listens it goes nowhere.
LEMMA MainSteps ==
  [Next]_vars =>
    \/ pc' \notin {"queue", "listen"} /\ pc # "listen" /\ UNCHANGED spc
    \/ StartCameraThread \/ Connect \/ StartSendingLoop
    \/ UNCHANGED mainVars
BY DEF Next, Main, NoConfiguration, LoadConfiguration, StartCameraThread, OpenPort,
         OpenFails, BeginConnect, Connect, StartSendingLoop, Goto, CallMavlinkStop,
         StartCamera, CompleteFrame, LockPort, SenderThread, TakeTask, WriteCommand,
         Requeue, SendTelemetry, ReaderThread, ReaderStep, ReaderLocks, Read, ReadFails,
         Dispatch, Heartbeat, Answer, Volunteer, DropCommand, vars

LEMMA AskedAfterwardsStep ==
  ASSUME AskedAfterwards, [Next]_vars
  PROVE  AskedAfterwards'
<1>1. pc' \in {"queue", "listen"} /\ Mavlinked' => handshake' = "returned"
  <2>1. CASE StartCameraThread
    BY <2>1 DEF StartCameraThread, Goto, Mavlinked
  <2>2. CASE Connect
    BY <2>2 DEF Connect
  <2>3. CASE StartSendingLoop \/ UNCHANGED mainVars
    <3>1. pc' \in {"queue", "listen"} => pc \in {"queue", "listen"}
      BY <2>3 DEF StartSendingLoop, Goto, mainVars
    <3>2. Mavlinked' <=> Mavlinked
      BY <2>3 DEF StartSendingLoop, mainVars, Mavlinked
    <3> QED
      BY <3>1, <3>2, ReturnedStays DEF AskedAfterwards
  <2> QED
    BY <2>1, <2>2, <2>3, MainSteps
<1>2. pc = "listen" => UNCHANGED mainVars
  <2>1. StartCameraThread \/ Connect \/ StartSendingLoop => pc # "listen"
    BY DEF StartCameraThread, Connect, StartSendingLoop, Goto
  <2> QED
    BY <2>1, MainSteps
<1>3. spc' # "off" => pc' = "listen"
  <2>1. CASE StartSendingLoop
    BY <2>1 DEF StartSendingLoop, Goto
  <2>2. CASE UNCHANGED spc
    BY <1>2, <2>2 DEF AskedAfterwards, mainVars
  <2>3. CASE TakeTask \/ WriteCommand \/ Requeue \/ SendTelemetry
    <3>1. spc # "off"
      BY <2>3 DEF TakeTask, WriteCommand, Requeue, SendTelemetry, Asking
    <3> QED
      BY <1>2, <3>1 DEF AskedAfterwards, mainVars
  <2>4. StartCameraThread \/ StartCamera \/ Dispatch \/ (\E f \in Frames : CompleteFrame(f))
        => UNCHANGED spc
    BY DEF StartCameraThread, StartCamera, Dispatch, CompleteFrame
  <2> QED
    BY <2>1, <2>2, <2>3, <2>4, FrameSteps
<1>4. Asking' => Mavlinked'
  <2>1. CASE TakeTask
    BY <2>1 DEF TakeTask, mainVars, Asking, Mavlinked
  <2>2. CASE WriteCommand
    BY <2>2 DEF WriteCommand, mainVars, Mavlinked, AskedAfterwards
  <2>3. CASE StartSendingLoop \/ Requeue \/ SendTelemetry
    BY <2>3 DEF StartSendingLoop, Requeue, SendTelemetry, Asking
  <2>4. CASE UNCHANGED spc
    <3>1. Asking' => Asking /\ spc # "off"
      BY <2>4 DEF Asking
    <3> QED
      BY <1>2, <3>1 DEF AskedAfterwards, mainVars, Mavlinked
  <2>5. StartCameraThread \/ StartCamera \/ Dispatch \/ (\E f \in Frames : CompleteFrame(f))
        => UNCHANGED spc
    BY DEF StartCameraThread, StartCamera, Dispatch, CompleteFrame
  <2> QED
    BY <2>1, <2>2, <2>3, <2>4, <2>5, FrameSteps
<1>5. out' # <<>> => handshake' = "returned"
  <2>1. CASE WriteCommand
    <3>1. handshake = "returned"
      BY <2>1 DEF WriteCommand, AskedAfterwards, Asking
    <3> QED
      BY <3>1, ReturnedStays
  <2>2. CASE out' # <<>> => out # <<>>
    BY <2>2, ReturnedStays DEF AskedAfterwards
  <2>3. OpenPort \/ LockPort \/ ReaderLocks \/ Read \/ ReadFails => UNCHANGED out
    BY DEF OpenPort, LockPort, ReaderLocks, Read, ReadFails, Port!Start, Port!Lock,
           Port!ReadByte, Port!ReadLastByte, Port!ReadFails, Port!lineVars
  <2>4. (\E d \in Devices : Heartbeat(d) \/ Answer(d) \/ Volunteer(d))
        => UNCHANGED out \/ out # <<>>
    BY DEF Heartbeat, Answer, Volunteer
  <2>5. DropCommand => out # <<>>
    BY DEF DropCommand
  <2> QED
    BY <2>1, <2>2, <2>3, <2>4, <2>5, PortSteps DEF portVars
<1> QED
  BY <1>1, <1>3, <1>4, <1>5 DEF AskedAfterwards

----------------------------------------------------------------------------
(* What is asked is addressed to the device.                               *)

\* A command that CommandsAddressed allows, when the ids are these.
Proper(command, exit, id) ==
  \/ exit /\ id = 0
  \/ \E d \in Devices : Addressed(command, d)

LEMMA CommandProper ==
  ASSUME OneDevice, Types, Taken, handshake = "returned"
  PROVE  Proper(Link!Command(spc), timeToExit, systemId)
<1>1. TheDevice \in Devices
  BY OnlyDevice
<1>2. CASE systemId = Sys
  <2>1. Addressed(Link!Command(spc), TheDevice)
    BY <1>2 DEF Taken, Addressed, Link!Command, Sys, Comp
  <2> QED
    BY <1>1, <2>1 DEF Proper
<1>3. CASE timeToExit /\ systemId = 0
  BY <1>3 DEF Proper
<1> QED
  BY <1>2, <1>3 DEF Taken

LEMMA CommandsAddressedStep ==
  ASSUME OneDevice, Types, Taken, AskedAfterwards, CommandsAddressed, [Next]_vars
  PROVE  CommandsAddressed'
<1>1. ASSUME NEW command, handshake = "returned", Proper(command, timeToExit, systemId)
      PROVE  Proper(command, timeToExit', systemId')
  BY <1>1, ReturnedStays DEF Proper
<1>2. \A k \in DOMAIN out : handshake = "returned" /\ Proper(out[k], timeToExit, systemId)
  <2>1. out = <<>> => DOMAIN out = {}
    OBVIOUS
  <2> QED
    BY <2>1 DEF CommandsAddressed, Proper, AskedAfterwards
<1>3. \A k \in DOMAIN out : Proper(out[k], timeToExit', systemId')
  BY <1>1, <1>2
<1>4. out \in Seq(Commands)
  BY DEF Types, PortTypes
<1>5. ASSUME NEW k \in DOMAIN out' PROVE Proper(out'[k], timeToExit', systemId')
  <2>1. CASE WriteCommand
    <3>1. handshake = "returned"
      BY <2>1 DEF WriteCommand, AskedAfterwards, Asking
    <3>2. Proper(Link!Command(spc), timeToExit', systemId')
      BY <1>1, <3>1, CommandProper
    <3>3. out' = Append(out, Link!Command(spc))
      BY <2>1 DEF WriteCommand, Port!Write
    <3>4. out'[k] = Link!Command(spc) \/ (k \in DOMAIN out /\ out'[k] = out[k])
      BY <1>4, <3>3
    <3> QED
      BY <1>3, <3>2, <3>4
  <2>2. CASE out # <<>> /\ out' = Tail(out)
    <3>1. k + 1 \in DOMAIN out /\ out'[k] = out[k + 1]
      BY <1>4, <2>2
    <3> QED
      BY <1>3, <3>1
  <2>3. CASE UNCHANGED out
    BY <1>3, <2>3
  <2>4. OpenPort \/ LockPort \/ ReaderLocks \/ Read \/ ReadFails => UNCHANGED out
    BY DEF OpenPort, LockPort, ReaderLocks, Read, ReadFails, Port!Start, Port!Lock,
           Port!ReadByte, Port!ReadLastByte, Port!ReadFails, Port!lineVars
  <2>5. (\E d \in Devices : Heartbeat(d) \/ Answer(d) \/ Volunteer(d))
        => UNCHANGED out \/ (out # <<>> /\ out' = Tail(out))
    BY DEF Heartbeat, Answer, Volunteer
  <2>6. DropCommand => out # <<>> /\ out' = Tail(out)
    BY DEF DropCommand
  <2> QED
    BY <2>1, <2>2, <2>3, <2>4, <2>5, <2>6, PortSteps DEF portVars
<1> QED
  BY <1>5 DEF CommandsAddressed, Proper

LEMMA IInvStep == OneDevice /\ IInv /\ [Next]_vars => IInv'
BY TypesStep, HeardStep, TakenStep, AskedAfterwardsStep, CommandsAddressedStep DEF IInv

\* With one device on the line, whatever saveData asks goes to that device,
\* whichever of its ids the read thread had published when main took them:
\* nothing is asked before the handshake is over, and then the system is the
\* device's and the component its own or 0.  Only a handshake given up, on a
\* call of stop, leaves the address empty.
THEOREM AlwaysAddressed == OneDevice /\ Spec => []CommandsAddressed
<1>1. OneDevice /\ Spec => []IInv
  <2>1. SUFFICES ASSUME OneDevice PROVE Spec => []IInv
    OBVIOUS
  <2>2. IInv /\ [Next]_vars => IInv'
    BY <2>1, IInvStep
  <2> QED
    BY <2>2, InitIInv, PTL DEF Spec
<1>2. IInv => CommandsAddressed
  BY DEF IInv
<1> QED
  BY <1>1, <1>2, PTL

----------------------------------------------------------------------------
(* How often something of a kind is in a sequence.                         *)

Places(s, A) == {k \in 1..Len(s) : s[k] \in A}
Count(s, A) == Cardinality(Places(s, A))

LEMMA PlacesFinite ==
  ASSUME NEW T, NEW s \in Seq(T), NEW A
  PROVE  IsFiniteSet(Places(s, A)) /\ Count(s, A) \in Nat
<1>1. Len(s) \in Nat /\ IsFiniteSet(1..Len(s))
  BY FS_Interval
<1>2. IsFiniteSet(Places(s, A))
  BY <1>1, FS_Subset DEF Places
<1> QED
  BY <1>2, FS_CardinalityType DEF Count

LEMMA CountAppend ==
  ASSUME NEW T, NEW s \in Seq(T), NEW e \in T, NEW A
  PROVE  Count(Append(s, e), A) = Count(s, A) + One(e \in A)
<1> DEFINE n == Len(s) + 1
<1>1. IsFiniteSet(Places(s, A)) /\ Count(s, A) \in Nat /\ n \notin Places(s, A)
  BY PlacesFinite DEF Places
<1>2. Places(Append(s, e), A) = IF e \in A THEN Places(s, A) \cup {n} ELSE Places(s, A)
  BY DEF Places
<1> HIDE DEF n
<1>3. CASE e \in A
  BY <1>1, <1>2, <1>3, FS_AddElement DEF Count, One
<1>4. CASE e \notin A
  BY <1>1, <1>2, <1>4 DEF Count, One
<1> QED
  BY <1>3, <1>4

LEMMA CountTail ==
  ASSUME NEW T, NEW s \in Seq(T), s # <<>>, NEW A
  PROVE  Count(s, A) = Count(Tail(s), A) + One(Head(s) \in A)
<1> DEFINE P == Places(Tail(s), A)
           Q == {k + 1 : k \in P}
           f == [k \in P |-> k + 1]
<1>1. Tail(s) \in Seq(T) /\ Len(Tail(s)) = Len(s) - 1 /\ Len(s) \in Nat \ {0}
      /\ \A k \in 1..Len(s) - 1 : Tail(s)[k] = s[k + 1]
      /\ Head(s) = s[1]
  BY HeadTailProperties, EmptySeq
<1>2. IsFiniteSet(P) /\ Count(Tail(s), A) = Cardinality(P) /\ Cardinality(P) \in Nat
  BY <1>1, PlacesFinite DEF Count
<1>3. P \subseteq Nat /\ 1 \notin Q
  BY <1>1 DEF Places
<1>4. f \in Bijection(P, Q)
  <2>1. f \in [P -> Q] /\ \A q \in Q : \E k \in P : f[k] = q
    OBVIOUS
  <2>2. \A j, k \in P : f[j] = f[k] => j = k
    BY <1>3
  <2> QED
    BY <2>1, <2>2 DEF Bijection, Injection, Surjection, IsInjective
<1>5. Places(s, A) = IF Head(s) \in A THEN Q \cup {1} ELSE Q
  <2>1. \A k \in 1..Len(s) : k = 1 \/ (k - 1 \in 1..Len(s) - 1 /\ s[k] = Tail(s)[k - 1])
    BY <1>1
  <2>2. ASSUME NEW k \in Places(s, A), k # 1 PROVE k \in Q
    <3>1. k - 1 \in P /\ k = (k - 1) + 1
      BY <1>1, <2>1, <2>2 DEF Places
    <3> QED
      BY <3>1
  <2>3. Q \subseteq Places(s, A)
    BY <1>1 DEF Places
  <2>4. 1 \in Places(s, A) <=> Head(s) \in A
    BY <1>1 DEF Places
  <2> QED
    BY <1>3, <2>2, <2>3, <2>4
<1> HIDE DEF P, Q, f
<1>6. IsFiniteSet(Q) /\ Cardinality(Q) = Cardinality(P)
  BY <1>2, <1>4, FS_Bijection DEF ExistsBijection
<1>7. CASE Head(s) \in A
  <2>1. Cardinality(Q \cup {1}) = Cardinality(Q) + 1
    BY <1>3, <1>6, FS_AddElement
  <2> QED
    BY <1>2, <1>5, <1>6, <1>7, <2>1 DEF Count, One
<1>8. CASE Head(s) \notin A
  BY <1>2, <1>5, <1>6, <1>8 DEF Count, One
<1> QED
  BY <1>7, <1>8

LEMMA CountFront ==
  ASSUME NEW T, NEW s \in Seq(T), NEW e \in T, NEW A
  PROVE  Count(<<e>> \o s, A) = Count(s, A) + One(e \in A)
<1> DEFINE t == <<e>> \o s
<1>1. t \in Seq(T) /\ t # <<>> /\ Head(t) = e /\ Tail(t) = s
  OBVIOUS
<1> HIDE DEF t
<1> QED
  BY <1>1, CountTail DEF t

LEMMA CountInCount ==
  ASSUME NEW s \in Seq(Messages), NEW t \in Seq(Tasks)
  PROVE  /\ CountIn(s, LAMBDA m : m.kind \in Link!Telemetry)
            = Count(s, {m \in Messages : m.kind \in Link!Telemetry})
         /\ CountIn(t, LAMBDA x : x = Telemetry) = Count(t, {Telemetry})
<1>1. {k \in DOMAIN s : s[k].kind \in Link!Telemetry}
      = Places(s, {m \in Messages : m.kind \in Link!Telemetry})
  BY DEF Places
<1>2. {k \in DOMAIN t : t[k] = Telemetry} = Places(t, {Telemetry})
  BY DEF Places
<1> QED
  BY <1>1, <1>2 DEF CountIn, Count

----------------------------------------------------------------------------
(* Telemetry on its way round.                                             *)

Answers == {m \in Messages : m.kind \in Link!Telemetry}
InHand == One(message.kind \in Link!Telemetry)
Sending == One(held[Sender] = Telemetry)
OnItsWay ==
  Len(out) + Count(line, Answers) + InHand + Count(queue, {Telemetry}) + Sending

LEMMA OnItsWayTypes ==
  ASSUME Types
  PROVE  /\ Outstanding = OnItsWay
         /\ Len(out) \in Nat /\ Count(line, Answers) \in Nat
         /\ Count(queue, {Telemetry}) \in Nat
         /\ InHand \in {0, 1} /\ Sending \in {0, 1}
<1>1. line \in Seq(Messages) /\ queue \in Seq(Tasks) /\ out \in Seq(Commands)
  BY DEF Types, PortTypes, FrameTypes
<1>2. Outstanding = OnItsWay
  BY <1>1, CountInCount DEF Outstanding, OnItsWay, Answers, InHand, Sending
<1>3. Count(line, Answers) \in Nat /\ Count(queue, {Telemetry}) \in Nat
  BY <1>1, PlacesFinite
<1> QED
  BY <1>1, <1>2, <1>3 DEF InHand, Sending, One

\* The steps that disturb what is on its way.
LEMMA RoundSteps ==
  [Next]_vars =>
    \/ (\E f \in Frames : CompleteFrame(f))
    \/ TakeTask \/ WriteCommand \/ Requeue \/ SendTelemetry \/ Dispatch
    \/ Read \/ (\E d \in Devices : Heartbeat(d) \/ Answer(d) \/ Volunteer(d)) \/ DropCommand
    \/ UNCHANGED <<out, line, message, queue, held>>
BY DEF Next, Main, NoConfiguration, LoadConfiguration, StartCameraThread, OpenPort,
         OpenFails, BeginConnect, Connect, StartSendingLoop, CallMavlinkStop, StartCamera,
         LockPort, SenderThread, ReaderThread, ReaderStep, ReaderLocks, ReadFails, vars,
         queueVars, portVars, linkVars, Port!Start, Port!Lock, Port!ReadFails, Port!lineVars,
         Link!StartReadThread, Link!Start, Link!Connected, Link!NotConnected, Link!CheckExit,
         Link!CopySystemId,
         Link!CopyAutopilotId, Link!Stop, Link!startVars, Link!readVars, Link!BeginReading,
         Link!TestExit, Link!PublishSysid, Link!PublishCompid, Link!BeginRead,
         Link!ReadNothing

LEMMA AnsweredOnceStep ==
  ASSUME Types, Types', [Next]_vars, Outstanding' > Outstanding
  PROVE  Outstanding' = Outstanding + 1 /\ (lock = Sender \/ Unasked)
<1> DEFINE L == Count(line, Answers)
           Q == Count(queue, {Telemetry})
           round == <<out, line, message, queue, held>>
<1>1. /\ Outstanding = Len(out) + L + InHand + Q + Sending
      /\ Len(out) \in Nat /\ L \in Nat /\ Q \in Nat
      /\ InHand \in {0, 1} /\ Sending \in {0, 1}
  BY OnItsWayTypes DEF OnItsWay
<1>2. /\ Outstanding' = Len(out)' + L' + InHand' + Q' + Sending'
      /\ Len(out)' \in Nat /\ L' \in Nat /\ Q' \in Nat
      /\ InHand' \in {0, 1} /\ Sending' \in {0, 1}
  <2>1. (Types => /\ Outstanding = OnItsWay
                  /\ Len(out) \in Nat /\ Count(line, Answers) \in Nat
                  /\ Count(queue, {Telemetry}) \in Nat
                  /\ InHand \in {0, 1} /\ Sending \in {0, 1})'
    BY OnItsWayTypes, PTL
  <2> QED
    BY <2>1 DEF OnItsWay
<1>3. /\ line \in Seq(Messages) /\ queue \in Seq(Tasks) /\ out \in Seq(Commands)
      /\ held \in [Consumers -> Tasks \cup {NoTask}]
  BY DEF Types, PortTypes, FrameTypes
<1>4. (UNCHANGED line => L' = L) /\ (UNCHANGED queue => Q' = Q)
      /\ (UNCHANGED message => InHand' = InHand) /\ (UNCHANGED held => Sending' = Sending)
  BY DEF Count, Places, InHand, Sending
<1> HIDE DEF L, Q
<1>5. ASSUME NEW f \in Frames, CompleteFrame(f) PROVE FALSE
  <2>1. queue' = Append(queue, f) /\ UNCHANGED <<held, out, line, message>>
    BY <1>5 DEF CompleteFrame, Queue!PushBack, portVars, linkVars
  <2>2. Q' = Q + One(f \in {Telemetry}) /\ f # Telemetry
    <3>1. f \in Tasks /\ f # Telemetry
      BY FrameAssumption DEF Tasks
    <3>2. Count(Append(queue, f), {Telemetry}) = Count(queue, {Telemetry}) + One(f \in {Telemetry})
      BY <1>3, <3>1, CountAppend
    <3> QED
      BY <2>1, <3>1, <3>2 DEF Q
  <2> QED
    BY <1>1, <1>2, <1>4, <2>1, <2>2 DEF One
<1>6. CASE TakeTask
  <2>1. /\ queue # <<>> /\ queue' = Tail(queue) /\ held'[Sender] = Head(queue)
        /\ held[Sender] = NoTask /\ UNCHANGED <<out, line, message>>
    BY <1>3, <1>6 DEF TakeTask, Queue!Take, portVars, linkVars, Consumers
  <2>2. Q = Q' + One(Head(queue) \in {Telemetry})
    BY <1>3, <2>1, CountTail DEF Q
  <2>3. Sending = 0 /\ Sending' = One(Head(queue) \in {Telemetry})
    BY <2>1 DEF Sending, One, NoTask, Telemetry
  <2> QED
    BY <1>1, <1>2, <1>4, <2>1, <2>2, <2>3
<1>7. CASE WriteCommand
  <2>1. lock = Sender /\ Len(out)' = Len(out) + 1 /\ UNCHANGED <<line, message, queue, held>>
    BY <1>3, <1>7 DEF WriteCommand, Port!Write, Port!Unlock, queueVars, linkVars
  <2> QED
    BY <1>1, <1>2, <1>4, <2>1
<1>8. CASE Requeue \/ SendTelemetry
  <2>1. held'[Sender] = NoTask /\ UNCHANGED <<out, line, message, queue>>
    BY <1>3, <1>8 DEF Requeue, SendTelemetry, Queue!Finish, portVars, linkVars, Consumers
  <2>2. Sending' = 0
    BY <2>1 DEF Sending, One, NoTask, Telemetry
  <2> QED
    BY <1>1, <1>2, <1>4, <2>1, <2>2
<1>9. CASE Dispatch
  <2>1. /\ message' = Link!NoMessage /\ UNCHANGED <<out, line, held>>
        /\ IF message.kind \in Link!Telemetry /\ config.toObc = 1
           THEN queue' = <<Telemetry>> \o queue
           ELSE UNCHANGED queue
    BY <1>9 DEF Dispatch, Link!Dispatch, Queue!PushFront, queueVars, portVars
  <2>2. InHand' = 0
    BY <2>1 DEF InHand, One, Link!NoMessage, Link!Telemetry
  <2>3. CASE message.kind \in Link!Telemetry /\ config.toObc = 1
    <3>1. Q' = Q + One(Telemetry \in {Telemetry})
      <4>1. Count(<<Telemetry>> \o queue, {Telemetry})
            = Count(queue, {Telemetry}) + One(Telemetry \in {Telemetry})
        BY <1>3, CountFront DEF Tasks
      <4> QED
        BY <2>1, <2>3, <4>1 DEF Q
    <3>2. InHand = 1
      BY <2>3 DEF InHand, One
    <3> QED
      BY <1>1, <1>2, <1>4, <2>1, <2>2, <3>1, <3>2 DEF One
  <2>4. CASE UNCHANGED queue
    BY <1>1, <1>2, <1>4, <2>1, <2>2, <2>4
  <2> QED
    BY <2>1, <2>3, <2>4
<1>10. CASE Read
  <2>1. UNCHANGED <<out, queue, held>>
    BY <1>10 DEF Read, Port!ReadByte, Port!ReadLastByte, queueVars
  <2>2. CASE Port!ReadByte(Reader) /\ Link!ReadNothing
    <3>1. UNCHANGED <<line, message>>
      BY <2>2 DEF Port!ReadByte, Link!ReadNothing
    <3> QED
      BY <1>1, <1>2, <1>4, <2>1, <3>1
  <2>3. CASE Port!ReadLastByte(Reader) /\ Link!ReadMessage(Head(line))
    <3>1. line # <<>> /\ line' = Tail(line) /\ message' = Head(line)
      BY <2>3 DEF Port!ReadLastByte, Link!ReadMessage
    <3>2. L = L' + One(Head(line) \in Answers)
      BY <1>3, <3>1, CountTail DEF L, Answers
    <3>3. InHand' = One(Head(line) \in Answers)
      <4>1. Head(line) \in Messages
        BY <1>3, <3>1, HeadTailProperties
      <4> QED
        BY <3>1, <4>1 DEF InHand, Answers, Link!Telemetry
    <3>4. L = L' + InHand'
      BY <3>2, <3>3
    <3>5. Len(out)' = Len(out) /\ Q' = Q /\ Sending' = Sending
      BY <1>4, <2>1
    <3>6. Outstanding = Len(out) + (L' + InHand') + InHand + Q + Sending
      BY <1>1, <3>4
    <3>7. Outstanding' = Len(out) + L' + InHand' + Q + Sending
      BY <1>2, <3>5
    <3>8. /\ Len(out) \in Nat /\ L' \in Nat /\ InHand \in Nat /\ InHand' \in Nat
          /\ Q \in Nat /\ Sending \in Nat
      BY <1>1, <1>2
    <3>9. \A o, l, h, i, q, x \in Nat : ~(o + l + h + q + x > o + (l + h) + i + q + x)
      OBVIOUS
    <3> QED
      BY <3>6, <3>7, <3>8, <3>9
  <2> QED
    BY <1>10, <2>2, <2>3 DEF Read
<1>11. ASSUME NEW d \in Devices, Heartbeat(d) \/ Answer(d) \/ Volunteer(d)
       PROVE  Outstanding' = Outstanding + 1 /\ Unasked
  <2> DEFINE m(kind) == [sys |-> d[1], comp |-> d[2], kind |-> kind]
  <2>1. \A kind \in Kinds : m(kind) \in Messages
    BY DEF Messages
  <2>2. ASSUME NEW kind \in Kinds, line' = Append(line, m(kind))
        PROVE  L' = L + One(kind \in Link!Telemetry)
    <3>1. L' = L + One(m(kind) \in Answers)
      BY <1>3, <2>1, <2>2, CountAppend DEF L, Answers
    <3>2. m(kind) \in Answers <=> kind \in Link!Telemetry
      BY <2>1 DEF Answers
    <3> QED
      BY <3>1, <3>2
  <2>3. CASE Heartbeat(d)
    <3>1. line' = Append(line, m("heartbeat")) /\ UNCHANGED <<out, message, queue, held>>
      BY <2>3 DEF Heartbeat, Say, linkVars, queueVars
    <3>2. L' = L
      <4>1. L' = L + One("heartbeat" \in Link!Telemetry)
        BY <2>2, <3>1 DEF Kinds
      <4> QED
        BY <1>1, <4>1 DEF One, Link!Telemetry
    <3> QED
      BY <1>1, <1>2, <1>4, <3>1, <3>2
  <2>4. CASE Answer(d)
    <3>1. /\ out # <<>> /\ out' = Tail(out) /\ line' = Append(line, m(Head(out).kind))
          /\ UNCHANGED <<message, queue, held>>
      BY <2>4 DEF Answer, Say, linkVars, queueVars
    <3>2. Head(out).kind \in Link!Telemetry /\ Len(out)' = Len(out) - 1
      <4>1. Head(out) \in Commands
        BY <1>3, <3>1, HeadTailProperties
      <4>2. Len(Tail(out)) = Len(out) - 1
        BY <1>3, <3>1, HeadTailProperties
      <4> QED
        BY <3>1, <4>1, <4>2 DEF Commands
    <3>3. L' = L + 1
      BY <2>2, <3>1, <3>2 DEF Kinds, One
    <3> QED
      BY <1>1, <1>2, <1>4, <3>1, <3>2, <3>3
  <2>5. CASE Volunteer(d)
    <3>1. PICK kind \in Link!Telemetry :
            line' = Append(line, m(kind)) /\ UNCHANGED <<out, message, queue, held>>
      BY <2>5 DEF Volunteer, Say, linkVars, queueVars
    <3>2. L' = L + 1
      BY <2>2, <3>1 DEF Kinds, One
    <3>3. Unasked
      BY <2>5 DEF Unasked
    <3> QED
      BY <1>1, <1>2, <1>4, <3>1, <3>2, <3>3
  <2> QED
    BY <1>11, <2>3, <2>4, <2>5
<1>12. CASE DropCommand
  <2>1. Len(out)' = Len(out) - 1 /\ UNCHANGED <<line, message, queue, held>>
    BY <1>3, <1>12, HeadTailProperties DEF DropCommand, linkVars, queueVars
  <2> QED
    BY <1>1, <1>2, <1>4, <2>1
<1>13. CASE UNCHANGED round
  BY <1>1, <1>2, <1>4, <1>13
<1> QED
  BY <1>5, <1>6, <1>7, <1>8, <1>9, <1>10, <1>11, <1>12, <1>13, RoundSteps

\* Whatever the number of frames and devices, whatever is lost on the line and
\* however the reader, the queue and saveData take turns: only a request that
\* saveData writes with the port's lock, or a message that a device sends
\* unasked, adds to the telemetry on its way, and it adds one.  So no message
\* is handed to the OBC twice.
THEOREM AnsweredAtMostOnce == Spec => AnsweredOnce
<1>1. Types /\ Types' /\ [Next]_vars
      => (Outstanding' > Outstanding =>
            Outstanding' = Outstanding + 1 /\ (lock = Sender \/ Unasked))
  BY AnsweredOnceStep
<1>2. Types /\ Types' /\ [Next]_vars
      => [Outstanding' > Outstanding =>
            Outstanding' = Outstanding + 1 /\ (lock = Sender \/ Unasked)]_vars
  BY <1>1
<1> QED
  BY <1>2, TypesInvariant, PTL DEF Spec, AnsweredOnce
=============================================================================
