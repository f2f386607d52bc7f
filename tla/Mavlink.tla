------------------------------- MODULE Mavlink -------------------------------
(***************************************************************************)
(* The connection to the autopilot of src/mavlink.cpp: start, which runs   *)
(* in main's thread and waits until the read thread has seen a message,    *)
(* and then takes its ids; and the read thread, which stores the ids of    *)
(* every message and hands GPS and attitude to the work queue.  Neither    *)
(* uses a lock: the ids are published one by one and copied one by one.    *)
(*                                                                         *)
(* A message is its origin and its kind.  This module has no behaviour of  *)
(* its own: Raspy.tla composes it with the serial port and the work queue. *)
(***************************************************************************)
EXTENDS Naturals

VARIABLES
  handshake,    \* where main's thread is in start
  rpc,          \* where the read thread is in read_thread and read_message
  message,      \* the message it has received
  current,      \* current_messages: its sysid and compid
  systemId,     \* system_id
  autopilotId,  \* autopilot_id
  timeToExit,   \* time_to_exit
  reading       \* reading_status

startVars == <<handshake, systemId, autopilotId>>
readVars == <<rpc, message, current, reading>>
mavlinkVars == <<startVars, readVars, timeToExit>>

Telemetry == {"gps", "attitude"}
NoMessage == [sys |-> 0, comp |-> 0, kind |-> "none"]

\* The constructor mavlink: no ids yet.
Init ==
  /\ handshake = "off"
  /\ rpc = "off"
  /\ message = NoMessage
  /\ current = [sys |-> 0, comp |-> 0]
  /\ systemId = 0
  /\ autopilotId = 0
  /\ timeToExit = FALSE
  /\ reading = FALSE

----------------------------------------------------------------------------
(* start, in main's thread, and stop.                                      *)

Goto(from, to) == handshake = from /\ handshake' = to

\* start finds the port open and starts the read thread.
StartReadThread ==
  /\ Goto("off", "wait")
  /\ rpc' = "begin"
  /\ UNCHANGED <<message, current, systemId, autopilotId, timeToExit, reading>>

Connected ==
  /\ current.sys # 0
  /\ Goto("wait", "system")
  /\ UNCHANGED <<systemId, autopilotId, timeToExit, readVars>>

\* Nothing was heard so far.
NotConnected ==
  /\ current.sys = 0
  /\ Goto("wait", "check")
  /\ UNCHANGED <<systemId, autopilotId, timeToExit, readVars>>

\* A second look, at another variable: after stop, start returns without ids,
\* even if something was heard in between.
CheckExit ==
  /\ Goto("check", IF timeToExit THEN "returned" ELSE "wait")
  /\ UNCHANGED <<systemId, autopilotId, timeToExit, readVars>>

CopySystemId ==
  /\ Goto("system", "component")
  /\ systemId' = IF systemId = 0 THEN current.sys ELSE systemId
  /\ UNCHANGED <<autopilotId, timeToExit, readVars>>

CopyAutopilotId ==
  /\ Goto("component", "returned")
  /\ autopilotId' = IF autopilotId = 0 THEN current.comp ELSE autopilotId
  /\ UNCHANGED <<systemId, timeToExit, readVars>>

Start == Connected \/ NotConnected \/ CheckExit \/ CopySystemId \/ CopyAutopilotId

Stop ==
  /\ timeToExit' = TRUE
  /\ UNCHANGED <<startVars, readVars>>

----------------------------------------------------------------------------
(* The read thread.  received_all is never set: read_message ends only     *)
(* when read_thread does.                                                  *)

ReaderGoto(from, to) == rpc = from /\ rpc' = to

BeginReading ==
  /\ ReaderGoto("begin", "test")
  /\ reading' = TRUE
  /\ UNCHANGED <<message, current, timeToExit, startVars>>

\* Mutant: read_message does not look at time_to_exit.
TestExit_Never ==
  /\ ReaderGoto("test", "lock")
  /\ UNCHANGED <<message, current, reading, timeToExit, startVars>>

TestExit ==
  /\ ReaderGoto("test", IF timeToExit THEN "ended" ELSE "lock")
  /\ reading' = ~timeToExit
  /\ UNCHANGED <<message, current, timeToExit, startVars>>

\* The read thread gets the lock of the port.
BeginRead ==
  /\ ReaderGoto("lock", "read")
  /\ UNCHANGED <<message, current, reading, timeToExit, startVars>>

\* read_message of the port returns 0.
ReadNothing ==
  /\ ReaderGoto("read", "test")
  /\ UNCHANGED <<message, current, reading, timeToExit, startVars>>

\* read_message of the port returns 1.
ReadMessage(m) ==
  /\ ReaderGoto("read", "sysid")
  /\ message' = m
  /\ UNCHANGED <<current, reading, timeToExit, startVars>>

PublishSysid ==
  /\ ReaderGoto("sysid", "compid")
  /\ current' = [current EXCEPT !.sys = message.sys]
  /\ UNCHANGED <<message, reading, timeToExit, startVars>>

PublishCompid ==
  /\ ReaderGoto("compid", "dispatch")
  /\ current' = [current EXCEPT !.comp = message.comp]
  /\ UNCHANGED <<message, reading, timeToExit, startVars>>

\* The switch: for telemetry the composition adds process_mavlink_message.
\* The message is a variable of the loop's body.
Dispatch ==
  /\ ReaderGoto("dispatch", "test")
  /\ message' = NoMessage
  /\ UNCHANGED <<current, reading, timeToExit, startVars>>

----------------------------------------------------------------------------
\* send_attitude_message and send_gps_message: MAV_CMD_REQUEST_MESSAGE.
Command(kind) == [sys |-> systemId, comp |-> autopilotId, kind |-> kind]
=============================================================================
