------------------------------ MODULE SerialPort ------------------------------
(***************************************************************************)
(* The serial port to the autopilot of include/port.hpp.  One lock covers  *)
(* reading and writing: _read_port holds it across a read() that blocks    *)
(* until a byte arrives, so a writer waits for the other side to speak.    *)
(* read_message reads one byte per call and hands it to the MAVLink parser,*)
(* which returns a message with its last byte.                             *)
(*                                                                         *)
(* The line is `line', the messages on their way to the program, and `out',*)
(* those written and not yet received by the other side.  The bytes of a   *)
(* message are only counted.  This module has no behaviour of its own:     *)
(* Raspy.tla composes its actions with the threads that use the port.      *)
(***************************************************************************)
EXTENDS Naturals, Sequences

CONSTANTS
  NoThread,   \* the lock is free
  MsgBytes    \* bytes of a message

VARIABLES
  opened,   \* is_open
  lock,     \* the thread that holds the port's lock
  line,     \* messages sent to the program
  parsed,   \* bytes of the first of them that the parser has
  out       \* messages written by the program

lineVars == <<line, parsed, out>>
serialVars == <<opened, lock, lineVars>>

Init ==
  /\ opened = FALSE
  /\ lock = NoThread
  /\ line = <<>>
  /\ parsed = 0
  /\ out = <<>>

\* The port is open and set up; otherwise start throws, and main dies of it.
Start ==
  /\ opened' = TRUE
  /\ UNCHANGED <<lock, lineVars>>

Lock(t) ==
  /\ lock = NoThread
  /\ lock' = t
  /\ UNCHANGED <<opened, lineVars>>

Unlock(t) ==
  /\ lock = t
  /\ lock' = NoThread

\* read() returns a byte inside a message: read_message returns 0.
ReadByte(t) ==
  /\ Unlock(t)
  /\ line # <<>>
  /\ parsed + 1 < MsgBytes
  /\ parsed' = parsed + 1
  /\ UNCHANGED <<opened, line, out>>

\* Mutant: the parser goes on counting.
ReadLastByte_NotReset(t) ==
  /\ Unlock(t)
  /\ line # <<>>
  /\ parsed + 1 = MsgBytes
  /\ parsed' = MsgBytes
  /\ line' = Tail(line)
  /\ UNCHANGED <<opened, out>>

\* read() returns the last byte of a message: read_message returns 1.
ReadLastByte(t) ==
  /\ Unlock(t)
  /\ line # <<>>
  /\ parsed + 1 = MsgBytes
  /\ parsed' = 0
  /\ line' = Tail(line)
  /\ UNCHANGED <<opened, out>>

\* Mutant: _read_port returns on an error without unlocking.
ReadFails_KeepsLock(t) ==
  /\ lock = t
  /\ UNCHANGED serialVars

\* read() fails: read_message returns 0 and nothing is lost.
ReadFails(t) ==
  /\ Unlock(t)
  /\ UNCHANGED <<opened, lineVars>>

\* write() and tcdrain().
Write(t, m) ==
  /\ Unlock(t)
  /\ out' = Append(out, m)
  /\ UNCHANGED <<opened, line, parsed>>
=============================================================================
