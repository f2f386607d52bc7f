------------------------------ MODULE TaskDeque ------------------------------
(***************************************************************************)
(* What the work queue of include/function_queue.hpp promises the threads  *)
(* that use it: one double-ended queue of tasks, filled at either end and  *)
(* emptied from the front, in which every operation is a single step.      *)
(* FunctionQueue.tla, which follows the header lock by lock, implements    *)
(* this module; SimpleCam.tla is built on it.                              *)
(***************************************************************************)
EXTENDS Naturals, Sequences

CONSTANTS
  Consumers,   \* threads that execute functionQueue::runLoop
  Tasks,       \* the std::function objects that can be queued
  NoTask       \* an empty tempFunc

VARIABLES
  queue,       \* function_queue, front first
  held         \* the task each consumer has taken and not finished

dequeVars == <<queue, held>>

PushBack(t) ==
  /\ queue' = Append(queue, t)
  /\ UNCHANGED held

PushFront(t) ==
  /\ queue' = <<t>> \o queue
  /\ UNCHANGED held

Take(c) ==
  /\ held[c] = NoTask
  /\ queue # <<>>
  /\ held' = [held EXCEPT ![c] = Head(queue)]
  /\ queue' = Tail(queue)

Finish(c) ==
  /\ held[c] # NoTask
  /\ held' = [held EXCEPT ![c] = NoTask]
  /\ UNCHANGED queue

Init ==
  /\ queue = <<>>
  /\ held = [c \in Consumers |-> NoTask]

Next ==
  \/ \E t \in Tasks : PushBack(t) \/ PushFront(t)
  \/ \E c \in Consumers : Take(c) \/ Finish(c)

Spec == Init /\ [][Next]_dequeVars
=============================================================================
