---------------------------- MODULE FunctionQueue ----------------------------
(***************************************************************************)
(* The work queue of include/function_queue.hpp.  Every functionQueue      *)
(* object shares one static deque, one static mutex and one quit flag.     *)
(* The camera's event loop pushes at the back, the MAVLink reader at the   *)
(* front; the thread detached by startSendingLoop runs the tasks.          *)
(*                                                                         *)
(* A push and a pop are two steps each, the lock and the unlock: a push    *)
(* computes the new deque from the one it found when it took the lock, so  *)
(* a missing lock loses or repeats tasks.  The test for emptiness in       *)
(* runOne is made without the lock.  The project is compiled without       *)
(* optimisation (CMakeLists.txt gives no -O), so each test reads memory    *)
(* again; while a push is under way it may see the deque before or after.  *)
(***************************************************************************)
EXTENDS Naturals, Sequences

CONSTANTS
  BackPushers,   \* threads that call push_back_function
  FrontPushers,  \* threads that call push_front_function
  Consumers,     \* threads that execute runLoop
  Tasks,         \* the functions that can be queued
  NoTask,        \* an empty std::function
  Nobody         \* the mutex is free

Pushers == BackPushers \cup FrontPushers

ASSUME NoTaskAssumption == NoTask \notin Tasks
ASSUME ThreadAssumption ==
  /\ Nobody \notin Pushers \cup Consumers
  /\ Pushers \cap Consumers = {}
  /\ BackPushers \cap FrontPushers = {}

\* main calls startSendingLoop once: two consumers could both see the last
\* task and pop twice.
ASSUME SingleConsumer == \A c, d \in Consumers : c = d

VARIABLES
  queue,   \* function_queue
  mutex,   \* the thread that holds function_queue_mutex
  push,    \* the task each pusher is adding, and the deque it adds it to
  quit,    \* quit_signal
  pc,      \* where each consumer is in runLoop / runOne
  held     \* tempFunc of each consumer

vars == <<queue, mutex, push, quit, pc, held>>

Idle == [task |-> NoTask, base |-> <<>>]
ConsumerPCs == {"off", "begin", "test", "check", "lock", "unlock", "run", "exited"}

Init ==
  /\ queue = <<>>
  /\ mutex = Nobody
  /\ push = [p \in Pushers |-> Idle]
  /\ quit = FALSE
  /\ pc = [c \in Consumers |-> "off"]
  /\ held = [c \in Consumers |-> NoTask]

----------------------------------------------------------------------------
(* push_back_function and push_front_function.                             *)

\* Mutant: the lock_guard is missing.
BeginPush_NoLock(p, t) ==
  /\ push[p] = Idle
  /\ push' = [push EXCEPT ![p] = [task |-> t, base |-> queue]]
  /\ mutex' = p
  /\ UNCHANGED <<queue, quit, pc, held>>

BeginPush(p, t) ==
  /\ push[p] = Idle
  /\ mutex = Nobody
  /\ mutex' = p
  /\ push' = [push EXCEPT ![p] = [task |-> t, base |-> queue]]
  /\ UNCHANGED <<queue, quit, pc, held>>

\* Mutant: the std::function was moved from before it is queued.
EndPush_MovedFrom(p) ==
  /\ push[p] # Idle
  /\ queue' = Append(push[p].base, NoTask)
  /\ mutex' = Nobody
  /\ push' = [push EXCEPT ![p] = Idle]
  /\ UNCHANGED <<quit, pc, held>>

EndPush(p) ==
  /\ push[p] # Idle
  /\ queue' = IF p \in BackPushers
              THEN Append(push[p].base, push[p].task)
              ELSE <<push[p].task>> \o push[p].base
  /\ mutex' = Nobody
  /\ push' = [push EXCEPT ![p] = Idle]
  /\ UNCHANGED <<quit, pc, held>>

----------------------------------------------------------------------------
(* startSendingLoop, runLoop and runOne.                                   *)

Goto(c, from, to) ==
  /\ pc[c] = from
  /\ pc' = [pc EXCEPT ![c] = to]

StartSendingLoop(c) ==
  /\ Goto(c, "off", "begin")
  /\ UNCHANGED <<queue, mutex, push, quit, held>>

\* runLoop clears the flag before its first test, so an earlier quit is lost.
BeginLoop(c) ==
  /\ Goto(c, "begin", "test")
  /\ quit' = FALSE
  /\ UNCHANGED <<queue, mutex, push, held>>

\* Mutant: the flag is not looked at again.
TestQuit_Never(c) ==
  /\ Goto(c, "test", "check")
  /\ UNCHANGED <<queue, mutex, push, quit, held>>

TestQuit(c) ==
  /\ Goto(c, "test", IF quit THEN "exited" ELSE "check")
  /\ UNCHANGED <<queue, mutex, push, quit, held>>

\* function_queue.empty() without the lock: during a push the deque may
\* already look non-empty.
PushUnderWay == mutex \in Pushers
SeenEmpty == queue = <<>>
SeenNonEmpty == queue # <<>> \/ PushUnderWay

\* Mutant: runOne locks and pops without looking.
CheckEmpty_Skipped(c) ==
  /\ Goto(c, "check", "lock")
  /\ UNCHANGED <<queue, mutex, push, quit, held>>

CheckEmpty(c) ==
  /\ \/ SeenEmpty /\ Goto(c, "check", "test")
     \/ SeenNonEmpty /\ Goto(c, "check", "lock")
  /\ UNCHANGED <<queue, mutex, push, quit, held>>

LockFront(c) ==
  /\ Goto(c, "lock", "unlock")
  /\ mutex = Nobody
  /\ mutex' = c
  /\ held' = [held EXCEPT ![c] = Head(queue)]
  /\ UNCHANGED <<queue, push, quit>>

\* Mutant: the mutex is locked by hand and not unlocked.
PopFront_NoUnlock(c) ==
  /\ Goto(c, "unlock", "run")
  /\ queue' = Tail(queue)
  /\ UNCHANGED <<mutex, push, quit, held>>

PopFront(c) ==
  /\ Goto(c, "unlock", "run")
  /\ queue' = Tail(queue)
  /\ mutex' = Nobody
  /\ UNCHANGED <<push, quit, held>>

\* tempFunc() returns; the emptiness that runOne returns is not used.
RunTask(c) ==
  /\ Goto(c, "run", "test")
  /\ held' = [held EXCEPT ![c] = NoTask]
  /\ UNCHANGED <<queue, mutex, push, quit>>

Quit ==
  /\ quit' = TRUE
  /\ UNCHANGED <<queue, mutex, push, pc, held>>

----------------------------------------------------------------------------
(* A queued function is an object of its own: the environment pushes a     *)
(* task that is nowhere in the queue.                                      *)

InQueue(t) == \E i \in 1..Len(queue) : queue[i] = t

FreeTask(t) ==
  /\ ~InQueue(t)
  /\ \A c \in Consumers : held[c] # t
  /\ \A p \in Pushers : push[p].task # t

ConsumerStep(c) ==
  \/ StartSendingLoop(c) \/ BeginLoop(c) \/ TestQuit(c) \/ CheckEmpty(c)
  \/ LockFront(c) \/ PopFront(c) \/ RunTask(c)

Next ==
  \/ \E p \in Pushers, t \in Tasks : FreeTask(t) /\ BeginPush(p, t)
  \/ \E p \in Pushers : EndPush(p)
  \/ \E c \in Consumers : ConsumerStep(c)
  \/ Quit

Spec == Init /\ [][Next]_vars

\* Every thread that can take its next step keeps taking steps.
Fairness ==
  /\ \A p \in Pushers : WF_vars(EndPush(p))
  /\ \A c \in Consumers : WF_vars(ConsumerStep(c))

FairSpec == Spec /\ Fairness

----------------------------------------------------------------------------
(* Properties.                                                             *)

PushRecords == [task : Tasks \cup {NoTask}, base : Seq(Tasks)]

TypeOK ==
  /\ queue \in Seq(Tasks)
  /\ mutex \in Pushers \cup Consumers \cup {Nobody}
  /\ push \in [Pushers -> PushRecords]
  /\ quit \in BOOLEAN
  /\ pc \in [Consumers -> ConsumerPCs]
  /\ held \in [Consumers -> Tasks \cup {NoTask}]

\* runOne never takes the front of an empty deque, although it tests for
\* emptiness before it locks: a consumer that is about to lock a free mutex
\* finds a task, and one that has locked it still has that task to pop.
NoPopOnEmpty ==
  \A c \in Consumers :
    \/ pc[c] = "lock" /\ mutex = Nobody
    \/ pc[c] = "unlock"
    => queue # <<>>

\* The deque the consumers and pushers see is the atomic one: each push adds
\* its task to one end in one step, each task taken leaves the queue, and no
\* interleaving loses, repeats or reorders one.  A consumer has taken a task
\* when it pops it, between the move and the pop the task is still queued.
Taken == [c \in Consumers |-> IF pc[c] = "unlock" THEN NoTask ELSE held[c]]
Deque == INSTANCE TaskDeque WITH held <- Taken
DequeSpec == Deque!Spec

\* A queued task is run unless the loop is told to quit, once the MAVLink
\* reader has stopped pushing in front of it: the sending loop starves no
\* task by itself.
EveryTaskTaken ==
  (<>[](mutex \notin FrontPushers)) =>
    \A t \in Tasks : InQueue(t) ~> (~InQueue(t) \/ quit)

\* Told to quit after it has begun, the sending loop ends: with the task at
\* hand, not with the queue, even if it waits for the mutex at that moment.
\* A quit before runLoop clears the flag is forgotten.
QuitEndsLoop ==
  (<>[](mutex \notin FrontPushers)) =>
    \A c \in Consumers :
      quit /\ pc[c] \notin {"off", "begin"} ~> pc[c] = "exited"
=============================================================================
