-------------------------- MODULE FunctionQueueProofs --------------------------
(***************************************************************************)
(* The work queue is safe for any number of pushers and one consumer.      *)
(***************************************************************************)
EXTENDS FunctionQueue, SequenceTheorems, TLAPS

\* A thread that is adding a task holds the mutex, and nobody has changed the
\* deque since it read it.
PushersHold ==
  \A p \in Pushers :
    /\ push[p] # Idle <=> mutex = p
    /\ push[p] # Idle => push[p].task \in Tasks /\ push[p].base = queue

\* The consumer that is popping holds the mutex and has the front of the deque.
ConsumerHolds ==
  \A c \in Consumers :
    /\ pc[c] = "unlock" <=> mutex = c
    /\ pc[c] = "unlock" => queue # <<>> /\ held[c] = Head(queue)

\* What the unlocked test for emptiness found stays true until the consumer
\* has the mutex: a task was there, or is about to be.
TestStaysTrue ==
  \A c \in Consumers : pc[c] = "lock" => queue # <<>> \/ mutex \in Pushers

HeldWhileBusy ==
  \A c \in Consumers :
    IF pc[c] \in {"unlock", "run"} THEN held[c] \in Tasks ELSE held[c] = NoTask

IInv ==
  /\ TypeOK
  /\ PushersHold
  /\ ConsumerHolds
  /\ TestStaysTrue
  /\ HeldWhileBusy

----------------------------------------------------------------------------

LEMMA IdleType == Idle \in PushRecords
BY DEF Idle, PushRecords

\* The invariant holds in the first state.
LEMMA InitIInv == Init => IInv
<1> SUFFICES ASSUME Init PROVE IInv
  OBVIOUS
<1> USE DEF Init
<1>1. TypeOK
  BY IdleType, EmptySeq DEF TypeOK, ConsumerPCs
<1>2. PushersHold
  BY ThreadAssumption DEF PushersHold
<1>3. ConsumerHolds
  BY ThreadAssumption DEF ConsumerHolds
<1>4. TestStaysTrue /\ HeldWhileBusy
  BY DEF TestStaysTrue, HeldWhileBusy
<1> QED
  BY <1>1, <1>2, <1>3, <1>4 DEF IInv

\* BeginPush keeps the invariant: the mutex was free, so the deque it reads is
\* the one it will replace.
LEMMA BeginPushIInv ==
  ASSUME IInv, NEW p \in Pushers, NEW t \in Tasks, BeginPush(p, t)
  PROVE  IInv'
<1> USE DEF IInv, BeginPush
<1>1. [task |-> t, base |-> queue] # Idle
  BY NoTaskAssumption DEF Idle
<1>2. TypeOK'
  BY DEF TypeOK, PushRecords
<1>3. PushersHold'
  BY <1>1, ThreadAssumption DEF PushersHold, TypeOK
<1>4. ConsumerHolds'
  BY ThreadAssumption DEF ConsumerHolds, Pushers
<1>5. TestStaysTrue'
  BY DEF TestStaysTrue
<1>6. HeldWhileBusy'
  BY DEF HeldWhileBusy
<1> QED
  BY <1>2, <1>3, <1>4, <1>5, <1>6

\* EndPush keeps the invariant: the deque it stores is not empty.
LEMMA EndPushIInv ==
  ASSUME IInv, NEW p \in Pushers, EndPush(p)
  PROVE  IInv'
<1> USE DEF IInv, EndPush
<1>1. /\ mutex = p
      /\ push[p].task \in Tasks
      /\ push[p].base = queue
      /\ queue \in Seq(Tasks)
  BY DEF PushersHold, TypeOK
<1>2. queue' \in Seq(Tasks) /\ queue' # <<>>
  <2>1. CASE p \in BackPushers
    BY <1>1, <2>1, AppendProperties
  <2>2. CASE p \notin BackPushers
    BY <1>1, <2>2, ConcatProperties
  <2> QED
    BY <2>1, <2>2
<1>3. TypeOK'
  BY <1>2, IdleType DEF TypeOK
<1>4. PushersHold'
  BY <1>1, ThreadAssumption DEF PushersHold, TypeOK
<1>5. ConsumerHolds'
  BY <1>1, ThreadAssumption DEF ConsumerHolds
<1>6. TestStaysTrue'
  BY <1>2 DEF TestStaysTrue
<1>7. HeldWhileBusy'
  BY DEF HeldWhileBusy
<1> QED
  BY <1>3, <1>4, <1>5, <1>6, <1>7

\* The steps of the consumer that touch neither the deque nor the mutex.
LEMMA UnlockedIInv ==
  ASSUME IInv, NEW c \in Consumers,
         StartSendingLoop(c) \/ BeginLoop(c) \/ TestQuit(c) \/ CheckEmpty(c)
  PROVE  IInv'
<1> USE DEF IInv, StartSendingLoop, BeginLoop, TestQuit, CheckEmpty, Goto
<1>1. TypeOK'
  BY DEF TypeOK, ConsumerPCs
<1>2. PushersHold'
  BY DEF PushersHold
<1>3. ConsumerHolds'
  BY DEF ConsumerHolds, TypeOK
<1>4. TestStaysTrue'
  BY DEF TestStaysTrue, TypeOK, SeenNonEmpty, PushUnderWay
<1>5. HeldWhileBusy'
  BY DEF HeldWhileBusy, TypeOK
<1> QED
  BY <1>1, <1>2, <1>3, <1>4, <1>5

\* A consumer that locks finds a task: the test it made still holds, and no
\* push can be under way.
LEMMA LockFrontIInv ==
  ASSUME IInv, NEW c \in Consumers, LockFront(c)
  PROVE  IInv'
<1> USE DEF IInv, LockFront, Goto
<1>1. queue # <<>> /\ Head(queue) \in Tasks
  BY ThreadAssumption, HeadTailProperties DEF TestStaysTrue, TypeOK
<1>2. TypeOK'
  BY <1>1 DEF TypeOK, ConsumerPCs
<1>3. PushersHold'
  BY ThreadAssumption DEF PushersHold
<1>4. ConsumerHolds'
  BY <1>1, ThreadAssumption DEF ConsumerHolds, TypeOK
<1>5. TestStaysTrue'
  BY <1>1 DEF TestStaysTrue
<1>6. HeldWhileBusy'
  BY <1>1 DEF HeldWhileBusy, TypeOK
<1> QED
  BY <1>2, <1>3, <1>4, <1>5, <1>6

\* The pop empties the deque for nobody else: there is one consumer.
LEMMA PopFrontIInv ==
  ASSUME IInv, NEW c \in Consumers, PopFront(c)
  PROVE  IInv'
<1> USE DEF IInv, PopFront, Goto
<1>1. mutex = c /\ queue # <<>>
  BY DEF ConsumerHolds
<1>2. TypeOK'
  BY <1>1, HeadTailProperties DEF TypeOK, ConsumerPCs
<1>3. PushersHold'
  BY <1>1, ThreadAssumption DEF PushersHold
<1>4. ConsumerHolds'
  BY <1>1, ThreadAssumption DEF ConsumerHolds, TypeOK
<1>5. TestStaysTrue'
  BY SingleConsumer DEF TestStaysTrue, TypeOK
<1>6. HeldWhileBusy'
  BY DEF HeldWhileBusy, TypeOK
<1> QED
  BY <1>2, <1>3, <1>4, <1>5, <1>6

LEMMA RunTaskIInv ==
  ASSUME IInv, NEW c \in Consumers, RunTask(c)
  PROVE  IInv'
<1> USE DEF IInv, RunTask, Goto
<1>1. TypeOK'
  BY DEF TypeOK, ConsumerPCs
<1>2. PushersHold'
  BY DEF PushersHold
<1>3. ConsumerHolds'
  BY DEF ConsumerHolds, TypeOK
<1>4. TestStaysTrue'
  BY DEF TestStaysTrue, TypeOK
<1>5. HeldWhileBusy'
  BY DEF HeldWhileBusy, TypeOK
<1> QED
  BY <1>1, <1>2, <1>3, <1>4, <1>5

LEMMA IdleIInv ==
  ASSUME IInv, Quit \/ UNCHANGED vars
  PROVE  IInv'
BY DEF IInv, Quit, vars, TypeOK, PushersHold, ConsumerHolds, TestStaysTrue, HeldWhileBusy

\* Every step keeps the invariant.
LEMMA NextIInv == IInv /\ [Next]_vars => IInv'
<1> SUFFICES ASSUME IInv, [Next]_vars
             PROVE  IInv'
  OBVIOUS
<1>1. ASSUME NEW p \in Pushers, NEW t \in Tasks, BeginPush(p, t)
      PROVE  IInv'
  BY <1>1, BeginPushIInv
<1>2. ASSUME NEW p \in Pushers, EndPush(p)
      PROVE  IInv'
  BY <1>2, EndPushIInv
<1>3. ASSUME NEW c \in Consumers, ConsumerStep(c)
      PROVE  IInv'
  BY <1>3, UnlockedIInv, LockFrontIInv, PopFrontIInv, RunTaskIInv DEF ConsumerStep
<1>4. CASE Quit \/ UNCHANGED vars
  BY <1>4, IdleIInv
<1> QED
  BY <1>1, <1>2, <1>3, <1>4 DEF Next

\* The inductive invariant holds in every reachable state.
THEOREM Invariance == Spec => []IInv
BY InitIInv, NextIInv, PTL DEF Spec

\* The variables of the queue keep their types, for any threads and tasks.
THEOREM TypeCorrect == Spec => []TypeOK
<1>1. IInv => TypeOK
  BY DEF IInv
<1> QED
  BY <1>1, Invariance, PTL

\* runOne never reads or pops the front of an empty deque, although it tests
\* before it locks.
THEOREM NeverPopsEmpty == Spec => []NoPopOnEmpty
<1>1. IInv => NoPopOnEmpty
  BY ThreadAssumption DEF IInv, NoPopOnEmpty, TestStaysTrue, ConsumerHolds
<1> QED
  BY <1>1, Invariance, PTL

----------------------------------------------------------------------------
(* The refinement of TaskDeque.                                            *)

LEMMA TakenType == IInv => Taken \in [Consumers -> Tasks \cup {NoTask}]
BY DEF IInv, TypeOK, Taken

LEMMA InitDeque == Init => Deque!Init
BY DEF Init, Deque!Init, Taken

LEMMA PushDeque ==
  ASSUME IInv, NEW p \in Pushers, EndPush(p)
  PROVE  Deque!Next
<1>1. push[p].task \in Tasks /\ push[p].base = queue
  BY DEF IInv, PushersHold, EndPush
<1>2. Taken' = Taken
  BY DEF EndPush, Taken
<1>3. Deque!PushBack(push[p].task) \/ Deque!PushFront(push[p].task)
  BY <1>1, <1>2 DEF EndPush, Deque!PushBack, Deque!PushFront
<1> QED
  BY <1>1, <1>3 DEF Deque!Next

\* The pop is where a task leaves the queue.
LEMMA TakeDeque ==
  ASSUME IInv, NEW c \in Consumers, PopFront(c)
  PROVE  Deque!Next
<1>1. /\ pc[c] = "unlock" /\ pc' = [pc EXCEPT ![c] = "run"]
      /\ queue # <<>> /\ held[c] = Head(queue) /\ held' = held
      /\ queue' = Tail(queue)
  BY DEF IInv, ConsumerHolds, PopFront, Goto
<1>2. Taken[c] = NoTask
  BY <1>1 DEF Taken
<1>3. Taken' = [Taken EXCEPT ![c] = Head(queue)]
  BY <1>1 DEF IInv, TypeOK, Taken
<1>4. Deque!Take(c)
  BY <1>1, <1>2, <1>3 DEF Deque!Take
<1> QED
  BY <1>4 DEF Deque!Next

LEMMA FinishDeque ==
  ASSUME IInv, NEW c \in Consumers, RunTask(c)
  PROVE  Deque!Next
<1>1. /\ pc[c] = "run" /\ pc' = [pc EXCEPT ![c] = "test"]
      /\ held' = [held EXCEPT ![c] = NoTask]
      /\ held[c] # NoTask /\ queue' = queue
  BY NoTaskAssumption DEF IInv, HeldWhileBusy, RunTask, Goto
<1>2. Taken[c] # NoTask
  BY <1>1 DEF Taken
<1>3. Taken' = [Taken EXCEPT ![c] = NoTask]
  BY <1>1 DEF IInv, TypeOK, Taken
<1>4. Deque!Finish(c)
  BY <1>1, <1>2, <1>3 DEF Deque!Finish
<1> QED
  BY <1>4 DEF Deque!Next

\* Locking moves the task out of the front element, which is still queued.
LEMMA LockDeque ==
  ASSUME IInv, NEW c \in Consumers, LockFront(c)
  PROVE  UNCHANGED Deque!dequeVars
<1>1. /\ pc[c] = "lock" /\ pc' = [pc EXCEPT ![c] = "unlock"]
      /\ held[c] = NoTask /\ held' = [held EXCEPT ![c] = Head(queue)]
      /\ queue' = queue
  BY DEF IInv, HeldWhileBusy, LockFront, Goto
<1>2. Taken' = Taken
  BY <1>1 DEF IInv, TypeOK, Taken
<1> QED
  BY <1>1, <1>2 DEF Deque!dequeVars

LEMMA OtherDeque ==
  ASSUME IInv, NEW c \in Consumers,
         StartSendingLoop(c) \/ BeginLoop(c) \/ TestQuit(c) \/ CheckEmpty(c)
  PROVE  UNCHANGED Deque!dequeVars
<1>1. /\ pc[c] # "unlock" /\ held' = held /\ queue' = queue
      /\ \E to \in ConsumerPCs \ {"unlock"} : pc' = [pc EXCEPT ![c] = to]
  BY DEF StartSendingLoop, BeginLoop, TestQuit, CheckEmpty, Goto, ConsumerPCs
<1>2. Taken' = Taken
  BY <1>1 DEF IInv, TypeOK, Taken
<1> QED
  BY <1>1, <1>2 DEF Deque!dequeVars

\* Every step of the queue is a step of the atomic deque or changes nothing.
LEMMA NextDeque == IInv /\ [Next]_vars => [Deque!Next]_(Deque!dequeVars)
<1> SUFFICES ASSUME IInv, [Next]_vars
             PROVE  Deque!Next \/ UNCHANGED Deque!dequeVars
  OBVIOUS
<1>1. ASSUME NEW p \in Pushers, NEW t \in Tasks, BeginPush(p, t)
      PROVE  UNCHANGED Deque!dequeVars
  BY <1>1 DEF BeginPush, Deque!dequeVars, Taken
<1>2. ASSUME NEW p \in Pushers, EndPush(p)
      PROVE  Deque!Next
  BY <1>2, PushDeque
<1>3. ASSUME NEW c \in Consumers, ConsumerStep(c)
      PROVE  Deque!Next \/ UNCHANGED Deque!dequeVars
  BY <1>3, TakeDeque, FinishDeque, LockDeque, OtherDeque DEF ConsumerStep
<1>4. CASE Quit \/ UNCHANGED vars
  BY <1>4 DEF Quit, vars, Deque!dequeVars, Taken
<1> QED
  BY <1>1, <1>2, <1>3, <1>4 DEF Next

\* The queue of function_queue.hpp, with its two-step locking and its unlocked
\* test, behaves as a deque whose operations are atomic.
THEOREM ImplementsDeque == Spec => DequeSpec
BY Invariance, InitDeque, NextDeque, PTL DEF Spec, DequeSpec, Deque!Spec
=============================================================================
