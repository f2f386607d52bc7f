--------------------------- MODULE EventLoopProofs ---------------------------
(***************************************************************************)
(* The event loop strands no call but those posted in its gap, for any     *)
(* threads and calls.                                                      *)
(***************************************************************************)
EXTENDS EventLoop, SequenceTheorems, TLAPS

\* From the moment dispatchCalls is done with the list until the loop sleeps,
\* the list holds no call that was there before.
OnlyGapPosts == InGap \/ Asleep => Len(calls) <= gap

IInv == TypeOK /\ OnlyGapPosts

----------------------------------------------------------------------------

LEMMA InitIInv == Init => IInv
<1> SUFFICES ASSUME Init PROVE IInv
  OBVIOUS
<1> USE DEF Init
<1>1. TypeOK
  <2>1. calls \in Seq(Calls)
    BY EmptySeq
  <2>2. gap \in 0..MaxGapPosts
    BY GapAssumption
  <2> QED
    BY <2>1, <2>2 DEF TypeOK, LoopPCs
<1>2. OnlyGapPosts
  BY DEF OnlyGapPosts, InGap, Asleep
<1> QED
  BY <1>1, <1>2 DEF IInv

\* A post in the gap is counted; a post outside it is followed by an interrupt,
\* so the loop is not asleep.
LEMMA CallLaterIInv ==
  ASSUME IInv, NEW p \in Posters, NEW c \in Calls, CallLater(p, c)
  PROVE  IInv'
<1> USE DEF IInv, CallLater
<1>1. calls' \in Seq(Calls) /\ Len(calls') = Len(calls) + 1 /\ Len(calls) \in Nat
  BY AppendProperties, LenProperties DEF TypeOK
<1>2. TypeOK'
  <2>1. gap' \in 0..MaxGapPosts
    BY GapAssumption DEF TypeOK
  <2>2. tpc' \in [Threads -> {"idle", "interrupt"}]
    BY DEF TypeOK
  <2> QED
    BY <1>1, <2>1, <2>2 DEF TypeOK
<1>3. tpc'[p] = "interrupt" /\ p \in Threads
  BY DEF TypeOK, Threads
<1>4. ~Asleep'
  BY <1>3 DEF Asleep
<1>5. InGap' => Len(calls') <= gap'
  BY <1>1, GapAssumption DEF OnlyGapPosts, InGap, TypeOK
<1> QED
  BY <1>2, <1>4, <1>5 DEF OnlyGapPosts

LEMMA ExitIInv ==
  ASSUME IInv, NEW s \in Stoppers, Exit(s)
  PROVE  IInv'
<1> USE DEF IInv, Exit
<1>1. TypeOK'
  BY DEF TypeOK, Threads
<1>2. tpc'[s] = "interrupt" /\ s \in Threads
  BY DEF TypeOK, Threads
<1> QED
  BY <1>1, <1>2 DEF OnlyGapPosts, Asleep, InGap

LEMMA InterruptIInv ==
  ASSUME IInv, NEW t \in Threads, Interrupt(t)
  PROVE  IInv'
<1> USE DEF IInv, Interrupt
<1>1. TypeOK'
  BY DEF TypeOK
<1> QED
  BY <1>1 DEF OnlyGapPosts, Asleep, InGap

\* The call that leaves the list empty begins the gap.
LEMMA TakeCallIInv ==
  ASSUME IInv, TakeCall
  PROVE  IInv'
<1> USE DEF IInv, TakeCall
<1>1. Head(calls) \in Calls /\ Tail(calls) \in Seq(Calls)
  BY HeadTailProperties DEF TypeOK
<1>2. TypeOK'
  <2>1. gap' \in 0..MaxGapPosts
    BY GapAssumption DEF TypeOK
  <2>2. pc' \in LoopPCs
    BY DEF LoopPCs
  <2> QED
    BY <1>1, <2>1, <2>2 DEF TypeOK
<1>3. CASE Tail(calls) = <<>>
  <2>1. Len(calls') = 0 /\ gap' = 0
    BY <1>3, EmptySeq
  <2> HIDE DEF TakeCall, IInv
  <2>2. Len(calls') <= gap'
    BY <2>1
  <2> USE DEF IInv
  <2> QED
    BY <1>2, <2>2 DEF OnlyGapPosts
<1>4. CASE Tail(calls) # <<>>
  BY <1>2, <1>4 DEF OnlyGapPosts, InGap, Asleep
<1> QED
  BY <1>3, <1>4

LEMMA CallReturnsIInv ==
  ASSUME IInv, CallReturns
  PROVE  IInv'
<1> USE DEF IInv, CallReturns
<1>1. TypeOK'
  BY DEF TypeOK, LoopPCs
<1> QED
  BY <1>1 DEF OnlyGapPosts, InGap, Asleep

LEMMA EndDispatchIInv ==
  ASSUME IInv, EndDispatch
  PROVE  IInv'
<1> USE DEF IInv, EndDispatch
<1>1. TypeOK'
  BY GapAssumption DEF TypeOK, LoopPCs
<1>2. Len(calls') <= gap'
  BY EmptySeq
<1> QED
  BY <1>1, <1>2 DEF OnlyGapPosts

\* The loop falls asleep on the calls of the gap and no others.
LEMMA EnterLoopIInv ==
  ASSUME IInv, EnterLoop
  PROVE  IInv'
<1> USE DEF IInv, EnterLoop
<1>1. TypeOK'
  BY DEF TypeOK, LoopPCs
<1>2. Len(calls) <= gap
  BY DEF OnlyGapPosts, InGap
<1> QED
  BY <1>1, <1>2 DEF OnlyGapPosts

LEMMA OtherIInv ==
  ASSUME IInv,
         \/ Timeout \/ TimeoutTriggered \/ StartExec \/ TestExit \/ LeaveLoop
         \/ UNCHANGED vars
  PROVE  IInv'
<1> USE DEF IInv, Timeout, TimeoutTriggered, StartExec, TestExit, LeaveLoop, vars
<1>1. TypeOK'
  BY DEF TypeOK, LoopPCs
<1>2. OnlyGapPosts'
  BY DEF OnlyGapPosts, InGap, Asleep
<1> QED
  BY <1>1, <1>2

\* Every step keeps the invariant.
LEMMA NextIInv == IInv /\ [Next]_vars => IInv'
<1> SUFFICES ASSUME IInv, [Next]_vars
             PROVE  IInv'
  OBVIOUS
<1>1. ASSUME NEW p \in Posters, Post(p)
      PROVE  IInv'
  BY <1>1, CallLaterIInv DEF Post
<1>2. ASSUME NEW s \in Stoppers, Exit(s)
      PROVE  IInv'
  BY <1>2, ExitIInv
<1>3. ASSUME NEW t \in Threads, Interrupt(t)
      PROVE  IInv'
  BY <1>3, InterruptIInv
<1>4. CASE LoopStep
  BY <1>4, TakeCallIInv, CallReturnsIInv, EndDispatchIInv, EnterLoopIInv, OtherIInv
  DEF LoopStep
<1>5. CASE Timeout \/ TimeoutTriggered \/ StartExec \/ UNCHANGED vars
  BY <1>5, OtherIInv
<1> QED
  BY <1>1, <1>2, <1>3, <1>4, <1>5 DEF Next

THEOREM Invariance == Spec => []IInv
BY InitIInv, NextIInv, PTL DEF Spec

\* The variables of the event loop keep their types, and the posts of one gap
\* stay within their bound.
THEOREM TypeCorrect == Spec => []TypeOK
<1>1. IInv => TypeOK
  BY DEF IInv
<1> QED
  BY <1>1, Invariance, PTL

\* A loop that sleeps has left at most the calls of its gap in the list.
THEOREM SleepsOnGapOnly == Spec => []StrandedOnlyInGap
<1>1. IInv => StrandedOnlyInGap
  BY DEF IInv, OnlyGapPosts, StrandedOnlyInGap
<1> QED
  BY <1>1, Invariance, PTL
=============================================================================
