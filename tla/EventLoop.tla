------------------------------ MODULE EventLoop ------------------------------
(***************************************************************************)
(* The event loop of src/event_loop.cpp.  One thread executes exec: it     *)
(* runs the calls queued by callLater, then blocks in libevent's           *)
(* event_base_loop until another thread breaks the loop or the timer of    *)
(* timeout expires.  Other threads queue calls (callLater) or ask the loop *)
(* to end (exit).  Every critical section of lock_ is one step.            *)
(*                                                                         *)
(* libevent is not part of the repository.  event_base_loopbreak sets the  *)
(* flag `brk' of the base; event_base_loop clears the flag when it is      *)
(* entered and returns when it finds it set.  A break raised before the    *)
(* entry is therefore lost, together with the wake-up it stood for.        *)
(*                                                                         *)
(* dispatchCalls walks a std::list with an iterator that it moves past a   *)
(* call before it runs it.  While the last call of the list runs, the      *)
(* iterator is end(), and stays it whatever is pushed: a call posted then  *)
(* is left in the list.  The gap of this module is the time from there to  *)
(* event_base_loop, in which posts are stranded until the next wake-up.    *)
(***************************************************************************)
EXTENDS Naturals, Sequences, FiniteSets

CONSTANTS
  Calls,        \* the functions handed to callLater
  NoCall,       \* an empty std::function
  Posters,      \* threads that use callLater
  Stoppers,     \* threads other than the loop's that use exit
  MaxGapPosts   \* bound: calls posted in one gap

ASSUME NoCallAssumption == NoCall \notin Calls
ASSUME GapAssumption == MaxGapPosts \in Nat
ASSUME PosterAssumption == Posters \cap Stoppers = {}

Threads == Posters \cup Stoppers

VARIABLES
  calls,     \* calls_
  current,   \* the call dispatchCalls has taken out of calls_
  pc,        \* where the loop thread is in exec
  exit,      \* exit_
  brk,       \* libevent's break flag
  timer,     \* the event of timeout: "none", "armed" or "fired"
  tpc,       \* whether each other thread still has to interrupt the loop
  gap        \* posts since the iterator of dispatchCalls reached end()

vars == <<calls, current, pc, exit, brk, timer, tpc, gap>>

Init ==
  /\ calls = <<>>
  /\ current = NoCall
  /\ pc = "off"
  /\ exit = FALSE
  /\ brk = FALSE
  /\ timer = "none"
  /\ tpc = [t \in Threads |-> "idle"]
  /\ gap = 0

----------------------------------------------------------------------------
(* callLater and exit, by threads other than the loop's.                   *)

InGap == pc \in {"last", "enter"}

\* Mutant: callLater does not interrupt the loop.
CallLater_NoInterrupt(p, c) ==
  /\ tpc[p] = "idle"
  /\ InGap => gap < MaxGapPosts
  /\ calls' = Append(calls, c)
  /\ gap' = IF InGap THEN gap + 1 ELSE gap
  /\ UNCHANGED <<current, pc, exit, brk, timer, tpc>>

\* Mutant: callLater queues at the front.
CallLater_Front(p, c) ==
  /\ tpc[p] = "idle"
  /\ InGap => gap < MaxGapPosts
  /\ calls' = <<c>> \o calls
  /\ gap' = IF InGap THEN gap + 1 ELSE gap
  /\ tpc' = [tpc EXCEPT ![p] = "interrupt"]
  /\ UNCHANGED <<current, pc, exit, brk, timer>>

\* The new call is queued; the interrupt follows in a step of its own.
CallLater(p, c) ==
  /\ tpc[p] = "idle"
  /\ InGap => gap < MaxGapPosts
  /\ calls' = Append(calls, c)
  /\ gap' = IF InGap THEN gap + 1 ELSE gap
  /\ tpc' = [tpc EXCEPT ![p] = "interrupt"]
  /\ UNCHANGED <<current, pc, exit, brk, timer>>

Exit(s) ==
  /\ tpc[s] = "idle"
  /\ exit' = TRUE
  /\ tpc' = [tpc EXCEPT ![s] = "interrupt"]
  /\ UNCHANGED <<calls, current, pc, brk, timer, gap>>

\* interrupt: event_base_loopbreak.
Interrupt(t) ==
  /\ tpc[t] = "interrupt"
  /\ brk' = TRUE
  /\ tpc' = [tpc EXCEPT ![t] = "idle"]
  /\ UNCHANGED <<calls, current, pc, exit, timer, gap>>

----------------------------------------------------------------------------
(* timeout, and exec with dispatchCalls.                                   *)

Timeout ==
  /\ timer = "none"
  /\ timer' = "armed"
  /\ UNCHANGED <<calls, current, pc, exit, brk, tpc, gap>>

\* exec clears exit_, so an exit asked for before exec runs is lost.
StartExec ==
  /\ pc = "off"
  /\ pc' = "test"
  /\ exit' = FALSE
  /\ UNCHANGED <<calls, current, brk, timer, tpc, gap>>

TestExit ==
  /\ pc = "test"
  /\ pc' = IF exit THEN "done" ELSE "dispatch"
  /\ UNCHANGED <<calls, current, exit, brk, timer, tpc, gap>>

\* Mutant: the call is moved out of calls_ and its place is not removed.
TakeCall_NotPopped ==
  /\ pc = "dispatch"
  /\ calls # <<>>
  /\ current' = Head(calls)
  /\ calls' = [calls EXCEPT ![1] = NoCall]
  /\ pc' = "call"
  /\ UNCHANGED <<exit, brk, timer, tpc, gap>>

TakeCall ==
  /\ pc = "dispatch"
  /\ calls # <<>>
  /\ current' = Head(calls)
  /\ calls' = Tail(calls)
  /\ IF Tail(calls) = <<>>
     THEN pc' = "last" /\ gap' = 0
     ELSE pc' = "call" /\ UNCHANGED gap
  /\ UNCHANGED <<exit, brk, timer, tpc>>

\* call() returns; it ran without lock_.
CallReturns ==
  /\ pc \in {"call", "last"}
  /\ current' = NoCall
  /\ pc' = IF pc = "last" THEN "enter" ELSE "dispatch"
  /\ UNCHANGED <<calls, exit, brk, timer, tpc, gap>>

EndDispatch ==
  /\ pc = "dispatch"
  /\ calls = <<>>
  /\ pc' = "enter"
  /\ gap' = 0
  /\ UNCHANGED <<calls, current, exit, brk, timer, tpc>>

EnterLoop ==
  /\ pc = "enter"
  /\ pc' = "wait"
  /\ brk' = FALSE
  /\ UNCHANGED <<calls, current, exit, timer, tpc, gap>>

\* timeoutTriggered runs in the loop thread: it calls exit and so interrupt.
TimeoutTriggered ==
  /\ pc = "wait"
  /\ timer = "armed"
  /\ timer' = "fired"
  /\ exit' = TRUE
  /\ brk' = TRUE
  /\ UNCHANGED <<calls, current, pc, tpc, gap>>

\* Mutant: exec loops without looking at exit_ again.
LeaveLoop_NoTest ==
  /\ pc = "wait"
  /\ brk
  /\ pc' = "dispatch"
  /\ UNCHANGED <<calls, current, exit, brk, timer, tpc, gap>>

LeaveLoop ==
  /\ pc = "wait"
  /\ brk
  /\ pc' = "test"
  /\ UNCHANGED <<calls, current, exit, brk, timer, tpc, gap>>

LoopStep ==
  \/ TestExit \/ TakeCall \/ CallReturns \/ EndDispatch \/ EnterLoop
  \/ LeaveLoop

----------------------------------------------------------------------------
(* On its own, a call is posted when it is neither queued nor running, as  *)
(* a libcamera request is completed again only after it was queued again.  *)

Queued(c) == \E i \in 1..Len(calls) : calls[i] = c

Post(p) == \E c \in Calls : ~Queued(c) /\ current # c /\ CallLater(p, c)

Next ==
  \/ \E p \in Posters : Post(p)
  \/ \E s \in Stoppers : Exit(s)
  \/ \E t \in Threads : Interrupt(t)
  \/ Timeout \/ TimeoutTriggered
  \/ StartExec \/ LoopStep

Spec == Init /\ [][Next]_vars

\* The loop thread and a thread inside callLater or exit keep running.  A
\* poster keeps posting, as the camera keeps completing requests: this is
\* the only thing that can wake a loop that lost an interrupt.
Fairness ==
  /\ WF_vars(StartExec) /\ WF_vars(LoopStep)
  /\ \A t \in Threads : WF_vars(Interrupt(t))
  /\ \A p \in Posters : WF_vars(Post(p))

FairSpec == Spec /\ Fairness

----------------------------------------------------------------------------
(* Properties.                                                             *)

LoopPCs == {"off", "test", "dispatch", "call", "last", "enter", "wait", "done"}

TypeOK ==
  /\ calls \in Seq(Calls)
  /\ current \in Calls \cup {NoCall}
  /\ pc \in LoopPCs
  /\ exit \in BOOLEAN
  /\ brk \in BOOLEAN
  /\ timer \in {"none", "armed", "fired"}
  /\ tpc \in [Threads -> {"idle", "interrupt"}]
  /\ gap \in 0..MaxGapPosts

\* A loop that sleeps with no break raised and no interrupt on its way.
Asleep ==
  /\ pc = "wait"
  /\ ~brk
  /\ \A t \in Threads : tpc[t] = "idle"

\* A sleeping loop leaves behind at most the calls posted in the gap before
\* event_base_loop: every other callLater is dispatched or wakes the loop.
StrandedOnlyInGap == Asleep => Len(calls) <= gap

\* Each call handed to callLater leaves calls_ (and is run) unless the loop
\* has ended, provided fewer calls can fall in the gap than there are calls:
\* a later post picks up the stranded ones.
EveryCallTaken == \A c \in Calls : Queued(c) ~> (~Queued(c) \/ pc = "done")

\* exit ends exec, even when its interrupt is lost, as long as posts go on and
\* do not keep dispatchCalls busy for ever.  exit_ set before exec runs does
\* not count: exec clears it.
ExitEndsExec ==
  ([]<>(pc \notin {"dispatch", "call", "last"})) =>
    ((exit /\ pc # "off") ~> pc = "done")
=============================================================================
