---------------------------- MODULE MCEventLoops ----------------------------
(***************************************************************************)
(* EventLoop on two arrangements in one run, told apart by `loops': one    *)
(* loop with two nanoapps that the host unloads and stops, and two loops   *)
(* with a nanoapp each, of which the host stops both.  Memory may run out  *)
(* in either.                                                              *)
(***************************************************************************)
EXTENDS Integers, Sequences, FiniteSets, TLC

CONSTANTS e1, e2, e3, l1, l2, a1, a2, p, System, Broadcast, Nowhere, Null

VARIABLES loops, event, queue, mNanoapps, mStoppingNanoapp, mRunning, stack,
          requests, posts, invoked, fatal

vars == <<loops, event, queue, mNanoapps, mStoppingNanoapp, mRunning, stack,
          requests, posts, invoked, fatal>>

Events == {e1, e2, e3}
kMaxEventCount == 3
Posters == {p}
Nanoapps == {a1, a2}
MaxPosts == 3
StartMayFail == FALSE

Unload == <<l1, [kind |-> "unload", arg |-> a1]>>
Stop == <<l1, [kind |-> "stop", arg |-> l1]>>

StopOther == <<l2, [kind |-> "stop", arg |-> l2]>>

One == INSTANCE EventLoop WITH
  LoopSeq <- <<l1>>, LoopOf <- [a \in Nanoapps |-> l1],
  InitNanoapps <- l1 :> <<a1, a2>>, HostRequests <- {Unload, Stop},
  Targets <- {a1, a2, Broadcast}, MemoryRunsOut <- TRUE

Two == INSTANCE EventLoop WITH
  LoopSeq <- <<l1, l2>>, LoopOf <- (a1 :> l1) @@ (a2 :> l2),
  InitNanoapps <- (l1 :> <<a1>>) @@ (l2 :> <<a2>>),
  HostRequests <- {Unload, Stop, StopOther},
  Targets <- {a1, Broadcast}, MaxPosts <- 2, MemoryRunsOut <- TRUE

Init ==
  \/ loops = 1 /\ One!Init
  \/ loops = 2 /\ Two!Init

Next ==
  /\ UNCHANGED loops
  /\ \/ loops = 1 /\ One!Next
     \/ loops = 2 /\ Two!Next

Spec == Init /\ [][Next]_vars

-----------------------------------------------------------------------------
\* Type correctness of either arrangement.
TypeOK == IF loops = 1 THEN One!TypeOK ELSE Two!TypeOK

\* mRefCount is exactly the number of queues, calls and deferred callbacks that
\* use the event (postEvent, distributeEvent, freeEvent), with one loop and
\* with two.
RefCountsExact == IF loops = 1 THEN One!RefCountsExact ELSE Two!RefCountsExact

\* With one loop, an event without references is being freed by some thread
\* (freeEvent, postEventToLoop).  With two, an event is leaked only by a broadcast
\* that one loop took and freed before the post to the other failed, because
\* that loop is stopping or memory ran out (postEvent).
NoLeakedEvent ==
  [][IF loops = 1 THEN One!NoLeakedEvent' ELSE Two!LeakedOnlyByLastPost]_vars

\* A thread that is posting finds room in the queue: the pool runs out first
\* (hasNoSpaceForHighPriorityEvent), with one loop and with two.
QueueHasRoom == IF loops = 1 THEN One!QueueHasRoom ELSE Two!QueueHasRoom

\* When unloadNanoapp destroys a nanoapp of the only loop, no event it sent is
\* pending.
UnloadLeavesNoEvents == loops = 1 => One!UnloadLeavesNoEvents

\* While unloadNanoapp flushes the queue of the only loop and ends a nanoapp,
\* that nanoapp sends no event.
StoppingNanoappIsSilent == loops = 1 => One!StoppingNanoappIsSilent

\* The free callback of an event runs at most once.  With one loop it has run
\* exactly once when the event leaves the pool; across loops it is left out only
\* if the nanoapp that sent the event is gone, or if another loop frees the event
\* when the nanoapp's loop has begun to stop (freeEvent, flushInboundEventQueue,
\* invokeNanoappFreeCallback, postEvent).
FreeCallbackOnce ==
  [][IF loops = 1 THEN One!FreedOnce ELSE Two!FreedOnceIfLoaded]_vars

Slots == Permutations(Events)
=============================================================================
