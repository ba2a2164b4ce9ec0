------------------------------ MODULE EventLoop ------------------------------
(***************************************************************************)
(* core/event_loop.cc and core/event_loop_manager.cc: event loops, each on *)
(* its own thread with its nanoapps, fed through one shared pool of        *)
(* reference-counted events.  Other threads (the host link, PALs) post     *)
(* events and defer callbacks at any time.                                 *)
(*                                                                         *)
(* Every thread has a call stack; a step runs the frame on top.  The steps *)
(* of a thread interleave with those of the others wherever the code holds *)
(* no lock: between the check of mRunning and the push, between the loops  *)
(* of a broadcast, between the deliveries of one event.                    *)
(***************************************************************************)
EXTENDS Integers, Sequences, FiniteSets, SequencesExt

CONSTANTS
  Events,                    \* the slots of mEventPool
  kMaxEventCount,            \* capacity of a loop's mEvents, one for each slot
  LoopSeq,                   \* mEventLoops
  Posters,                   \* threads that are not event loops
  Nanoapps,                  \* instance IDs
  LoopOf,                    \* the loop index encoded in an instance ID
  InitNanoapps,              \* nanoapps running initially, per loop
  HostRequests,              \* callbacks other threads defer, once each
  Targets,                   \* targets of posted events
  MaxPosts,                  \* bound: events posted by nanoapps and threads
  MemoryRunsOut,             \* whether mEvents.push may fail to grow
  StartMayFail,              \* whether nanoappStart() may return false
  System, Broadcast, Nowhere, Null

Loops == Range(LoopSeq)
Threads == Loops \cup Posters

\* A deferred callback: what it does and to whom.
Callback(kind, arg) == [kind |-> kind, arg |-> arg]

VARIABLES
  event,                     \* the event in each slot of the pool, or Null
  queue,                     \* mEvents
  mNanoapps,
  mStoppingNanoapp,
  mRunning,                  \* "running", "stopping" (purging) or "exited"
  stack,                     \* the calls each thread is in
  requests,                  \* HostRequests not made yet
  posts,                     \* events posted so far
  invoked,                   \* ghost: free callbacks run for a slot's event
  fatal                      \* FATAL_ERROR, or a null or wild dereference

vars == <<event, queue, mNanoapps, mStoppingNanoapp, mRunning, stack,
          requests, posts, invoked, fatal>>

-----------------------------------------------------------------------------
(* Events and frames.                                                      *)

\* Mutant: the post keeps a reference of its own that nobody gives back.
NanoappEventOneMore(sender, target, isLowPriority, freeCallback, refs) ==
  [sender |-> sender, target |-> target, isLowPriority |-> isLowPriority,
   freeCallback |-> freeCallback, callback |-> Null, mRefCount |-> refs + 1]

NanoappEvent(sender, target, isLowPriority, freeCallback, refs) ==
  [sender |-> sender, target |-> target, isLowPriority |-> isLowPriority,
   freeCallback |-> freeCallback, callback |-> Null, mRefCount |-> refs]

SystemEvent(callback) ==
  [sender |-> System, target |-> System, isLowPriority |-> FALSE,
   freeCallback |-> FALSE, callback |-> callback, mRefCount |-> 1]

\* postEvent: e still has to be posted to the loops in todo.  A push follows
\* its check in a separate step.
PostFrame(e, todo) ==
  [op |-> "post", e |-> e, todo |-> todo, checked |-> FALSE, posted |-> FALSE]

\* distributeEvent: mNanoapps[i] is handling e (0: nobody yet).
DistributeFrame(e) == [op |-> "distribute", e |-> e, i |-> 0]
FreeFrame(e) == [op |-> "free", e |-> e]

\* The rest of freeEvent: the callback app (or Null) is running, then the event
\* is deallocated.
FreeingFrame(e, app) == [op |-> "freeing", e |-> e, app |-> app]
UnloadFrame(app, started) ==
  [op |-> "unload", app |-> app, started |-> started, pc |-> "find", i |-> 0]
StartFrame(app) == [op |-> "start", app |-> app, pc |-> "begin"]

Top(t) == Head(stack[t])
In(t, op) == stack[t] # <<>> /\ Top(t).op = op

Call(t, frame) == stack' = [stack EXCEPT ![t] = <<frame>> \o @]
Jump(t, frame) == stack' = [stack EXCEPT ![t] = <<frame>> \o Tail(@)]
JumpAndCall(t, frame, callee) ==
  stack' = [stack EXCEPT ![t] = <<callee, frame>> \o Tail(@)]
Return(t) == stack' = [stack EXCEPT ![t] = Tail(@)]

Vacant == {e \in Events : event[e] = Null}

\* mCurrentApp of the loop l.
CurrentApp(l) ==
  CASE In(l, "distribute") -> IF Top(l).i > 0 THEN mNanoapps[l][Top(l).i]
                                              ELSE Null
    [] In(l, "freeing") -> Top(l).app
    [] In(l, "start") -> IF Top(l).pc = "run" THEN Top(l).app ELSE Null
    [] In(l, "unload") -> IF Top(l).pc = "end" /\ Top(l).i <= Len(mNanoapps[l])
                          THEN mNanoapps[l][Top(l).i] ELSE Null
    [] OTHER -> Null

CurrentNanoappIsStopping(l) ==
  CurrentApp(l) = mStoppingNanoapp[l] \/ mRunning[l] # "running"

Init ==
  /\ event = [e \in Events |-> Null]
  /\ queue = [l \in Loops |-> <<>>]
  /\ mNanoapps = InitNanoapps
  /\ mStoppingNanoapp = [l \in Loops |-> Null]
  /\ mRunning = [l \in Loops |-> "running"]
  /\ stack = [t \in Threads |-> <<>>]
  /\ requests = HostRequests
  /\ posts = 0
  /\ invoked = [e \in Events |-> 0]
  /\ fatal = FALSE

-----------------------------------------------------------------------------
(* Posting.                                                                *)

\* Mutant: a broadcast posts to the first loop over and over.
RouteFirstOnly(target) ==
  CASE target = Broadcast -> [i \in DOMAIN LoopSeq |-> LoopSeq[1]]
    [] target = Nowhere -> <<>>
    [] OTHER -> <<LoopOf[target]>>

\* The loops an event is posted to.
Route(target) ==
  CASE target = Broadcast -> LoopSeq
    [] target = Nowhere -> <<>>
    [] OTHER -> <<LoopOf[target]>>

\* The beginning of EventLoopManager::postEvent, returning to the frames in
\* rest.  Without a slot, or for an instance ID of no loop, the free callback
\* runs at once.
PostEvent(t, sender, target, isLowPriority, freeCallback, rest) ==
  LET route == Route(target)
      new == NanoappEvent(sender, target, isLowPriority, freeCallback,
                          Len(route))
  IN  IF Vacant = {} \/ route = <<>>
      THEN /\ stack' = [stack EXCEPT ![t] = rest]
           /\ UNCHANGED <<event, invoked>>
      ELSE \E e \in Vacant :
             /\ event' = [event EXCEPT ![e] = new]
             /\ invoked' = [invoked EXCEPT ![e] = 0]
             /\ stack' = [stack EXCEPT ![t] = <<PostFrame(e, route)>> \o rest]

\* A thread of the system posts an event to nanoapps (postEventOrDie,
\* postLowPriorityEventOrFree).
SystemPosts(t, target, isLowPriority) ==
  /\ stack[t] = <<>>
  /\ posts < MaxPosts
  /\ posts' = posts + 1
  /\ PostEvent(t, System, target, isLowPriority, TRUE, <<>>)
  /\ UNCHANGED <<queue, mNanoapps, mStoppingNanoapp, mRunning, requests, fatal>>

\* chreSendEvent from the nanoapp that is running on the loop l.
ChreSendEvent(l, target, freeCallback) ==
  /\ CurrentApp(l) # Null
  /\ ~CurrentNanoappIsStopping(l)
  /\ posts < MaxPosts
  /\ posts' = posts + 1
  /\ PostEvent(l, CurrentApp(l), target, TRUE, freeCallback, stack[l])
  /\ UNCHANGED <<queue, mNanoapps, mStoppingNanoapp, mRunning, requests, fatal>>

\* postSystemEvent, returning to the frames in rest; it does nothing when the
\* loop is not running and is fatal when it cannot post.
DeferCallback(t, l, callback, rest) ==
  IF mRunning[l] # "running"
  THEN /\ stack' = [stack EXCEPT ![t] = rest]
       /\ UNCHANGED <<event, invoked, fatal>>
  ELSE IF Vacant = {}
       THEN fatal' = TRUE /\ UNCHANGED <<event, invoked, stack>>
       ELSE \E e \in Vacant :
              /\ event' = [event EXCEPT ![e] = SystemEvent(callback)]
              /\ invoked' = [invoked EXCEPT ![e] = 0]
              /\ stack' = [stack EXCEPT ![t] = <<PostFrame(e, <<l>>)>> \o rest]
              /\ UNCHANGED fatal

\* Another thread defers a load, an unload or a shutdown to a loop.
HostRequest(t, l, callback) ==
  /\ stack[t] = <<>>
  /\ <<l, callback>> \in requests
  /\ requests' = requests \ {<<l, callback>>}
  /\ DeferCallback(t, l, callback, <<>>)
  /\ UNCHANGED <<queue, mNanoapps, mStoppingNanoapp, mRunning, posts>>

\* The end of postEvent for one loop: on to the next one, or, after the last,
\* free the event if no loop took it.
ToNextLoop(t, posted, counted) ==
  LET frame == Top(t)
      e == frame.e
      rest == Tail(frame.todo)
  IN  IF rest # <<>>
      THEN /\ Jump(t, [frame EXCEPT !.todo = rest, !.posted = posted,
                                    !.checked = FALSE])
           /\ event' = counted
           /\ UNCHANGED invoked
      ELSE /\ Return(t)
           /\ event' = IF posted THEN counted ELSE [counted EXCEPT ![e] = Null]
           /\ invoked' = IF ~posted /\ event[e].freeCallback
                         THEN [invoked EXCEPT ![e] = @ + 1] ELSE invoked

\* postEventToLoop when the loop did not take the event; for a deferred
\* callback that is FATAL_ERROR.
PostFails(t) ==
  /\ fatal' = (event[Top(t).e].target = System)
  /\ ToNextLoop(t, Top(t).posted,
                [event EXCEPT ![Top(t).e].mRefCount = @ - 1])
  /\ UNCHANGED queue

\* EventLoop::postEvent up to the push.  hasNoSpaceForHighPriorityEvent first
\* tries to remove low-priority events of the system from a full queue; the
\* queue is as large as the pool, so it is never full here (QueueHasRoom).
PostCheck(t) ==
  /\ In(t, "post") /\ ~Top(t).checked
  /\ LET l == Head(Top(t).todo)
     IN  \/ /\ mRunning[l] # "running"
            /\ PostFails(t)
         \/ /\ mRunning[l] = "running"
            /\ Jump(t, [Top(t) EXCEPT !.checked = TRUE])
            /\ UNCHANGED <<event, invoked, queue, fatal>>
  /\ UNCHANGED <<mNanoapps, mStoppingNanoapp, mRunning, requests, posts>>

PostPush(t) ==
  /\ In(t, "post") /\ Top(t).checked
  /\ LET l == Head(Top(t).todo)
         full == Len(queue[l]) = kMaxEventCount
     IN  \/ /\ ~full
            /\ queue' = [queue EXCEPT ![l] = Append(@, Top(t).e)]
            /\ ToNextLoop(t, TRUE, event)
            /\ UNCHANGED fatal
         \/ /\ full \/ MemoryRunsOut
            /\ PostFails(t)
  /\ UNCHANGED <<mNanoapps, mStoppingNanoapp, mRunning, requests, posts>>

-----------------------------------------------------------------------------
(* Distributing and freeing.                                               *)

Pop(l) == queue' = [queue EXCEPT ![l] = Tail(@)]

\* One iteration of run().
RunPop(l) ==
  /\ stack[l] = <<>> /\ mRunning[l] = "running" /\ queue[l] # <<>>
  /\ Pop(l)
  /\ Call(l, DistributeFrame(Head(queue[l])))
  /\ UNCHANGED <<event, mNanoapps, mStoppingNanoapp, mRunning, requests, posts,
                 invoked, fatal>>

\* Mutant: the purge drops the events without freeing them.
RunPurgeDrops(l) ==
  /\ stack[l] = <<>> /\ mRunning[l] = "stopping" /\ queue[l] # <<>>
  /\ Pop(l)
  /\ UNCHANGED <<event, mNanoapps, mStoppingNanoapp, mRunning, stack, requests,
                 posts, invoked, fatal>>

\* run() after mRunning was cleared: purge the queue, then unload all nanoapps.
RunPurge(l) ==
  /\ stack[l] = <<>> /\ mRunning[l] = "stopping" /\ queue[l] # <<>>
  /\ Pop(l)
  /\ Call(l, FreeFrame(Head(queue[l])))
  /\ UNCHANGED <<event, mNanoapps, mStoppingNanoapp, mRunning, requests, posts,
                 invoked, fatal>>

RunExit(l) ==
  /\ stack[l] = <<>> /\ mRunning[l] = "stopping" /\ queue[l] = <<>>
  /\ mRunning' = [mRunning EXCEPT ![l] = "exited"]
  /\ mNanoapps' = [mNanoapps EXCEPT ![l] = <<>>]
  /\ UNCHANGED <<event, queue, mStoppingNanoapp, stack, requests, posts,
                 invoked, fatal>>

\* distributeEventCommon.  A broadcast goes to the nanoapps that registered for
\* it, which may be any of them.
Distribute(l) ==
  /\ In(l, "distribute")
  /\ LET frame == Top(l)
         target == event[frame.e].target
         apps == mNanoapps[l]
     IN  \/ \E j \in frame.i + 1..Len(apps) :
              /\ target = Broadcast \/ (frame.i = 0 /\ target = apps[j])
              /\ Jump(l, [frame EXCEPT !.i = j])
         \/ /\ frame.i = 0 => target \notin Range(apps)
            /\ Jump(l, FreeFrame(frame.e))
  /\ UNCHANGED <<event, queue, mNanoapps, mStoppingNanoapp, mRunning, requests,
                 posts, invoked, fatal>>

Deallocate(t, e) ==
  /\ event' = [event EXCEPT ![e] = Null]
  /\ Return(t)

\* The system callback of a deferred event, run by freeEvent.
InvokeSystemEventCallback(l, e) ==
  LET callback == event[e].callback
      counted == [event EXCEPT ![e].mRefCount = 0]
  IN  IF callback.kind = "stop"
      THEN /\ mRunning' = [mRunning EXCEPT ![l] = "stopping"]
           /\ Deallocate(l, e)
      ELSE /\ event' = counted
           /\ JumpAndCall(l, FreeingFrame(e, Null),
                CASE callback.kind = "start" -> StartFrame(callback.arg)
                  [] callback.kind = "unload" -> UnloadFrame(callback.arg, TRUE)
                  [] callback.kind = "free" -> FreeFrame(callback.arg))
           /\ UNCHANGED mRunning

\* Mutant: no free callback for a nanoapp that is stopping.
InvokeNanoappFreeCallbackNotStopping(l, e) ==
  LET sender == event[e].sender
  IN  /\ IF sender \in Range(mNanoapps[l]) /\ sender # mStoppingNanoapp[l]
         THEN /\ invoked' = [invoked EXCEPT ![e] = @ + 1]
              /\ event' = [event EXCEPT ![e].mRefCount = 0]
              /\ Jump(l, FreeingFrame(e, sender))
         ELSE Deallocate(l, e) /\ UNCHANGED invoked
      /\ UNCHANGED <<mRunning, fatal>>

\* The free callback of a nanoapp's event, run by freeEvent on the loop l; on
\* another loop than the sender's it is deferred with one new reference.
InvokeNanoappFreeCallback(l, e) ==
  LET sender == event[e].sender
      home == LoopOf[sender]
  IN  IF home # l
      THEN IF mRunning[home] = "running"
           THEN /\ DeferCallback(l, home, Callback("free", e), Tail(stack[l]))
                /\ UNCHANGED mRunning
           ELSE Deallocate(l, e) /\ UNCHANGED <<mRunning, invoked, fatal>>
      ELSE /\ IF sender \in Range(mNanoapps[l])
              THEN /\ invoked' = [invoked EXCEPT ![e] = @ + 1]
                   /\ event' = [event EXCEPT ![e].mRefCount = 0]
                   /\ Jump(l, FreeingFrame(e, sender))
              ELSE Deallocate(l, e) /\ UNCHANGED invoked
           /\ UNCHANGED <<mRunning, fatal>>

\* freeEvent: only the last reference frees.
FreeEvent(l) ==
  /\ In(l, "free")
  /\ LET e == Top(l).e
     IN  CASE event[e].mRefCount # 1 ->
                /\ event' = [event EXCEPT ![e].mRefCount = @ - 1]
                /\ Return(l)
                /\ UNCHANGED <<mRunning, invoked, fatal>>
           [] event[e].mRefCount = 1 /\ event[e].target = System ->
                /\ InvokeSystemEventCallback(l, e)
                /\ UNCHANGED <<invoked, fatal>>
           [] event[e].mRefCount = 1 /\ event[e].target # System
                /\ event[e].freeCallback /\ event[e].sender # System ->
                InvokeNanoappFreeCallback(l, e)
           [] OTHER ->
                /\ invoked' = IF event[e].freeCallback
                              THEN [invoked EXCEPT ![e] = @ + 1] ELSE invoked
                /\ Deallocate(l, e)
                /\ UNCHANGED <<mRunning, fatal>>
  /\ UNCHANGED <<queue, mNanoapps, mStoppingNanoapp, requests, posts>>

\* Mutant: the event is not given back to the pool.
FreedNoDeallocate(l) ==
  /\ In(l, "freeing")
  /\ Return(l)
  /\ UNCHANGED <<event, queue, mNanoapps, mStoppingNanoapp, mRunning, requests,
                 posts, invoked, fatal>>

\* The end of freeEvent after a callback that made calls of its own.
Freed(l) ==
  /\ In(l, "freeing")
  /\ Deallocate(l, Top(l).e)
  /\ UNCHANGED <<queue, mNanoapps, mStoppingNanoapp, mRunning, requests, posts,
                 invoked, fatal>>

-----------------------------------------------------------------------------
(* Starting and unloading.                                                 *)

\* notifyAppStatusChange, returning to the frames in rest; without memory for
\* the event's data nobody is told.
NotifyAppStatusChange(l, rest) ==
  \/ PostEvent(l, System, Broadcast, FALSE, TRUE, rest)
  \/ /\ MemoryRunsOut
     /\ stack' = [stack EXCEPT ![l] = rest]
     /\ UNCHANGED <<event, invoked>>

\* startNanoapp: mNanoapps gets the nanoapp, then nanoappStart() runs.
StartNanoapp(l) ==
  /\ In(l, "start") /\ Top(l).pc = "begin"
  /\ IF Top(l).app \in Range(mNanoapps[l])
     THEN Return(l) /\ UNCHANGED mNanoapps
     ELSE /\ mNanoapps' = [mNanoapps EXCEPT ![l] = Append(@, Top(l).app)]
          /\ Jump(l, [Top(l) EXCEPT !.pc = "run"])
  /\ UNCHANGED <<event, queue, mStoppingNanoapp, mRunning, requests, posts,
                 invoked, fatal>>

\* nanoappStart() returned true: announce the nanoapp.
StartSucceeds(l) ==
  /\ In(l, "start") /\ Top(l).pc = "run"
  /\ NotifyAppStatusChange(l, Tail(stack[l]))
  /\ UNCHANGED <<queue, mNanoapps, mStoppingNanoapp, mRunning, requests, posts,
                 fatal>>

StartFails(l) ==
  /\ StartMayFail
  /\ In(l, "start") /\ Top(l).pc = "run"
  /\ Jump(l, UnloadFrame(Top(l).app, FALSE))
  /\ UNCHANGED <<event, queue, mNanoapps, mStoppingNanoapp, mRunning, requests,
                 posts, invoked, fatal>>

\* Mutant: the nanoapp is not marked as stopping before the flush.
UnloadFindUnmarked(l) ==
  /\ In(l, "unload") /\ Top(l).pc = "find"
  /\ \/ /\ Top(l).app \notin Range(mNanoapps[l])
        /\ Return(l)
     \/ \E i \in DOMAIN mNanoapps[l] :
          /\ mNanoapps[l][i] = Top(l).app
          /\ Jump(l, [Top(l) EXCEPT !.i = i,
                        !.pc = IF Top(l).started THEN "flush" ELSE "erase"])
  /\ UNCHANGED <<event, queue, mNanoapps, mStoppingNanoapp, mRunning, requests,
                 posts, invoked, fatal>>

\* Mutant: the queue is not flushed.
UnloadFindNoFlush(l) ==
  /\ In(l, "unload") /\ Top(l).pc = "find"
  /\ \/ /\ Top(l).app \notin Range(mNanoapps[l])
        /\ Return(l)
        /\ UNCHANGED mStoppingNanoapp
     \/ \E i \in DOMAIN mNanoapps[l] :
          /\ mNanoapps[l][i] = Top(l).app
          /\ mStoppingNanoapp' = [mStoppingNanoapp EXCEPT ![l] = Top(l).app]
          /\ Jump(l, [Top(l) EXCEPT !.i = i, !.pc = "end"])
  /\ UNCHANGED <<event, queue, mNanoapps, mRunning, requests, posts, invoked,
                 fatal>>

\* unloadNanoapp finds the nanoapp and marks it; one that did not start is
\* erased without a flush.  (flushNanoappMessages is HostComms' business.)
UnloadFind(l) ==
  /\ In(l, "unload") /\ Top(l).pc = "find"
  /\ \/ /\ Top(l).app \notin Range(mNanoapps[l])
        /\ Return(l)
        /\ UNCHANGED mStoppingNanoapp
     \/ \E i \in DOMAIN mNanoapps[l] :
          /\ mNanoapps[l][i] = Top(l).app
          /\ mStoppingNanoapp' = [mStoppingNanoapp EXCEPT ![l] = Top(l).app]
          /\ Jump(l, [Top(l) EXCEPT !.i = i,
                        !.pc = IF Top(l).started THEN "flush" ELSE "erase"])
  /\ UNCHANGED <<event, queue, mNanoapps, mRunning, requests, posts, invoked,
                 fatal>>

\* flushInboundEventQueue distributes what is queued, callbacks included.
UnloadFlush(l) ==
  /\ In(l, "unload") /\ Top(l).pc = "flush" /\ queue[l] # <<>>
  /\ Pop(l)
  /\ Call(l, DistributeFrame(Head(queue[l])))
  /\ UNCHANGED <<event, mNanoapps, mStoppingNanoapp, mRunning, requests, posts,
                 invoked, fatal>>

\* The flush is over: announce the end of *mStoppingNanoapp, which may trap or
\* read garbage if it is null; then nanoappEnd() runs.
UnloadNotify(l) ==
  /\ In(l, "unload") /\ Top(l).pc = "flush" /\ queue[l] = <<>>
  /\ \/ /\ NotifyAppStatusChange(l, <<[Top(l) EXCEPT !.pc = "end"]>>
                                    \o Tail(stack[l]))
        /\ UNCHANGED fatal
     \/ /\ mStoppingNanoapp[l] = Null
        /\ fatal' = TRUE
        /\ UNCHANGED <<event, invoked, stack>>
  /\ UNCHANGED <<queue, mNanoapps, mStoppingNanoapp, mRunning, requests, posts>>

\* unloadNanoappAtIndex: nanoappEnd() returned (or is not called); the managers
\* drop the nanoapp's resources and the instance is destroyed.  The index was
\* found before the flush; past the end it is a wild access.
UnloadErase(l) ==
  /\ In(l, "unload") /\ Top(l).pc \in {"end", "erase"}
  /\ fatal' = (Top(l).i > Len(mNanoapps[l]))
  /\ mNanoapps' = IF fatal' THEN mNanoapps
                  ELSE [mNanoapps EXCEPT ![l] = RemoveAt(@, Top(l).i)]
  /\ mStoppingNanoapp' = [mStoppingNanoapp EXCEPT ![l] = Null]
  /\ Return(l)
  /\ UNCHANGED <<event, queue, mRunning, requests, posts, invoked>>

-----------------------------------------------------------------------------

LoopStep(l) ==
  \/ RunPop(l) \/ RunPurge(l) \/ RunExit(l)
  \/ Distribute(l) \/ FreeEvent(l) \/ Freed(l)
  \/ StartNanoapp(l) \/ StartSucceeds(l) \/ StartFails(l)
  \/ UnloadFind(l) \/ UnloadFlush(l) \/ UnloadNotify(l) \/ UnloadErase(l)

PostStep(t) == PostCheck(t) \/ PostPush(t)

Next ==
  /\ ~fatal
  /\ \/ \E t \in Posters, target \in Targets, low \in BOOLEAN :
          SystemPosts(t, target, low)
     \/ \E t \in Posters, r \in requests : HostRequest(t, r[1], r[2])
     \/ \E l \in Loops, target \in Targets, cb \in BOOLEAN :
          ChreSendEvent(l, target, cb)
     \/ \E t \in Threads : PostStep(t)
     \/ \E l \in Loops : LoopStep(l)

Spec == Init /\ [][Next]_vars

\* Every thread keeps running its calls, and nanoapps return from theirs.
FairStep ==
  ~fatal /\ ((\E t \in Threads : PostStep(t)) \/ (\E l \in Loops : LoopStep(l)))

FairSpec == Spec /\ WF_vars(FairStep)

-----------------------------------------------------------------------------
(* Properties.                                                             *)

Frames(t) == Range(stack[t])

\* Type correctness: slots, queues and frames hold what the code declares.
TypeOK ==
  /\ \A e \in Events :
       \/ event[e] = Null
       \/ /\ event[e].sender \in Nanoapps \cup {System}
          /\ event[e].target \in Nanoapps \cup {System, Broadcast}
          /\ event[e].mRefCount \in 0..Len(LoopSeq)
  /\ queue \in [Loops -> Seq(Events)]
  /\ mNanoapps \in [Loops -> Seq(Nanoapps)]
  /\ mStoppingNanoapp \in [Loops -> Nanoapps \cup {Null}]
  /\ mRunning \in [Loops -> {"running", "stopping", "exited"}]
  /\ \A t \in Threads : \A f \in Frames(t) :
       f.op \in {"post", "distribute", "free", "freeing", "unload", "start"}
  /\ posts \in 0..MaxPosts
  /\ fatal \in BOOLEAN

\* How many references a frame and a deferred callback own.
References(frame, e) ==
  CASE frame.op = "post" /\ frame.e = e -> Len(frame.todo)
    [] frame.op \in {"distribute", "free"} /\ frame.e = e -> 1
    [] OTHER -> 0

Holders(e) ==
  LET queued(l) == Cardinality({i \in DOMAIN queue[l] : queue[l][i] = e})
      framed(t) == MapThenSumSet(LAMBDA i : References(stack[t][i], e),
                                 DOMAIN stack[t])
      deferred == {d \in Events : /\ event[d] # Null
                                  /\ event[d].callback = Callback("free", e)
                                  /\ event[d].mRefCount > 0}
  IN  MapThenSumSet(queued, Loops) + MapThenSumSet(framed, Threads)
        + Cardinality(deferred)

Freeing(e) ==
  \E t \in Threads : \E f \in Frames(t) : f.op = "freeing" /\ f.e = e

\* mRefCount is exactly the number of queues, calls and deferred callbacks that
\* still use the event, and a vacant slot has no user: no interleaving of
\* postEvent, distributeEvent and freeEvent uses an event after it was
\* deallocated or frees it twice.  (After FATAL_ERROR nothing runs any more.)
RefCountsExact ==
  ~fatal => \A e \in Events :
    IF event[e] = Null THEN Holders(e) = 0 /\ ~Freeing(e)
                       ELSE event[e].mRefCount = Holders(e)

\* Nobody has a reference to the event, and nobody is freeing it.
Leaked(e) == event[e] # Null /\ event[e].mRefCount = 0 /\ ~Freeing(e)

\* With one loop, an event without references is being freed by some thread
\* (freeEvent, postEventToLoop).  What is pushed to a loop that has just ended
\* keeps the reference of that loop's queue.
NoLeakedEvent == \A e \in Events : ~Leaked(e)

\* The call in which the thread t posts a broadcast to its last loop, after
\* another loop took it.
LastPostOfTaken(t, e) ==
  In(t, "post") /\ Top(t).e = e /\ Top(t).posted /\ Len(Top(t).todo) = 1

\* With several loops, an event is leaked only by the failing post of a broadcast
\* to the last loop, after every loop that took it has freed it: postEventToLoop
\* takes the last reference away, and postEvent leaves the event to the loops.
LeakedOnlyByLastPost ==
  \A e \in Events :
    ~Leaked(e) /\ Leaked(e)' =>
      /\ event[e].target = Broadcast
      /\ \E t \in Threads : LastPostOfTaken(t, e) /\ ~In(t, "post")'

FreedOnce ==
  \A e \in Events :
    event[e] # Null /\ event'[e] = Null /\ event[e].freeCallback
      => invoked'[e] = 1

\* When an event leaves the pool its free callback has run exactly once, also
\* when the post failed, when it was purged, or when its sender is being
\* unloaded.  With several loops this needs the sender to be still loaded.
FreeCallbackOnce == [][FreedOnce]_vars

IsLoaded(app) == app \in Range(mNanoapps[LoopOf[app]])

FreedOnceIfLoaded ==
  \A e \in Events :
    event[e] # Null /\ event'[e] = Null /\ event[e].freeCallback
      => \/ invoked'[e] = 1
         \/ /\ invoked'[e] = 0
            /\ event[e].sender \in Nanoapps
            /\ \/ ~IsLoaded(event[e].sender)
               \/ /\ mRunning[LoopOf[event[e].sender]] # "running"
                  /\ \E l \in Loops \ {LoopOf[event[e].sender]} :
                       In(l, "free") /\ Top(l).e = e

\* Across loops the free callback runs at most once, and it is left out only
\* if the nanoapp that sent the event is gone, or if another loop frees the
\* event while the nanoapp's loop is stopping (freeEvent).
FreeCallbackOnceIfLoaded == [][FreedOnceIfLoaded]_vars

\* A thread that is posting finds room in the queue: the pool runs out first,
\* so the removal of low-priority events in hasNoSpaceForHighPriorityEvent is
\* never tried.
QueueHasRoom ==
  \A t \in Threads : \A f \in Frames(t) :
    f.op = "post" => Len(queue[Head(f.todo)]) < kMaxEventCount

\* When unloadNanoapp destroys a nanoapp, no event it sent is pending, so its
\* memory is not referenced any more.
UnloadLeavesNoEvents ==
  \A l \in Loops : \A f \in Frames(l) :
    f.op = "unload" /\ f.pc \in {"end", "erase"} =>
      \A e \in Events : event[e] # Null => event[e].sender # f.app

\* While unloadNanoapp flushes the queue and ends a nanoapp, that nanoapp
\* sends no event.
StoppingNanoappIsSilent ==
  \A l \in Loops : \A k \in DOMAIN stack[l] :
    stack[l][k].op = "unload" =>
      \A j \in 1..k - 1 :
        stack[l][j].op = "post"
          => event[stack[l][j].e].sender # stack[l][k].app

IsFreed(e) == event[e] = Null \/ fatal

\* Every event is freed, whatever is posted, sent or unloaded meanwhile.
EveryEventIsFreed == \A e \in Events : []<>IsFreed(e)
=============================================================================
