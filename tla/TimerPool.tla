------------------------------ MODULE TimerPool ------------------------------
(***************************************************************************)
(* core/timer_pool.cc: every timer of the nanoapps and of the framework,   *)
(* multiplexed on one SystemTimer.  The pool is touched by the event loop  *)
(* threads (set, cancel, the deferred callbacks) and, through the system   *)
(* timer's own thread, by handleSystemTimerCallback; mMutex serialises the *)
(* former and is not taken by the latter.                                  *)
(*                                                                         *)
(* mTimerRequests is a set here; TimerHeap models the binary heap that     *)
(* stores it.  Names starting with m and k are those of the code.          *)
(***************************************************************************)
EXTENDS Integers, Sequences, FiniteSets

CONSTANTS
  Nanoapps,                  \* instance IDs of nanoapps
  System,                    \* kSystemInstanceId
  Loops,                     \* event loops
  MainLoop,                  \* the default loop, which runs TimerPoolTick
  LoopOf,                    \* the loop a request's callback is deferred to
  Durations,                 \* the durations callers ask for
  kMaxTimerRequests, kNumReservedNanoappTimers, kMaxNanoappTimers,
  CHRE_TIMER_INVALID,        \* UINT32_MAX, the one value that is no handle
  AlreadyFired,              \* kTimerAlreadyFiredExpiration (UINT64_MAX)
  MaxTime,                   \* bound: the clock stops here
  AllowWrap                  \* bound: FALSE ends the requests at the wrap

Owners == Nanoapps \cup {System}

ASSUME PoolAssumption ==
  /\ System \notin Nanoapps
  /\ MainLoop \in Loops
  /\ LoopOf \in [Owners -> Loops]
  /\ Durations \subseteq Nat \ {0}
  /\ kMaxTimerRequests \in Nat
  /\ kNumReservedNanoappTimers \in 0..kMaxTimerRequests
  /\ kMaxNanoappTimers \in kNumReservedNanoappTimers..kMaxTimerRequests
  /\ CHRE_TIMER_INVALID \in Nat
  /\ CHRE_TIMER_INVALID >
       kMaxNanoappTimers + kMaxTimerRequests - kNumReservedNanoappTimers
  /\ MaxTime \in Nat
  /\ AlreadyFired \in Nat
  /\ \A d \in Durations : MaxTime + d < AlreadyFired
  /\ AllowWrap \in BOOLEAN

VARIABLES
  now,                       \* SystemTime::getMonotonicTime()
  mTimerRequests,
  mNumNanoappTimers,
  mLastTimerHandle,
  mustCheckUniqueness,       \* mGenerateTimerHandleMustCheckUniqueness
  mSystemTimer,              \* the armed deadline, or Off
  queue,                     \* callbacks deferred to each event loop
  scheduling,                \* mMutex is held by the scheduling loop
  loaded                     \* the nanoapps that can still call the pool

vars == <<now, mTimerRequests, mNumNanoappTimers, mLastTimerHandle,
          mustCheckUniqueness, mSystemTimer, queue, scheduling, loaded>>

Off == -1
Handles == 0..(CHRE_TIMER_INVALID - 1)
TimerRequest == [timerHandle : Handles, instanceId : Owners,
                 expirationTime : 0..AlreadyFired, duration : Durations,
                 isOneShot : BOOLEAN]

\* SystemCallbackType of the callbacks the pool defers.
Tick == [type |-> "TimerPoolTick", timerHandle |-> CHRE_TIMER_INVALID]
Expired(h) == [type |-> "TimerPoolTimerExpired", timerHandle |-> h]
SystemCallback(h) == [type |-> "SystemCallback", timerHandle |-> h]
Callback == {Tick} \cup {Expired(h) : h \in Handles}
                   \cup {SystemCallback(h) : h \in Handles}

Init ==
  /\ now = 0
  /\ mTimerRequests = {}
  /\ mNumNanoappTimers = 0
  /\ mLastTimerHandle = CHRE_TIMER_INVALID
  /\ mustCheckUniqueness = FALSE
  /\ mSystemTimer = Off
  /\ queue = [l \in Loops |-> <<>>]
  /\ scheduling = FALSE
  /\ loaded = Nanoapps

-----------------------------------------------------------------------------
(* Handles.  They are 32 bits wide: UINT32_MAX + 1 is 0.                   *)

\* The handle k increments after h, for k <= 2^32.
Ahead(h, k) ==
  IF h + k > CHRE_TIMER_INVALID THEN h + k - (CHRE_TIMER_INVALID + 1)
                                ELSE h + k

Successor(h) == Ahead(h, 1)

InUse(h) == \E r \in mTimerRequests : r.timerHandle = h

\* Mutant: the search forgets to look the handle up in mTimerRequests.
GenerateUniqueTimerHandleNoLookup(h) ==
  LET next == Successor(mLastTimerHandle)
  IN  h = IF next = CHRE_TIMER_INVALID THEN Successor(next) ELSE next

\* h is the first vacant handle after the last one, searching upwards with
\* wrap-around.
GenerateUniqueTimerHandle(h) ==
  /\ ~InUse(h)
  /\ \E k \in 1..CHRE_TIMER_INVALID + 1 :
       /\ h = Ahead(mLastTimerHandle, k)
       /\ \A j \in 1..k - 1 : LET g == Ahead(mLastTimerHandle, j)
                             IN  g = CHRE_TIMER_INVALID \/ InUse(g)

MustCheckNow ==
  mustCheckUniqueness \/ Successor(mLastTimerHandle) = CHRE_TIMER_INVALID

GenerateTimerHandle(h) ==
  IF MustCheckNow THEN GenerateUniqueTimerHandle(h)
                  ELSE h = Successor(mLastTimerHandle)

-----------------------------------------------------------------------------
(* The container.                                                          *)

IsNewTimerAllowed(owner) ==
  IF owner # System
  THEN mNumNanoappTimers < kMaxNanoappTimers
  ELSE Cardinality(mTimerRequests) - mNumNanoappTimers
         < kMaxTimerRequests - kNumReservedNanoappTimers

\* The requests that may be mTimerRequests.top(); ties are broken by the heap.
Tops(requests) ==
  {r \in requests : \A s \in requests : r.expirationTime <= s.expirationTime}

Of(owner) == {r \in mTimerRequests : r.instanceId = owner}

\* Mutant: the count of nanoapp timers is not given back.
RemoveKeepsCount(gone, top) ==
  /\ mTimerRequests' = mTimerRequests \ gone
  /\ IF top \in gone
     THEN mSystemTimer' = Off /\ scheduling' = TRUE
     ELSE UNCHANGED <<mSystemTimer, scheduling>>
  /\ UNCHANGED mNumNanoappTimers

\* Mutant: removing the top cancels the system timer and sets no other.
RemoveNoReschedule(gone, top) ==
  /\ mTimerRequests' = mTimerRequests \ gone
  /\ mNumNanoappTimers' =
       mNumNanoappTimers - Cardinality({r \in gone : r.instanceId # System})
  /\ mSystemTimer' = IF top \in gone THEN Off ELSE mSystemTimer
  /\ UNCHANGED scheduling

\* removeTimerRequestLocked for the requests in gone, the index 0 last:
\* removing the top cancels the system timer and runs the scheduling loop,
\* which goes on holding the mutex.
Remove(gone, top) ==
  /\ mTimerRequests' = mTimerRequests \ gone
  /\ mNumNanoappTimers' =
       mNumNanoappTimers - Cardinality({r \in gone : r.instanceId # System})
  /\ IF top \in gone
     THEN mSystemTimer' = Off /\ scheduling' = TRUE
     ELSE UNCHANGED <<mSystemTimer, scheduling>>

-----------------------------------------------------------------------------
(* Requests of the clients.                                                *)

\* The rest of setTimer once a request may be inserted: the first request runs
\* the scheduling loop, a new top just moves the system timer forward.
InsertAndSchedule(request) ==
  /\ IsNewTimerAllowed(request.instanceId)
  /\ mTimerRequests' = mTimerRequests \cup {request}
  /\ mNumNanoappTimers' =
       mNumNanoappTimers + (IF request.instanceId # System THEN 1 ELSE 0)
  /\ IF mTimerRequests = {}
     THEN scheduling' = TRUE /\ UNCHANGED mSystemTimer
     ELSE /\ mSystemTimer' =
               IF \A r \in mTimerRequests :
                    request.expirationTime < r.expirationTime
               THEN request.expirationTime ELSE mSystemTimer
          /\ UNCHANGED scheduling

\* setNanoappTimer and setSystemTimer (System; always one-shot).  A request
\* fails at the limits or when the heap's storage cannot grow; for the System
\* that is FATAL_ERROR, after which there is no next state.
SetTimer(owner, duration, isOneShot) ==
  /\ ~scheduling
  /\ owner \in loaded \cup {System}
  /\ owner = System => isOneShot
  /\ AllowWrap \/ ~MustCheckNow
  /\ mustCheckUniqueness' = MustCheckNow
  /\ \E h \in Handles :
       /\ GenerateTimerHandle(h)
       /\ mLastTimerHandle' = h
       /\ \/ InsertAndSchedule([timerHandle |-> h, instanceId |-> owner,
                                expirationTime |-> now + duration,
                                duration |-> duration,
                                isOneShot |-> isOneShot])
          \/ /\ owner # System
             /\ UNCHANGED <<mTimerRequests, mNumNanoappTimers,
                            mSystemTimer, scheduling>>
  /\ UNCHANGED <<now, queue, loaded>>

\* cancelNanoappTimer and cancelSystemTimer; an unknown handle and another
\* owner's handle are refused.
CancelTimer(owner, handle) ==
  /\ ~scheduling
  /\ owner \in loaded \cup {System}
  /\ IF \E r \in Of(owner) : r.timerHandle = handle
     THEN \E r \in Of(owner), top \in Tops(mTimerRequests) :
            r.timerHandle = handle /\ Remove({r}, top)
     ELSE UNCHANGED <<mTimerRequests, mNumNanoappTimers, mSystemTimer,
                      scheduling>>
  /\ UNCHANGED <<now, mLastTimerHandle, mustCheckUniqueness, queue, loaded>>

\* The smallest heap in which removing an element can move an unvisited one
\* behind the backward scan of cancelAllNanoappTimers (see TimerHeap).
SiftUpSize == 6

\* cancelAllNanoappTimers, called when a nanoapp is unloaded.
CancelAllNanoappTimers(app) ==
  /\ ~scheduling
  /\ app \in loaded
  /\ loaded' = loaded \ {app}
  /\ \E gone \in SUBSET Of(app) :
       /\ Cardinality(mTimerRequests) < SiftUpSize => gone = Of(app)
       /\ Of(app) # {} => gone # {}
       /\ IF gone = {}
          THEN UNCHANGED <<mTimerRequests, mNumNanoappTimers, mSystemTimer,
                           scheduling>>
          ELSE \E top \in Tops(mTimerRequests) : Remove(gone, top)
  /\ UNCHANGED <<now, mLastTimerHandle, mustCheckUniqueness, queue>>

-----------------------------------------------------------------------------
(* Expiry.                                                                 *)

\* SystemTimer (platform code): fires once at its deadline, on its own
\* thread, and handleSystemTimerCallback defers the tick to the main loop.
SystemTimerFires ==
  /\ mSystemTimer # Off
  /\ now >= mSystemTimer
  /\ mSystemTimer' = Off
  /\ queue' = [queue EXCEPT ![MainLoop] = Append(@, Tick)]
  /\ UNCHANGED <<now, mTimerRequests, mNumNanoappTimers, mLastTimerHandle,
                 mustCheckUniqueness, scheduling, loaded>>

\* Mutant: a one-shot request is rescheduled like a recurring one.
RescheduledUnmarked(r) ==
  IF r.isOneShot /\ r.instanceId = System
  THEN {}
  ELSE {[r EXCEPT !.expirationTime = @ + r.duration]}

\* Mutant: the duration is added to the mark of a fired one-shot request too.
RescheduledOverflow(r) ==
  IF r.isOneShot /\ r.instanceId = System
  THEN {}
  ELSE {[r EXCEPT !.expirationTime =
           r.duration + (IF r.isOneShot THEN AlreadyFired
                                        ELSE r.expirationTime)]}

\* rescheduleAndRemoveExpiredTimersLocked: a fired one-shot nanoapp request
\* stays, marked, until its callback runs; a recurring one gets its next time.
Rescheduled(r) ==
  IF r.isOneShot /\ r.instanceId = System
  THEN {}
  ELSE {[r EXCEPT !.expirationTime =
           IF r.isOneShot THEN AlreadyFired
                          ELSE r.expirationTime + r.duration]}

ExpiryCallback(r) ==
  IF r.instanceId = System THEN SystemCallback(r.timerHandle)
                           ELSE Expired(r.timerHandle)

\* One iteration of handleExpiredTimersAndScheduleNextLocked, mMutex held.
ScheduleNext ==
  /\ scheduling
  /\ \/ /\ mTimerRequests = {}
        /\ scheduling' = FALSE
        /\ UNCHANGED <<mTimerRequests, mNumNanoappTimers, mSystemTimer, queue>>
     \/ \E top \in Tops(mTimerRequests) :
          \/ /\ now >= top.expirationTime
             /\ queue' = [queue EXCEPT ![LoopOf[top.instanceId]] =
                            Append(@, ExpiryCallback(top))]
             /\ mTimerRequests' =
                  (mTimerRequests \ {top}) \cup Rescheduled(top)
             /\ UNCHANGED <<mNumNanoappTimers, mSystemTimer, scheduling>>
          \/ /\ now < top.expirationTime
             /\ mSystemTimer' = IF top.expirationTime < AlreadyFired
                                THEN top.expirationTime ELSE mSystemTimer
             /\ scheduling' = FALSE
             /\ UNCHANGED <<mTimerRequests, mNumNanoappTimers, queue>>
  /\ UNCHANGED <<now, mLastTimerHandle, mustCheckUniqueness, loaded>>

\* Mutant: the tick is consumed without looking for expired timers.
RunTickNoSchedule(l) ==
  /\ ~scheduling
  /\ queue[l] # <<>> /\ Head(queue[l]) = Tick
  /\ queue' = [queue EXCEPT ![l] = Tail(@)]
  /\ UNCHANGED <<now, mTimerRequests, mNumNanoappTimers, mLastTimerHandle,
                 mustCheckUniqueness, mSystemTimer, scheduling, loaded>>

\* The loop's thread runs the tick, which takes the mutex and schedules.
RunTick(l) ==
  /\ ~scheduling
  /\ queue[l] # <<>> /\ Head(queue[l]) = Tick
  /\ queue' = [queue EXCEPT ![l] = Tail(@)]
  /\ scheduling' = TRUE
  /\ UNCHANGED <<now, mTimerRequests, mNumNanoappTimers, mLastTimerHandle,
                 mustCheckUniqueness, mSystemTimer, loaded>>

\* Mutant: a fired one-shot request is delivered and left in the pool.
RunExpiredNoRemove(l) ==
  /\ ~scheduling
  /\ queue[l] # <<>> /\ \E h \in Handles : Head(queue[l]) = Expired(h)
  /\ queue' = [queue EXCEPT ![l] = Tail(@)]
  /\ UNCHANGED <<now, mTimerRequests, mNumNanoappTimers, mLastTimerHandle,
                 mustCheckUniqueness, mSystemTimer, scheduling, loaded>>

\* handleTimerExpiredCallback: the request is looked up again by its handle;
\* a cancelled one is gone, a one-shot one is removed now.
RunExpired(l) ==
  /\ ~scheduling
  /\ queue[l] # <<>>
  /\ queue' = [queue EXCEPT ![l] = Tail(@)]
  /\ \E h \in Handles :
       /\ Head(queue[l]) = Expired(h)
       /\ IF \E r \in mTimerRequests : r.timerHandle = h /\ r.isOneShot
          THEN \E r \in mTimerRequests, top \in Tops(mTimerRequests) :
                 r.timerHandle = h /\ Remove({r}, top)
          ELSE UNCHANGED <<mTimerRequests, mNumNanoappTimers, mSystemTimer,
                           scheduling>>
  /\ UNCHANGED <<now, mLastTimerHandle, mustCheckUniqueness, loaded>>

\* The callback of a system timer; it does not touch the pool.
RunSystemCallback(l) ==
  /\ queue[l] # <<>> /\ \E h \in Handles : Head(queue[l]) = SystemCallback(h)
  /\ queue' = [queue EXCEPT ![l] = Tail(@)]
  /\ UNCHANGED <<now, mTimerRequests, mNumNanoappTimers, mLastTimerHandle,
                 mustCheckUniqueness, mSystemTimer, scheduling, loaded>>

ClockAdvances ==
  /\ now < MaxTime
  /\ now' = now + 1
  /\ UNCHANGED <<mTimerRequests, mNumNanoappTimers, mLastTimerHandle,
                 mustCheckUniqueness, mSystemTimer, queue, scheduling, loaded>>

Next ==
  \/ \E o \in Owners, d \in Durations, b \in BOOLEAN : SetTimer(o, d, b)
  \/ \E o \in Owners, h \in Handles : CancelTimer(o, h)
  \/ \E a \in Nanoapps : CancelAllNanoappTimers(a)
  \/ SystemTimerFires
  \/ ScheduleNext
  \/ \E l \in Loops : RunTick(l) \/ RunExpired(l) \/ RunSystemCallback(l)
  \/ ClockAdvances

Spec == Init /\ [][Next]_vars

\* The clock runs, the hardware timer fires, a thread holding the mutex makes
\* progress, and an event loop keeps popping its queue.
FairStep ==
  \/ ClockAdvances \/ SystemTimerFires \/ ScheduleNext
  \/ \E l \in Loops : RunTick(l) \/ RunExpired(l) \/ RunSystemCallback(l)

FairSpec == Spec /\ WF_vars(FairStep)

-----------------------------------------------------------------------------
(* Properties.                                                             *)

\* Type correctness of the pool's fields.
TypeOK ==
  /\ now \in 0..MaxTime
  /\ mTimerRequests \in SUBSET TimerRequest
  /\ IsFiniteSet(mTimerRequests)
  /\ mNumNanoappTimers \in Int
  /\ mLastTimerHandle \in Handles \cup {CHRE_TIMER_INVALID}
  /\ mustCheckUniqueness \in BOOLEAN
  /\ mSystemTimer \in Nat \cup {Off}
  /\ queue \in [Loops -> Seq(Callback)]
  /\ scheduling \in BOOLEAN
  /\ loaded \in SUBSET Nanoapps

NanoappRequests == {r \in mTimerRequests : r.instanceId # System}
SystemRequests == {r \in mTimerRequests : r.instanceId = System}

\* mNumNanoappTimers, maintained by insert, pop and remove, is the number of
\* nanoapp requests in the heap, so the two limits it guards hold: nanoapps
\* never exceed kMaxNanoappTimers and the framework never eats into the
\* timers reserved for nanoapps (isNewTimerAllowedLocked).
CountsExact ==
  /\ mNumNanoappTimers = Cardinality(NanoappRequests)
  /\ Cardinality(NanoappRequests) <= kMaxNanoappTimers
  /\ Cardinality(SystemRequests)
       <= kMaxTimerRequests - kNumReservedNanoappTimers

\* No two outstanding requests share a handle, also once the 32-bit handles
\* have wrapped around (generateTimerHandleLocked).
UniqueHandles ==
  \A r, s \in mTimerRequests : r.timerHandle = s.timerHandle => r = s

Queued(l, callback) == \E i \in DOMAIN queue[l] : queue[l][i] = callback

\* Whenever the mutex is free, no unfired request is forgotten: the system
\* timer is armed no later than it, or a tick that will look at it is on its
\* way.  Removing, rescheduling and the SystemTimer thread must all keep this.
NoTimerForgotten ==
  ~scheduling =>
    \A r \in mTimerRequests :
      \/ r.expirationTime = AlreadyFired
      \/ mSystemTimer # Off /\ mSystemTimer <= r.expirationTime
      \/ Queued(MainLoop, Tick)

\* A one-shot nanoapp request marked as fired is waiting for its callback, so
\* it cannot stay in the pool (and in the count) for ever.
FiredAwaitsCallback ==
  \A r \in mTimerRequests :
    r.isOneShot /\ r.expirationTime = AlreadyFired
      => Queued(LoopOf[r.instanceId], Expired(r.timerHandle))

\* Until the handles wrap, a queued callback never meets a one-shot request
\* that has not expired: no nanoapp sees its timer early because a callback of
\* a cancelled timer was still in the queue.
NoEarlyTimerEvent ==
  ~mustCheckUniqueness =>
    \A l \in Loops, r \in mTimerRequests :
      r.isOneShot /\ Queued(l, Expired(r.timerHandle))
        => r.expirationTime = AlreadyFired

Due(h) ==
  \E r \in mTimerRequests :
    /\ r.timerHandle = h
    /\ r.expirationTime <= MaxTime \/ r.expirationTime = AlreadyFired

\* A request that is due within the clock's bound is handled: a one-shot one
\* leaves the pool, a recurring one moves on (or either is cancelled).
EveryTimerIsHandled == \A h \in Handles : []<>~Due(h)
=============================================================================
