--------------------------- MODULE TimerPoolProofs ---------------------------
(***************************************************************************)
(* Proofs that the timer pool keeps its books: for every number of         *)
(* nanoapps, loops and timers, any durations and any limits.               *)
(***************************************************************************)
EXTENDS TimerPool, FiniteSetTheorems, TLAPS

-----------------------------------------------------------------------------
(* What happens to a queue.                                                *)

\* Appending a callback keeps those that are queued (deferCallback).
LEMMA AppendQueued ==
  ASSUME NEW S, NEW q \in Seq(S), NEW c \in S, NEW d
  PROVE  (\E i \in DOMAIN Append(q, c) : Append(q, c)[i] = d)
           <=> (d = c \/ \E i \in DOMAIN q : q[i] = d)
<1>1. Append(q, c) \in Seq(S) /\ Len(Append(q, c)) = Len(q) + 1
  OBVIOUS
<1>2. Append(q, c)[Len(q) + 1] = c
  OBVIOUS
<1>3. \A i \in 1..Len(q) : Append(q, c)[i] = q[i]
  OBVIOUS
<1>4. DOMAIN q = 1..Len(q) /\ DOMAIN Append(q, c) = 1..(Len(q) + 1)
  BY <1>1
<1>5. Len(q) \in Nat
  OBVIOUS
<1> QED
  BY <1>2, <1>3, <1>4, <1>5

\* Popping the head loses no other callback (BlockingQueue::pop).
LEMMA TailQueued ==
  ASSUME NEW S, NEW q \in Seq(S), q # <<>>, NEW d
  PROVE  /\ (\E i \in DOMAIN Tail(q) : Tail(q)[i] = d)
              => (\E i \in DOMAIN q : q[i] = d)
         /\ (\E i \in DOMAIN q : q[i] = d)
              => (d = Head(q) \/ \E i \in DOMAIN Tail(q) : Tail(q)[i] = d)
<1>1. Tail(q) \in Seq(S) /\ Len(Tail(q)) = Len(q) - 1 /\ Len(q) \in Nat \ {0}
  OBVIOUS
<1>2. \A i \in 1..(Len(q) - 1) : Tail(q)[i] = q[i + 1]
  OBVIOUS
<1>3. DOMAIN q = 1..Len(q) /\ DOMAIN Tail(q) = 1..(Len(q) - 1)
  BY <1>1
<1>4. Head(q) = q[1]
  OBVIOUS
<1>5. ASSUME NEW i \in DOMAIN q, q[i] = d, d # Head(q)
      PROVE  \E j \in DOMAIN Tail(q) : Tail(q)[j] = d
  <2>1. i - 1 \in 1..(Len(q) - 1)
    BY <1>5, <1>3, <1>4, <1>1
  <2>2. Tail(q)[i - 1] = d
    BY <2>1, <1>2, <1>5, <1>1
  <2> QED
    BY <2>1, <2>2, <1>3
<1>6. ASSUME NEW i \in DOMAIN Tail(q), Tail(q)[i] = d
      PROVE  \E j \in DOMAIN q : q[j] = d
  BY <1>6, <1>1, <1>2, <1>3
<1> QED
  BY <1>5, <1>6

-----------------------------------------------------------------------------
(* The inductive invariant.                                                *)

\* Requests of the framework are one-shot and leave when they fire.
SystemUnfired ==
  \A r \in mTimerRequests :
    r.instanceId = System => r.isOneShot /\ r.expirationTime < AlreadyFired

\* Until the wrap every handle that is alive anywhere is below the next one.
HandlesBelowNext ==
  ~mustCheckUniqueness =>
    /\ \A r \in mTimerRequests : r.timerHandle < Successor(mLastTimerHandle)
    /\ \A l \in Loops, h \in Handles :
         Queued(l, Expired(h)) => h < Successor(mLastTimerHandle)

IInv ==
  /\ TypeOK
  /\ CountsExact
  /\ UniqueHandles
  /\ SystemUnfired
  /\ HandlesBelowNext
  /\ NoTimerForgotten
  /\ FiredAwaitsCallback
  /\ NoEarlyTimerEvent

\* A new handle belongs to no outstanding request and to no queued callback
\* of the time before the wrap (generateTimerHandleLocked).
LEMMA NewHandle ==
  ASSUME IInv, NEW h \in Handles, GenerateTimerHandle(h)
  PROVE  /\ ~InUse(h)
         /\ ~MustCheckNow =>
              /\ h = Successor(mLastTimerHandle)
              /\ Successor(h) = h + 1
              /\ \A l \in Loops : ~Queued(l, Expired(h))
<1>1. CASE MustCheckNow
  BY <1>1 DEF GenerateTimerHandle, GenerateUniqueTimerHandle
<1>2. CASE ~MustCheckNow
  <2>1. h = Successor(mLastTimerHandle) /\ ~mustCheckUniqueness
    BY <1>2 DEF GenerateTimerHandle, MustCheckNow
  <2>2. h \in Int
    BY PoolAssumption DEF Handles
  <2>3. ~InUse(h)
    <3> SUFFICES ASSUME NEW r \in mTimerRequests, r.timerHandle = h
                 PROVE  FALSE
      BY DEF InUse
    <3> QED
      BY <2>1, <2>2 DEF IInv, HandlesBelowNext
  <2>4. \A l \in Loops : ~Queued(l, Expired(h))
    BY <2>1, <2>2 DEF IInv, HandlesBelowNext
  <2>5. Successor(h) = h + 1
    BY <2>1, <1>2, PoolAssumption DEF Handles, Successor, Ahead
  <2> QED
    BY <2>1, <2>3, <2>4, <2>5
<1> QED
  BY <1>1, <1>2

\* The constructor of TimerPool and its member initialisers establish it.
LEMMA Initially == Init => IInv
<1> SUFFICES ASSUME Init PROVE IInv
  OBVIOUS
<1> USE PoolAssumption
<1>1. TypeOK
  <2>1. IsFiniteSet(mTimerRequests)
    BY FS_EmptySet DEF Init
  <2>2. mustCheckUniqueness \in BOOLEAN /\ scheduling \in BOOLEAN
    BY Zenon DEF Init
  <2>3. queue \in [Loops -> Seq(Callback)]
    BY DEF Init
  <2> QED
    BY <2>1, <2>2, <2>3 DEF Init, TypeOK
<1>2. CountsExact
  <2>1. NanoappRequests = {} /\ SystemRequests = {}
    BY DEF Init, NanoappRequests, SystemRequests
  <2> QED
    BY <2>1, FS_EmptySet DEF Init, CountsExact
<1>3. \A l \in Loops : \A c : ~Queued(l, c)
  BY DEF Init, Queued
<1> QED
  BY <1>1, <1>2, <1>3 DEF Init, IInv, UniqueHandles, SystemUnfired,
     HandlesBelowNext, NoTimerForgotten, FiredAwaitsCallback,
     NoEarlyTimerEvent

-----------------------------------------------------------------------------
(* Types.                                                                  *)

\* Removing requests, as cancelTimer, cancelAllNanoappTimers and
\* handleTimerExpiredCallback do, keeps the types.
LEMMA RemoveTypes ==
  ASSUME TypeOK, NEW gone \in SUBSET mTimerRequests, NEW top,
         Remove(gone, top)
  PROVE  /\ mTimerRequests' \in SUBSET TimerRequest
         /\ IsFiniteSet(mTimerRequests')
         /\ mNumNanoappTimers' \in Int
         /\ mSystemTimer' \in Nat \cup {Off}
         /\ scheduling' \in BOOLEAN
<1>1. IsFiniteSet(mTimerRequests \ gone)
  BY FS_Difference DEF TypeOK
<1>2. IsFiniteSet({r \in gone : r.instanceId # System})
  BY FS_Subset DEF TypeOK
<1>3. Cardinality({r \in gone : r.instanceId # System}) \in Nat
  BY <1>2, FS_CardinalityType
<1>4. scheduling' \in BOOLEAN
  BY Zenon DEF Remove, TypeOK
<1>5. mSystemTimer' \in Nat \cup {Off}
  BY DEF Remove, TypeOK
<1> QED
  BY <1>1, <1>3, <1>4, <1>5 DEF Remove, TypeOK

\* Every callback that the pool defers is of its type.
LEMMA CallbackTypes ==
  /\ Tick \in Callback
  /\ \A h \in Handles : Expired(h) \in Callback /\ SystemCallback(h) \in Callback
BY DEF Callback

\* No operation of the pool puts a value of another type in a field.
LEMMA TypeStep == TypeOK /\ [Next]_vars => TypeOK'
<1> SUFFICES ASSUME TypeOK, [Next]_vars PROVE TypeOK'
  OBVIOUS
<1> USE PoolAssumption
<1>1. ASSUME NEW o \in Owners, NEW d \in Durations, NEW b \in BOOLEAN,
             SetTimer(o, d, b)
      PROVE  TypeOK'
  <2>1. PICK h \in Handles :
          /\ mLastTimerHandle' = h
          /\ \/ InsertAndSchedule([timerHandle |-> h, instanceId |-> o,
                  expirationTime |-> now + d, duration |-> d, isOneShot |-> b])
             \/ UNCHANGED <<mTimerRequests, mNumNanoappTimers, mSystemTimer,
                            scheduling>>
    BY <1>1 DEF SetTimer
  <2>2. now + d \in 0..AlreadyFired /\ now + d \in Nat
    BY DEF TypeOK
  <2> DEFINE request == [timerHandle |-> h, instanceId |-> o,
               expirationTime |-> now + d, duration |-> d, isOneShot |-> b]
  <2>3. request \in TimerRequest
    BY <2>2 DEF TimerRequest
  <2>4. IsFiniteSet(mTimerRequests \cup {request})
    BY FS_AddElement DEF TypeOK
  <2>5. /\ mTimerRequests' \in SUBSET TimerRequest
        /\ IsFiniteSet(mTimerRequests')
        /\ mNumNanoappTimers' \in Int
        /\ mSystemTimer' \in Nat \cup {Off}
        /\ scheduling' \in BOOLEAN
    <3>1. CASE InsertAndSchedule(request)
      <4>1. scheduling' \in BOOLEAN
        BY <3>1, Zenon DEF InsertAndSchedule, TypeOK
      <4>2. mSystemTimer' \in Nat \cup {Off}
        BY <3>1, <2>2 DEF InsertAndSchedule, TypeOK
      <4> QED
        BY <3>1, <2>3, <2>4, <4>1, <4>2 DEF InsertAndSchedule, TypeOK
    <3>2. CASE UNCHANGED <<mTimerRequests, mNumNanoappTimers, mSystemTimer,
                           scheduling>>
      BY <3>2 DEF TypeOK
    <3> QED
      BY <3>1, <3>2, <2>1
  <2> QED
    BY <2>1, <2>5, <1>1 DEF SetTimer, TypeOK, MustCheckNow
<1>2. ASSUME NEW o \in Owners, NEW h \in Handles, CancelTimer(o, h)
      PROVE  TypeOK'
  BY <1>2, RemoveTypes DEF CancelTimer, TypeOK, Of
<1>3. ASSUME NEW a \in Nanoapps, CancelAllNanoappTimers(a)
      PROVE  TypeOK'
  <2>1. PICK gone \in SUBSET Of(a) :
          IF gone = {}
          THEN UNCHANGED <<mTimerRequests, mNumNanoappTimers, mSystemTimer,
                           scheduling>>
          ELSE \E top \in Tops(mTimerRequests) : Remove(gone, top)
    BY <1>3 DEF CancelAllNanoappTimers
  <2>2. gone \in SUBSET mTimerRequests
    BY DEF Of
  <2> QED
    BY <1>3, <2>1, <2>2, RemoveTypes DEF CancelAllNanoappTimers, TypeOK
<1>4. CASE SystemTimerFires
  BY <1>4, CallbackTypes DEF SystemTimerFires, TypeOK
<1>5. CASE ScheduleNext
  <2>1. CASE mTimerRequests = {}
    BY <1>5, <2>1 DEF ScheduleNext, TypeOK, Tops
  <2>2. ASSUME NEW top \in Tops(mTimerRequests), now >= top.expirationTime,
               queue' = [queue EXCEPT ![LoopOf[top.instanceId]] =
                            Append(@, ExpiryCallback(top))],
               mTimerRequests' =
                  (mTimerRequests \ {top}) \cup Rescheduled(top),
               UNCHANGED <<mNumNanoappTimers, mSystemTimer, scheduling>>
        PROVE  TypeOK'
    <3>1. top \in TimerRequest
      BY DEF Tops, TypeOK
    <3>2. ExpiryCallback(top) \in Callback
      BY <3>1, CallbackTypes DEF ExpiryCallback, TimerRequest
    <3>3. queue' \in [Loops -> Seq(Callback)]
      <4>1. LoopOf[top.instanceId] \in Loops
        BY <3>1 DEF TimerRequest
      <4> QED
        BY <2>2, <3>2, <4>1 DEF TypeOK
    <3>4. top.expirationTime + top.duration \in 0..AlreadyFired
      <4>1. /\ top.expirationTime \in Nat /\ top.duration \in Durations
            /\ now \in Nat /\ now <= MaxTime
        BY <3>1 DEF TypeOK, TimerRequest
      <4>2. top.duration \in Nat /\ MaxTime + top.duration < AlreadyFired
        BY <4>1
      <4> QED
        BY <2>2, <4>1, <4>2
    <3>5. Rescheduled(top) \in SUBSET TimerRequest
      BY <3>1, <3>4 DEF Rescheduled, TimerRequest
    <3>6. IsFiniteSet(Rescheduled(top))
      BY FS_EmptySet, FS_Singleton DEF Rescheduled
    <3>7. IsFiniteSet(mTimerRequests')
      BY <2>2, <3>6, FS_Difference, FS_Union DEF TypeOK
    <3> QED
      BY <1>5, <2>2, <3>3, <3>5, <3>7 DEF ScheduleNext, TypeOK
  <2>3. ASSUME NEW top \in Tops(mTimerRequests),
               mSystemTimer' = IF top.expirationTime < AlreadyFired
                               THEN top.expirationTime ELSE mSystemTimer,
               scheduling' = FALSE,
               UNCHANGED <<mTimerRequests, mNumNanoappTimers, queue>>
        PROVE  TypeOK'
    <3>1. top \in TimerRequest
      BY DEF Tops, TypeOK
    <3>2. mSystemTimer' \in Nat \cup {Off}
      BY <2>3, <3>1 DEF TypeOK, TimerRequest
    <3> QED
      BY <1>5, <2>3, <3>2 DEF ScheduleNext, TypeOK
  <2> QED
    BY <1>5, <2>1, <2>2, <2>3 DEF ScheduleNext
<1>6. ASSUME NEW l \in Loops, RunTick(l)
      PROVE  TypeOK'
  BY <1>6 DEF RunTick, TypeOK
<1>7. ASSUME NEW l \in Loops, RunExpired(l)
      PROVE  TypeOK'
  <2>1. queue' \in [Loops -> Seq(Callback)]
    BY <1>7 DEF RunExpired, TypeOK
  <2>2. \/ \E r, top \in mTimerRequests : Remove({r}, top)
        \/ UNCHANGED <<mTimerRequests, mNumNanoappTimers, mSystemTimer,
                       scheduling>>
    BY <1>7 DEF RunExpired, Tops
  <2>3. /\ mTimerRequests' \in SUBSET TimerRequest
        /\ IsFiniteSet(mTimerRequests')
        /\ mNumNanoappTimers' \in Int
        /\ mSystemTimer' \in Nat \cup {Off}
        /\ scheduling' \in BOOLEAN
    BY <2>2, RemoveTypes DEF TypeOK
  <2> QED
    BY <1>7, <2>1, <2>3 DEF RunExpired, TypeOK
<1>8. ASSUME NEW l \in Loops, RunSystemCallback(l)
      PROVE  TypeOK'
  BY <1>8 DEF RunSystemCallback, TypeOK
<1>9. CASE ClockAdvances
  BY <1>9 DEF ClockAdvances, TypeOK
<1>10. CASE UNCHANGED vars
  BY <1>10 DEF vars, TypeOK
<1> QED
  BY <1>1, <1>2, <1>3, <1>4, <1>5, <1>6, <1>7, <1>8, <1>9, <1>10 DEF Next

-----------------------------------------------------------------------------
(* The counts.                                                             *)

\* The heap holds the nanoapps' and the framework's requests, nothing else.
LEMMA TwoKinds ==
  ASSUME TypeOK
  PROVE  /\ IsFiniteSet(NanoappRequests) /\ IsFiniteSet(SystemRequests)
         /\ Cardinality(NanoappRequests) \in Nat
         /\ Cardinality(SystemRequests) \in Nat
         /\ Cardinality(mTimerRequests)
              = Cardinality(NanoappRequests) + Cardinality(SystemRequests)
<1>1. /\ NanoappRequests \in SUBSET mTimerRequests
      /\ SystemRequests \in SUBSET mTimerRequests
  BY DEF NanoappRequests, SystemRequests
<1>2. IsFiniteSet(NanoappRequests) /\ IsFiniteSet(SystemRequests)
  BY <1>1, FS_Subset DEF TypeOK
<1>3. mTimerRequests = NanoappRequests \cup SystemRequests
  BY DEF NanoappRequests, SystemRequests
<1>4. NanoappRequests \cap SystemRequests = {}
  BY DEF NanoappRequests, SystemRequests
<1>5. /\ Cardinality(NanoappRequests) \in Nat
      /\ Cardinality(SystemRequests) \in Nat
  BY <1>2, FS_CardinalityType
<1>6. Cardinality(mTimerRequests)
        = Cardinality(NanoappRequests) + Cardinality(SystemRequests)
            - Cardinality(NanoappRequests \cap SystemRequests)
  BY <1>2, <1>3, FS_Union
<1>7. Cardinality(NanoappRequests \cap SystemRequests) = 0
  BY <1>4, FS_EmptySet
<1> QED
  BY <1>2, <1>5, <1>6, <1>7

\* removeTimerRequestLocked gives back exactly what it takes out.
LEMMA RemoveCounts ==
  ASSUME TypeOK, CountsExact, NEW gone \in SUBSET mTimerRequests, NEW top,
         Remove(gone, top)
  PROVE  CountsExact'
<1>1. NanoappRequests' = NanoappRequests \ {r \in gone : r.instanceId # System}
  BY DEF NanoappRequests, Remove
<1>2. NanoappRequests \cap {r \in gone : r.instanceId # System}
        = {r \in gone : r.instanceId # System}
  BY DEF NanoappRequests
<1>3. SystemRequests' \in SUBSET SystemRequests
  BY DEF SystemRequests, Remove
<1>4. /\ Cardinality(NanoappRequests') = Cardinality(NanoappRequests)
           - Cardinality({r \in gone : r.instanceId # System})
      /\ IsFiniteSet(NanoappRequests')
  <2> DEFINE T == {r \in gone : r.instanceId # System}
  <2> HIDE DEF T
  <2>1. IsFiniteSet(NanoappRequests)
    BY TwoKinds
  <2>2. /\ IsFiniteSet(NanoappRequests \ T)
        /\ Cardinality(NanoappRequests \ T)
             = Cardinality(NanoappRequests) - Cardinality(NanoappRequests \cap T)
    BY <2>1, FS_Difference
  <2>3. NanoappRequests' = NanoappRequests \ T /\ NanoappRequests \cap T = T
    BY <1>1, <1>2 DEF T
  <2>4. Cardinality(NanoappRequests')
          = Cardinality(NanoappRequests) - Cardinality(T)
    BY <2>2, <2>3
  <2> QED
    BY <2>2, <2>3, <2>4 DEF T
<1>5. /\ Cardinality(SystemRequests') <= Cardinality(SystemRequests)
      /\ IsFiniteSet(SystemRequests')
  BY <1>3, TwoKinds, FS_Subset
<1>6. NanoappRequests' \in SUBSET NanoappRequests
  BY <1>1
<1>7. Cardinality(NanoappRequests') <= Cardinality(NanoappRequests)
  BY <1>6, TwoKinds, FS_Subset
<1>8. Cardinality(NanoappRequests') \in Nat /\ Cardinality(SystemRequests') \in Nat
  BY <1>4, <1>5, FS_CardinalityType
<1> QED
  BY <1>4, <1>5, <1>7, <1>8, TwoKinds, PoolAssumption DEF CountsExact, Remove

\* insertTimerRequestLocked stays within the limits.
LEMMA InsertCounts ==
  ASSUME TypeOK, CountsExact, NEW request, request \notin mTimerRequests,
         InsertAndSchedule(request)
  PROVE  CountsExact'
<1>1. CASE request.instanceId # System
  <2>1. /\ NanoappRequests' = NanoappRequests \cup {request}
        /\ request \notin NanoappRequests
        /\ SystemRequests' = SystemRequests
    BY <1>1 DEF NanoappRequests, SystemRequests, InsertAndSchedule
  <2>2. Cardinality(NanoappRequests') = Cardinality(NanoappRequests) + 1
    BY <2>1, TwoKinds, FS_AddElement
  <2>3. /\ mNumNanoappTimers' = mNumNanoappTimers + 1
        /\ mNumNanoappTimers < kMaxNanoappTimers
    BY <1>1 DEF InsertAndSchedule, IsNewTimerAllowed
  <2> QED
    BY <2>1, <2>2, <2>3, TwoKinds, PoolAssumption DEF CountsExact
<1>2. CASE request.instanceId = System
  <2>1. /\ SystemRequests' = SystemRequests \cup {request}
        /\ request \notin SystemRequests
        /\ NanoappRequests' = NanoappRequests
    BY <1>2 DEF NanoappRequests, SystemRequests, InsertAndSchedule
  <2>2. Cardinality(SystemRequests') = Cardinality(SystemRequests) + 1
    BY <2>1, TwoKinds, FS_AddElement
  <2>3. /\ mNumNanoappTimers' = mNumNanoappTimers
        /\ Cardinality(mTimerRequests) - mNumNanoappTimers
             < kMaxTimerRequests - kNumReservedNanoappTimers
    BY <1>2 DEF InsertAndSchedule, IsNewTimerAllowed, TypeOK
  <2> QED
    BY <2>1, <2>2, <2>3, TwoKinds, PoolAssumption DEF CountsExact
<1> QED
  BY <1>1, <1>2

\* rescheduleAndRemoveExpiredTimersLocked replaces a nanoapp's request by one
\* with the same handle and owner, and drops a framework's request.
LEMMA RescheduleCounts ==
  ASSUME TypeOK, CountsExact, UniqueHandles, SystemUnfired,
         NEW top \in mTimerRequests,
         mTimerRequests' = (mTimerRequests \ {top}) \cup Rescheduled(top),
         UNCHANGED mNumNanoappTimers
  PROVE  CountsExact'
<1>1. CASE top.instanceId = System
  <2>1. /\ SystemRequests' \in SUBSET SystemRequests
        /\ NanoappRequests' = NanoappRequests
    BY <1>1 DEF NanoappRequests, SystemRequests, Rescheduled, SystemUnfired
  <2>2. /\ Cardinality(SystemRequests') <= Cardinality(SystemRequests)
        /\ IsFiniteSet(SystemRequests')
    BY <2>1, TwoKinds, FS_Subset
  <2>3. Cardinality(SystemRequests') \in Nat
    BY <2>2, FS_CardinalityType
  <2> QED
    BY <2>1, <2>2, <2>3, TwoKinds, PoolAssumption DEF CountsExact
<1>2. CASE top.instanceId # System
  <2> DEFINE next == [top EXCEPT !.expirationTime =
                        IF top.isOneShot THEN AlreadyFired
                        ELSE top.expirationTime + top.duration]
  <2>1. /\ Rescheduled(top) = {next}
        /\ next.timerHandle = top.timerHandle
        /\ next.instanceId = top.instanceId
    BY <1>2 DEF Rescheduled, TypeOK, TimerRequest
  <2> HIDE DEF next
  <2>2. next \notin mTimerRequests \ {top}
    BY <2>1 DEF UniqueHandles
  <2>3. /\ NanoappRequests' = (NanoappRequests \ {top}) \cup {next}
        /\ top \in NanoappRequests
        /\ next \notin NanoappRequests \ {top}
        /\ SystemRequests' = SystemRequests
    BY <1>2, <2>1, <2>2 DEF NanoappRequests, SystemRequests
  <2>4. /\ IsFiniteSet(NanoappRequests \ {top})
        /\ Cardinality(NanoappRequests \ {top})
             = Cardinality(NanoappRequests) - 1
    BY <2>3, TwoKinds, FS_RemoveElement
  <2>5. Cardinality(NanoappRequests') = Cardinality(NanoappRequests)
    <3>1. Cardinality((NanoappRequests \ {top}) \cup {next})
            = Cardinality(NanoappRequests \ {top}) + 1
      BY <2>3, <2>4, FS_AddElement
    <3> QED
      BY <3>1, <2>3, <2>4, TwoKinds
  <2> QED
    BY <2>3, <2>5 DEF CountsExact
<1> QED
  BY <1>1, <1>2

-----------------------------------------------------------------------------
(* One lemma per kind of step.                                             *)

\* A step that changes neither the requests, the handles, the timer nor the
\* queues (a refused cancel, the clock).
LEMMA IdleStep ==
  ASSUME IInv, TypeOK',
         UNCHANGED <<mTimerRequests, mNumNanoappTimers, mLastTimerHandle,
                     mustCheckUniqueness, mSystemTimer, queue, scheduling>>
  PROVE  IInv'
BY DEF IInv, CountsExact, NanoappRequests, SystemRequests, UniqueHandles,
   SystemUnfired, HandlesBelowNext, NoTimerForgotten, FiredAwaitsCallback,
   NoEarlyTimerEvent, Queued, Successor, Ahead

\* removeTimerRequestLocked under cancelTimer or cancelAllNanoappTimers.
LEMMA RemoveStep ==
  ASSUME IInv, TypeOK', NEW gone \in SUBSET mTimerRequests, NEW top,
         Remove(gone, top),
         UNCHANGED <<mLastTimerHandle, mustCheckUniqueness, queue>>
  PROVE  IInv'
<1>1. mTimerRequests' \in SUBSET mTimerRequests
  BY DEF Remove
<1>2. CountsExact'
  BY RemoveCounts DEF IInv
<1>3. \A l, c : Queued(l, c)' = Queued(l, c)
  BY DEF Queued
<1>4. Successor(mLastTimerHandle)' = Successor(mLastTimerHandle)
  BY DEF Successor, Ahead
<1>5. NoTimerForgotten'
  <2>1. CASE top \in gone
    BY <2>1 DEF Remove, NoTimerForgotten
  <2>2. CASE top \notin gone
    BY <2>2, <1>1, <1>3 DEF Remove, NoTimerForgotten, IInv
  <2> QED
    BY <2>1, <2>2
<1>6. HandlesBelowNext'
  BY <1>1, <1>3, <1>4 DEF IInv, HandlesBelowNext
<1>7. UniqueHandles' /\ SystemUnfired'
  BY <1>1 DEF IInv, UniqueHandles, SystemUnfired
<1>8. FiredAwaitsCallback' /\ NoEarlyTimerEvent'
  BY <1>1, <1>3 DEF IInv, FiredAwaitsCallback, NoEarlyTimerEvent
<1> QED
  BY <1>2, <1>5, <1>6, <1>7, <1>8 DEF IInv

\* setTimer.
LEMMA SetTimerStep ==
  ASSUME IInv, TypeOK', NEW o \in Owners, NEW d \in Durations,
         NEW b \in BOOLEAN, SetTimer(o, d, b)
  PROVE  IInv'
<1> USE PoolAssumption
<1>1. PICK h \in Handles :
        /\ GenerateTimerHandle(h)
        /\ mLastTimerHandle' = h
        /\ \/ InsertAndSchedule([timerHandle |-> h, instanceId |-> o,
                expirationTime |-> now + d, duration |-> d, isOneShot |-> b])
           \/ UNCHANGED <<mTimerRequests, mNumNanoappTimers, mSystemTimer,
                          scheduling>>
  BY DEF SetTimer
<1> DEFINE request == [timerHandle |-> h, instanceId |-> o,
             expirationTime |-> now + d, duration |-> d, isOneShot |-> b]
<1>2. /\ ~InUse(h)
      /\ ~MustCheckNow =>
           /\ h = Successor(mLastTimerHandle)
           /\ Successor(h) = h + 1
           /\ \A l \in Loops : ~Queued(l, Expired(h))
  BY <1>1, NewHandle
<1>3. /\ \A l, c : Queued(l, c)' = Queued(l, c)
      /\ mustCheckUniqueness' = MustCheckNow
  BY DEF SetTimer, Queued
<1>4. now \in Nat /\ d \in Nat /\ now + d < AlreadyFired
  BY DEF IInv, TypeOK
<1>5. mTimerRequests' \in SUBSET (mTimerRequests \cup {request})
  BY <1>1 DEF InsertAndSchedule
<1>6. request \notin mTimerRequests
  BY <1>2 DEF InUse
<1>7. CountsExact'
  <2>1. CASE InsertAndSchedule(request)
    BY <2>1, <1>6, InsertCounts DEF IInv
  <2>2. CASE UNCHANGED <<mTimerRequests, mNumNanoappTimers>>
    BY <2>2 DEF IInv, CountsExact, NanoappRequests, SystemRequests
  <2> QED
    BY <1>1, <2>1, <2>2
<1>8. UniqueHandles'
  BY <1>2, <1>5 DEF IInv, UniqueHandles, InUse
<1>9. SystemUnfired'
  BY <1>4, <1>5 DEF IInv, SystemUnfired, SetTimer
<1>10. HandlesBelowNext'
  <2> SUFFICES ASSUME ~mustCheckUniqueness'
               PROVE  /\ \A r \in mTimerRequests' : r.timerHandle < h + 1
                      /\ \A l \in Loops, g \in Handles :
                           Queued(l, Expired(g)) => g < h + 1
    BY <1>1, <1>2, <1>3 DEF HandlesBelowNext, Successor, Ahead, Expired
  <2>1. h = Successor(mLastTimerHandle) /\ ~mustCheckUniqueness
    BY <1>2, <1>3 DEF MustCheckNow
  <2>2. \A r \in mTimerRequests : r.timerHandle \in Int /\ r.timerHandle < h
    BY <2>1 DEF IInv, HandlesBelowNext, TypeOK, TimerRequest, Handles
  <2>3. \A l \in Loops, g \in Handles : Queued(l, Expired(g)) => g < h
    BY <2>1 DEF IInv, HandlesBelowNext
  <2>4. h \in Int /\ \A g \in Handles : g \in Int
    BY DEF Handles
  <2> QED
    BY <2>2, <2>3, <2>4, <1>5
<1>11. NoTimerForgotten'
  <2>1. CASE InsertAndSchedule(request) /\ mTimerRequests # {}
    <3> SUFFICES ASSUME NEW r \in mTimerRequests'
                 PROVE  \/ r.expirationTime = AlreadyFired
                        \/ mSystemTimer' # Off /\ mSystemTimer' <= r.expirationTime
                        \/ Queued(MainLoop, Tick)
      BY <1>3 DEF NoTimerForgotten
    <3>1. ~scheduling
      BY DEF SetTimer
    <3>2. \A q \in mTimerRequests : q.expirationTime \in 0..AlreadyFired
      BY DEF IInv, TypeOK, TimerRequest
    <3>3. CASE \A q \in mTimerRequests : now + d < q.expirationTime
      <4>1. mSystemTimer' = now + d
        BY <2>1, <3>3 DEF InsertAndSchedule
      <4>2. now + d <= r.expirationTime
        BY <1>4, <1>5, <3>2, <3>3
      <4> QED
        BY <4>1, <4>2, <1>4 DEF Off
    <3>4. CASE ~(\A q \in mTimerRequests : now + d < q.expirationTime)
      <4>1. mSystemTimer' = mSystemTimer
        BY <2>1, <3>4 DEF InsertAndSchedule
      <4>2. PICK q \in mTimerRequests : ~(now + d < q.expirationTime)
        BY <3>4
      <4>3. q.expirationTime \in Nat /\ q.expirationTime < AlreadyFired
        BY <4>2, <3>2, <1>4
      <4>4. \/ mSystemTimer # Off /\ mSystemTimer <= q.expirationTime
            \/ Queued(MainLoop, Tick)
        BY <3>1, <4>3 DEF IInv, NoTimerForgotten
      <4>5. mSystemTimer \in Int
        BY DEF IInv, TypeOK, Off
      <4>6. CASE r \in mTimerRequests
        BY <4>1, <4>6, <3>1 DEF IInv, NoTimerForgotten
      <4>7. CASE r = request
        <5>1. q.expirationTime <= r.expirationTime /\ r.expirationTime \in Nat
          BY <4>7, <4>2, <4>3, <1>4
        <5> QED
          BY <5>1, <4>1, <4>3, <4>4, <4>5
      <4> QED
        BY <4>6, <4>7, <1>5
    <3> QED
      BY <3>3, <3>4
  <2>2. CASE InsertAndSchedule(request) /\ mTimerRequests = {}
    BY <2>2 DEF InsertAndSchedule, NoTimerForgotten
  <2>3. CASE UNCHANGED <<mTimerRequests, mSystemTimer, scheduling>>
    BY <2>3, <1>3 DEF IInv, NoTimerForgotten
  <2> QED
    BY <1>1, <2>1, <2>2, <2>3
<1>12. FiredAwaitsCallback'
  BY <1>3, <1>4, <1>5 DEF IInv, FiredAwaitsCallback, Expired
<1>13. NoEarlyTimerEvent'
  <2> SUFFICES ASSUME ~mustCheckUniqueness', NEW l \in Loops,
                      NEW r \in mTimerRequests', r.isOneShot,
                      Queued(l, Expired(r.timerHandle))
               PROVE  r.expirationTime = AlreadyFired
    BY <1>3 DEF NoEarlyTimerEvent, Expired
  <2>1. ~MustCheckNow /\ ~mustCheckUniqueness
    BY <1>3 DEF MustCheckNow
  <2>2. r # request
    BY <1>2, <2>1
  <2> QED
    BY <2>1, <2>2, <1>5 DEF IInv, NoEarlyTimerEvent
<1> QED
  BY <1>7, <1>8, <1>9, <1>10, <1>11, <1>12, <1>13 DEF IInv

\* The system timer's thread defers a tick.
LEMMA FiresStep ==
  ASSUME IInv, TypeOK', SystemTimerFires
  PROVE  IInv'
<1> USE PoolAssumption
<1>1. /\ Queued(MainLoop, Tick)'
      /\ \A l \in Loops : \A c : Queued(l, c) => Queued(l, c)'
      /\ \A l \in Loops, h \in Handles :
           Queued(l, Expired(h))' => Queued(l, Expired(h))
  <2>1. ASSUME NEW c
        PROVE  Queued(MainLoop, c)' <=> c = Tick \/ Queued(MainLoop, c)
    <3>1. /\ queue[MainLoop] \in Seq(Callback)
          /\ queue'[MainLoop] = Append(queue[MainLoop], Tick)
      BY DEF SystemTimerFires, IInv, TypeOK
    <3> QED
      BY <3>1, AppendQueued, CallbackTypes DEF Queued
  <2>2. \A l \in Loops : l # MainLoop => queue'[l] = queue[l]
    BY DEF SystemTimerFires, IInv, TypeOK
  <2>3. \A h : Expired(h) # Tick
    BY DEF Expired, Tick
  <2>4. \A l \in Loops : \A c : l # MainLoop => (Queued(l, c)' <=> Queued(l, c))
    BY <2>2 DEF Queued
  <2> QED
    BY <2>1, <2>3, <2>4
<1>2. CountsExact' /\ UniqueHandles' /\ SystemUnfired'
  BY DEF IInv, SystemTimerFires, CountsExact, NanoappRequests,
     SystemRequests, UniqueHandles, SystemUnfired
<1>3. HandlesBelowNext' /\ NoTimerForgotten'
  BY <1>1 DEF IInv, SystemTimerFires, HandlesBelowNext, NoTimerForgotten,
     Successor, Ahead, Expired
<1>4. \A r \in mTimerRequests : r.timerHandle \in Handles
                                /\ LoopOf[r.instanceId] \in Loops
  BY DEF IInv, TypeOK, TimerRequest
<1>5. FiredAwaitsCallback' /\ NoEarlyTimerEvent'
  BY <1>1, <1>4 DEF IInv, SystemTimerFires, FiredAwaitsCallback,
     NoEarlyTimerEvent, Expired
<1> QED
  BY <1>2, <1>3, <1>5 DEF IInv

\* Popping a queue loses its head only.
LEMMA PopQueued ==
  ASSUME TypeOK, NEW l \in Loops, queue[l] # <<>>,
         queue' = [queue EXCEPT ![l] = Tail(@)]
  PROVE  /\ \A m \in Loops : \A c : Queued(m, c)' => Queued(m, c)
         /\ \A m \in Loops : \A c :
              Queued(m, c) => Queued(m, c)' \/ (m = l /\ c = Head(queue[l]))
<1>1. queue[l] \in Seq(Callback) /\ queue'[l] = Tail(queue[l])
  BY DEF TypeOK
<1>2. \A m \in Loops : m # l => queue'[m] = queue[m]
  BY DEF TypeOK
<1>3. ASSUME NEW c
      PROVE  /\ Queued(l, c)' => Queued(l, c)
             /\ Queued(l, c) => Queued(l, c)' \/ c = Head(queue[l])
  <2> DEFINE q == queue[l]
  <2>1. q \in Seq(Callback) /\ q # <<>>
    BY <1>1
  <2>2. /\ (\E i \in DOMAIN Tail(q) : Tail(q)[i] = c)
             => (\E i \in DOMAIN q : q[i] = c)
        /\ (\E i \in DOMAIN q : q[i] = c)
             => (c = Head(q) \/ \E i \in DOMAIN Tail(q) : Tail(q)[i] = c)
    <3> HIDE DEF q
    <3> QED
      BY <2>1, TailQueued
  <2> QED
    BY <1>1, <2>2, Zenon DEF Queued
<1>4. \A m \in Loops : \A c : m # l => (Queued(m, c)' <=> Queued(m, c))
  BY <1>2 DEF Queued
<1> QED
  BY <1>3, <1>4

\* A loop runs a callback that leaves the requests alone: the tick (which
\* starts the scheduling loop) or a system timer's callback.
LEMMA PopStep ==
  ASSUME IInv, TypeOK', NEW l \in Loops, queue[l] # <<>>,
         queue' = [queue EXCEPT ![l] = Tail(@)],
         \A h : Head(queue[l]) # Expired(h),
         scheduling' \/ (scheduling' = scheduling /\ Head(queue[l]) # Tick),
         UNCHANGED <<mTimerRequests, mNumNanoappTimers, mLastTimerHandle,
                     mustCheckUniqueness, mSystemTimer>>
  PROVE  IInv'
<1> USE PoolAssumption
<1>1. /\ \A m \in Loops : \A c : Queued(m, c)' => Queued(m, c)
      /\ \A m \in Loops : \A c :
           Queued(m, c) => Queued(m, c)' \/ (m = l /\ c = Head(queue[l]))
  BY PopQueued DEF IInv
<1>2. CountsExact' /\ UniqueHandles' /\ SystemUnfired'
  BY DEF IInv, CountsExact, NanoappRequests, SystemRequests, UniqueHandles,
     SystemUnfired
<1>3. HandlesBelowNext'
  BY <1>1 DEF IInv, HandlesBelowNext, Successor, Ahead, Expired
<1>4. NoTimerForgotten'
  <2>1. CASE scheduling'
    BY <2>1 DEF NoTimerForgotten
  <2>2. CASE scheduling' = scheduling /\ Head(queue[l]) # Tick
    BY <2>2, <1>1 DEF IInv, NoTimerForgotten, Tick
  <2> QED
    BY <2>1, <2>2
<1>5. \A r \in mTimerRequests : LoopOf[r.instanceId] \in Loops
  BY DEF IInv, TypeOK, TimerRequest
<1>6. FiredAwaitsCallback' /\ NoEarlyTimerEvent'
  BY <1>1, <1>5 DEF IInv, FiredAwaitsCallback, NoEarlyTimerEvent, Expired
<1> QED
  BY <1>2, <1>3, <1>4, <1>6 DEF IInv

\* handleTimerExpiredCallback.
LEMMA RunExpiredStep ==
  ASSUME IInv, TypeOK', NEW l \in Loops, RunExpired(l)
  PROVE  IInv'
<1> USE PoolAssumption
<1>1. PICK h \in Handles :
        /\ Head(queue[l]) = Expired(h)
        /\ IF \E r \in mTimerRequests : r.timerHandle = h /\ r.isOneShot
           THEN \E r \in mTimerRequests, top \in Tops(mTimerRequests) :
                  r.timerHandle = h /\ Remove({r}, top)
           ELSE UNCHANGED <<mTimerRequests, mNumNanoappTimers, mSystemTimer,
                            scheduling>>
  BY DEF RunExpired
<1>2. /\ \A m \in Loops : \A c : Queued(m, c)' => Queued(m, c)
      /\ \A m \in Loops : \A c :
           Queued(m, c) => Queued(m, c)' \/ (m = l /\ c = Expired(h))
  BY <1>1, PopQueued DEF IInv, RunExpired
<1>3. mTimerRequests' \in SUBSET mTimerRequests
  BY <1>1 DEF Remove
<1>4. ASSUME NEW r \in mTimerRequests', r.isOneShot
      PROVE  r.timerHandle # h
  <2>1. CASE \E q \in mTimerRequests : q.timerHandle = h /\ q.isOneShot
    BY <1>1, <1>4, <2>1 DEF Remove, IInv, UniqueHandles
  <2>2. CASE ~\E q \in mTimerRequests : q.timerHandle = h /\ q.isOneShot
    BY <1>3, <1>4, <2>2
  <2> QED
    BY <2>1, <2>2
<1>5. CountsExact'
  <2>1. CASE \E r \in mTimerRequests : \E top : Remove({r}, top)
    BY <2>1, RemoveCounts DEF IInv
  <2>2. CASE UNCHANGED <<mTimerRequests, mNumNanoappTimers>>
    BY <2>2 DEF IInv, CountsExact, NanoappRequests, SystemRequests
  <2> QED
    BY <1>1, <2>1, <2>2
<1>6. UniqueHandles' /\ SystemUnfired'
  BY <1>3 DEF IInv, UniqueHandles, SystemUnfired
<1>7. HandlesBelowNext'
  BY <1>2, <1>3 DEF IInv, HandlesBelowNext, Successor, Ahead, Expired,
     RunExpired
<1>8. NoTimerForgotten'
  <2>1. Queued(MainLoop, Tick) => Queued(MainLoop, Tick)'
    BY <1>2 DEF Tick, Expired
  <2>2. CASE scheduling'
    BY <2>2 DEF NoTimerForgotten
  <2>3. CASE ~scheduling'
    <3>1. UNCHANGED <<mSystemTimer, scheduling>>
      BY <1>1, <2>3 DEF Remove
    <3> QED
      BY <3>1, <2>1, <1>3 DEF IInv, NoTimerForgotten, Tick
  <2> QED
    BY <2>2, <2>3
<1>9. FiredAwaitsCallback'
  <2> SUFFICES ASSUME NEW r \in mTimerRequests', r.isOneShot,
                      r.expirationTime = AlreadyFired
               PROVE  Queued(LoopOf[r.instanceId], Expired(r.timerHandle))'
    BY DEF FiredAwaitsCallback
  <2>1. Queued(LoopOf[r.instanceId], Expired(r.timerHandle))
    BY <1>3 DEF IInv, FiredAwaitsCallback
  <2>2. LoopOf[r.instanceId] \in Loops
    BY <1>3 DEF IInv, TypeOK, TimerRequest
  <2>3. Expired(r.timerHandle) # Expired(h)
    BY <1>4 DEF Expired
  <2> QED
    BY <1>2, <2>1, <2>2, <2>3
<1>10. NoEarlyTimerEvent'
  BY <1>2, <1>3 DEF IInv, NoEarlyTimerEvent, Expired, RunExpired
<1> QED
  BY <1>5, <1>6, <1>7, <1>8, <1>9, <1>10 DEF IInv

\* One iteration of handleExpiredTimersAndScheduleNextLocked that finds an
\* expired top.
LEMMA ExpireStep ==
  ASSUME IInv, TypeOK', scheduling, NEW top \in Tops(mTimerRequests),
         now >= top.expirationTime,
         queue' = [queue EXCEPT ![LoopOf[top.instanceId]] =
                     Append(@, ExpiryCallback(top))],
         mTimerRequests' = (mTimerRequests \ {top}) \cup Rescheduled(top),
         UNCHANGED <<mNumNanoappTimers, mSystemTimer, scheduling,
                     mLastTimerHandle, mustCheckUniqueness>>
  PROVE  IInv'
<1> USE PoolAssumption
<1>1. top \in mTimerRequests /\ top \in TimerRequest
  BY DEF Tops, IInv, TypeOK
<1>2. /\ top.timerHandle \in Handles
      /\ top.instanceId \in Owners
      /\ LoopOf[top.instanceId] \in Loops
  BY <1>1 DEF TimerRequest
<1>13. PICK m \in Loops, e \in Callback :
          m = LoopOf[top.instanceId] /\ e = ExpiryCallback(top)
  BY <1>2, CallbackTypes DEF ExpiryCallback
<1>3. \A l \in Loops : \A c : Queued(l, c)' <=> Queued(l, c) \/ (l = m /\ c = e)
  <2>1. queue[m] \in Seq(Callback) /\ queue'[m] = Append(queue[m], e)
    BY <1>13 DEF IInv, TypeOK
  <2>3. ASSUME NEW c
        PROVE  Queued(m, c)' <=> Queued(m, c) \/ c = e
    <3>1. PICK q \in Seq(Callback) : q = queue[m]
      BY <2>1
    <3>2. (\E i \in DOMAIN Append(q, e) : Append(q, e)[i] = c)
            <=> (c = e \/ \E i \in DOMAIN q : q[i] = c)
      <4>1. q \in Seq(Callback) /\ e \in Callback
        BY <1>13, <3>1
      <4> HIDE DEF Callback
      <4> QED
        BY ONLY <4>1, AppendQueued
    <3>3. /\ Queued(m, c)' <=> \E i \in DOMAIN Append(q, e) : Append(q, e)[i] = c
          /\ Queued(m, c) <=> \E i \in DOMAIN q : q[i] = c
      BY <2>1, <3>1, Zenon DEF Queued
    <3> QED
      BY <3>2, <3>3
  <2>4. \A l \in Loops : l # m => queue'[l] = queue[l]
    BY <1>13 DEF IInv, TypeOK
  <2>5. \A l \in Loops : \A c : l # m => (Queued(l, c)' <=> Queued(l, c))
    BY <2>4 DEF Queued
  <2> QED
    BY <2>3, <2>5
<1>4. \A h : e = Expired(h) => h = top.timerHandle /\ top.instanceId # System
  BY <1>13 DEF ExpiryCallback, Expired, SystemCallback
<1>5. ASSUME NEW r \in mTimerRequests'
      PROVE  \/ r \in mTimerRequests /\ r # top
             \/ /\ r.timerHandle = top.timerHandle
                /\ r.instanceId = top.instanceId
                /\ r.isOneShot = top.isOneShot
                /\ top.instanceId # System
                /\ r.isOneShot => r.expirationTime = AlreadyFired
  <2>1. CASE r \in mTimerRequests \ {top}
    BY <2>1
  <2>2. CASE r \in Rescheduled(top)
    <3>1. top.instanceId # System
      BY <1>1, <2>2 DEF IInv, SystemUnfired, Rescheduled
    <3>2. r = [top EXCEPT !.expirationTime =
                 IF top.isOneShot THEN AlreadyFired
                                  ELSE top.expirationTime + top.duration]
      BY <2>2 DEF Rescheduled
    <3> QED
      BY <1>1, <3>1, <3>2 DEF TimerRequest
  <2> QED
    BY <2>1, <2>2
<1>6. CountsExact'
  BY <1>1, RescheduleCounts DEF IInv
<1>7. UniqueHandles'
  <2>1. CASE top.instanceId = System
    BY <1>5, <2>1 DEF IInv, UniqueHandles
  <2>2. CASE top.instanceId # System
    <3>1. PICK t : Rescheduled(top) = {[top EXCEPT !.expirationTime = t]}
      BY <2>2 DEF Rescheduled
    <3>4. [top EXCEPT !.expirationTime = t].timerHandle = top.timerHandle
      BY <1>1 DEF TimerRequest
    <3>2. PICK q : /\ q = [top EXCEPT !.expirationTime = t]
                   /\ q.timerHandle = top.timerHandle
      BY <3>4, Zenon
    <3>3. mTimerRequests' = (mTimerRequests \ {top}) \cup {q}
      BY <3>1, <3>2
    <3> QED
      BY <3>2, <3>3, <1>1 DEF IInv, UniqueHandles
  <2> QED
    BY <2>1, <2>2
<1>8. SystemUnfired'
  BY <1>5 DEF IInv, SystemUnfired
<1>9. HandlesBelowNext'
  <2> SUFFICES ASSUME ~mustCheckUniqueness
               PROVE  /\ \A r \in mTimerRequests' :
                           r.timerHandle < Successor(mLastTimerHandle)
                      /\ \A l \in Loops, h \in Handles :
                           Queued(l, Expired(h))'
                             => h < Successor(mLastTimerHandle)
    BY DEF HandlesBelowNext, Successor, Ahead, Expired
  <2>1. top.timerHandle < Successor(mLastTimerHandle)
    BY <1>1 DEF IInv, HandlesBelowNext
  <2>2. \A r \in mTimerRequests' : r.timerHandle < Successor(mLastTimerHandle)
    BY <1>5, <2>1 DEF IInv, HandlesBelowNext
  <2>3. ASSUME NEW l \in Loops, NEW h \in Handles, Queued(l, Expired(h))'
        PROVE  h < Successor(mLastTimerHandle)
    BY <1>3, <1>4, <2>1, <2>3 DEF IInv, HandlesBelowNext
  <2> QED
    BY <2>2, <2>3
<1>10. NoTimerForgotten'
  BY DEF NoTimerForgotten
<1>11. FiredAwaitsCallback'
  <2> SUFFICES ASSUME NEW r \in mTimerRequests', r.isOneShot,
                      r.expirationTime = AlreadyFired
               PROVE  Queued(LoopOf[r.instanceId], Expired(r.timerHandle))'
    BY DEF FiredAwaitsCallback
  <2>1. CASE r \in mTimerRequests
    <3>1. Queued(LoopOf[r.instanceId], Expired(r.timerHandle))
      BY <2>1 DEF IInv, FiredAwaitsCallback
    <3>2. LoopOf[r.instanceId] \in Loops
      BY <2>1 DEF IInv, TypeOK, TimerRequest
    <3> QED
      BY <3>1, <3>2, <1>3
  <2>2. CASE r \notin mTimerRequests
    <3>1. /\ r.timerHandle = top.timerHandle /\ r.instanceId = top.instanceId
          /\ top.instanceId # System
      BY <1>5, <2>2
    <3>2. e = Expired(r.timerHandle) /\ m = LoopOf[r.instanceId]
      BY <3>1, <1>13 DEF ExpiryCallback
    <3> QED
      BY <3>2, <1>3
  <2> QED
    BY <2>1, <2>2
<1>12. NoEarlyTimerEvent'
  <2> SUFFICES ASSUME ~mustCheckUniqueness, NEW l \in Loops,
                      NEW r \in mTimerRequests', r.isOneShot,
                      Queued(l, Expired(r.timerHandle))'
               PROVE  r.expirationTime = AlreadyFired
    BY DEF NoEarlyTimerEvent
  <2>1. CASE r \in mTimerRequests /\ r # top
    <3>1. Expired(r.timerHandle) # e
      BY <1>1, <1>4, <2>1 DEF IInv, UniqueHandles
    <3> QED
      BY <1>3, <2>1, <3>1 DEF IInv, NoEarlyTimerEvent
  <2> QED
    BY <1>5, <2>1
<1> QED
  BY <1>6, <1>7, <1>8, <1>9, <1>10, <1>11, <1>12 DEF IInv

\* The last iteration: the system timer is armed for the earliest request.
LEMMA ArmStep ==
  ASSUME IInv, TypeOK', NEW top \in Tops(mTimerRequests),
         now < top.expirationTime,
         mSystemTimer' = IF top.expirationTime < AlreadyFired
                         THEN top.expirationTime ELSE mSystemTimer,
         UNCHANGED <<mTimerRequests, mNumNanoappTimers, queue,
                     mLastTimerHandle, mustCheckUniqueness>>
  PROVE  IInv'
<1>1. \A r \in mTimerRequests : r.expirationTime \in 0..AlreadyFired
  BY DEF IInv, TypeOK, TimerRequest
<1>2. NoTimerForgotten'
  <2> SUFFICES ASSUME NEW r \in mTimerRequests
               PROVE  \/ r.expirationTime = AlreadyFired
                      \/ mSystemTimer' # Off /\ mSystemTimer' <= r.expirationTime
    BY DEF NoTimerForgotten
  <2>1. /\ top.expirationTime <= r.expirationTime
        /\ top.expirationTime \in 0..AlreadyFired
        /\ r.expirationTime \in 0..AlreadyFired
    BY <1>1 DEF Tops
  <2> QED
    BY <2>1, PoolAssumption DEF Off
<1> QED
  BY <1>2 DEF IInv, CountsExact, NanoappRequests, SystemRequests,
     UniqueHandles, SystemUnfired, HandlesBelowNext, FiredAwaitsCallback,
     NoEarlyTimerEvent, Queued, Successor, Ahead

\* Every operation of the pool keeps the inductive invariant.
LEMMA IInvStep == IInv /\ [Next]_vars => IInv'
<1> SUFFICES ASSUME IInv, [Next]_vars PROVE IInv'
  OBVIOUS
<1>1. TypeOK'
  BY TypeStep DEF IInv
<1>2. ASSUME NEW o \in Owners, NEW d \in Durations, NEW b \in BOOLEAN,
             SetTimer(o, d, b)
      PROVE  IInv'
  BY <1>1, <1>2, SetTimerStep
<1>3. ASSUME NEW o \in Owners, NEW h \in Handles, CancelTimer(o, h)
      PROVE  IInv'
  <2>1. UNCHANGED <<mLastTimerHandle, mustCheckUniqueness, queue>>
    BY <1>3 DEF CancelTimer
  <2>2. CASE \E r \in mTimerRequests : \E top : Remove({r}, top)
    BY <1>1, <2>1, <2>2, RemoveStep
  <2>3. CASE UNCHANGED <<mTimerRequests, mNumNanoappTimers, mSystemTimer,
                         scheduling>>
    BY <1>1, <2>1, <2>3, IdleStep
  <2> QED
    BY <1>3, <2>2, <2>3 DEF CancelTimer, Of
<1>4. ASSUME NEW a \in Nanoapps, CancelAllNanoappTimers(a)
      PROVE  IInv'
  <2>1. UNCHANGED <<mLastTimerHandle, mustCheckUniqueness, queue>>
    BY <1>4 DEF CancelAllNanoappTimers
  <2>2. CASE \E gone \in SUBSET mTimerRequests : \E top : Remove(gone, top)
    BY <1>1, <2>1, <2>2, RemoveStep
  <2>3. CASE UNCHANGED <<mTimerRequests, mNumNanoappTimers, mSystemTimer,
                         scheduling>>
    BY <1>1, <2>1, <2>3, IdleStep
  <2> QED
    BY <1>4, <2>2, <2>3 DEF CancelAllNanoappTimers, Of
<1>5. CASE SystemTimerFires
  BY <1>1, <1>5, FiresStep
<1>6. CASE ScheduleNext
  <2>1. scheduling /\ UNCHANGED <<mLastTimerHandle, mustCheckUniqueness>>
    BY <1>6 DEF ScheduleNext
  <2>2. CASE mTimerRequests = {} /\ UNCHANGED <<mTimerRequests,
               mNumNanoappTimers, mSystemTimer, queue>>
    BY <1>1, <2>1, <2>2 DEF IInv, CountsExact, NanoappRequests,
       SystemRequests, UniqueHandles, SystemUnfired, HandlesBelowNext,
       NoTimerForgotten, FiredAwaitsCallback, NoEarlyTimerEvent, Queued,
       Successor, Ahead
  <2>3. ASSUME NEW top \in Tops(mTimerRequests),
               now >= top.expirationTime,
               queue' = [queue EXCEPT ![LoopOf[top.instanceId]] =
                           Append(@, ExpiryCallback(top))],
               mTimerRequests' =
                 (mTimerRequests \ {top}) \cup Rescheduled(top),
               UNCHANGED <<mNumNanoappTimers, mSystemTimer, scheduling>>
        PROVE  IInv'
    BY <1>1, <2>1, <2>3, ExpireStep
  <2>4. ASSUME NEW top \in Tops(mTimerRequests), now < top.expirationTime,
               mSystemTimer' = IF top.expirationTime < AlreadyFired
                               THEN top.expirationTime ELSE mSystemTimer,
               UNCHANGED <<mTimerRequests, mNumNanoappTimers, queue>>
        PROVE  IInv'
    BY <1>1, <2>1, <2>4, ArmStep
  <2> QED
    BY <1>6, <2>2, <2>3, <2>4 DEF ScheduleNext
<1>7. ASSUME NEW l \in Loops, RunTick(l)
      PROVE  IInv'
  <2>1. \A h : Head(queue[l]) # Expired(h)
    BY <1>7 DEF RunTick, Tick, Expired
  <2>2. /\ queue[l] # <<>> /\ queue' = [queue EXCEPT ![l] = Tail(@)]
        /\ scheduling'
        /\ UNCHANGED <<mTimerRequests, mNumNanoappTimers, mLastTimerHandle,
                       mustCheckUniqueness, mSystemTimer>>
    BY <1>7, Zenon DEF RunTick
  <2> QED
    BY <1>1, <2>1, <2>2, PopStep, Zenon
<1>8. ASSUME NEW l \in Loops, RunExpired(l)
      PROVE  IInv'
  BY <1>1, <1>8, RunExpiredStep
<1>9. ASSUME NEW l \in Loops, RunSystemCallback(l)
      PROVE  IInv'
  <2>1. Head(queue[l]) # Tick /\ \A h : Head(queue[l]) # Expired(h)
    BY <1>9 DEF RunSystemCallback, Tick, Expired, SystemCallback
  <2>2. /\ queue[l] # <<>> /\ queue' = [queue EXCEPT ![l] = Tail(@)]
        /\ scheduling' = scheduling
        /\ UNCHANGED <<mTimerRequests, mNumNanoappTimers, mLastTimerHandle,
                       mustCheckUniqueness, mSystemTimer>>
    BY <1>9, Zenon DEF RunSystemCallback
  <2> QED
    BY <1>1, <2>1, <2>2, PopStep, Zenon
<1>10. CASE ClockAdvances
  BY <1>1, <1>10, IdleStep DEF ClockAdvances
<1>11. CASE UNCHANGED vars
  BY <1>1, <1>11, IdleStep DEF vars
<1> QED
  BY <1>2, <1>3, <1>4, <1>5, <1>6, <1>7, <1>8, <1>9, <1>10, <1>11 DEF Next

-----------------------------------------------------------------------------
(* The theorems.                                                           *)

\* The inductive invariant holds in every reachable state of the pool.
THEOREM Invariance == Spec => []IInv
BY Initially, IInvStep, PTL DEF Spec

\* The fields of TimerPool keep their types, whatever the callers do.
THEOREM TypesKept == Spec => []TypeOK
<1>1. IInv => TypeOK
  BY DEF IInv
<1> QED
  BY Invariance, <1>1, PTL

\* The count and the limits of isNewTimerAllowedLocked are exact for any
\* limits, numbers of nanoapps and loops and order of calls.
THEOREM CountsStayExact == Spec => []CountsExact
<1>1. IInv => CountsExact
  BY DEF IInv
<1> QED
  BY Invariance, <1>1, PTL

\* Handles stay unique for any width of the handle and across the wrap.
THEOREM HandlesStayUnique == Spec => []UniqueHandles
<1>1. IInv => UniqueHandles
  BY DEF IInv
<1> QED
  BY Invariance, <1>1, PTL

\* The system timer or a tick covers every unfired request.
THEOREM NoTimerIsForgotten == Spec => []NoTimerForgotten
<1>1. IInv => NoTimerForgotten
  BY DEF IInv
<1> QED
  BY Invariance, <1>1, PTL

\* Every fired one-shot request has its callback on the way, and no stale
\* callback reaches an unexpired one-shot request before the handles wrap.
THEOREM CallbacksMatchTimers ==
  Spec => [](FiredAwaitsCallback /\ NoEarlyTimerEvent)
<1>1. IInv => FiredAwaitsCallback /\ NoEarlyTimerEvent
  BY DEF IInv
<1> QED
  BY Invariance, <1>1, PTL
=============================================================================
