----------------------------- MODULE SensorFlush -----------------------------
(***************************************************************************)
(* Flush requests (core/sensor_request_manager.cc, sensor.cc).  One queue  *)
(* holds the requests for all sensors; at most one per sensor is with the  *)
(* platform, guarded by a timer.  The platform's answer arrives on its own *)
(* thread, which cancels the timer and defers the rest to the loop.        *)
(***************************************************************************)
EXTENDS Integers, Sequences, SequencesExt, FiniteSets

CONSTANTS
  Nanoapps,
  Sensors,
  kMaxFlushRequests,
  MaxSensorFlushes,   \* bound: requests accepted
  MaxSensorSwitches   \* bound: sensors turned on or off

Faults == {"refuses", "late"}
Invalid == 0                          \* CHRE_TIMER_INVALID
FlushIds == 1..MaxSensorFlushes       \* requests, in the order they came; the
                                      \*   timer of a request has its number
Errors == {"none", "timeout", "disabled", "error"}

VARIABLES
  sensors,    \* per sensor: the nanoapps with a request, mFlushRequestPending,
              \*   mFlushRequestTimerHandle
  requests,   \* mFlushRequestQueue
  platform,   \* per sensor, the requests the platform is flushing for
  thread,     \* per sensor, the platform's thread in handleFlushCompleteEvent:
              \*   the timer handle it read, or -1
  timers,     \* timers in the pool: the request and the sensor
  queue,      \* the loop's queue
  answers,    \* per request, the results it was sent
  faults,     \* what the platform does in this behaviour
  accepted,
  passed,     \* requests up to this one have passed their deadline
  switches

vars == <<sensors, requests, platform, thread, timers, queue, answers, faults,
          accepted, passed, switches>>

Idle == -1

Init ==
  /\ sensors = [s \in Sensors |-> [apps |-> {}, pending |-> FALSE,
                                   timer |-> Invalid]]
  /\ requests = <<>>
  /\ platform = [s \in Sensors |-> <<>>]
  /\ thread = [s \in Sensors |-> Idle]
  /\ timers = {}
  /\ queue = <<>>
  /\ answers = [i \in FlushIds |-> <<>>]
  /\ faults \in SUBSET Faults
  /\ accepted = 0
  /\ passed = 0
  /\ switches = 0

\* The state one call of the manager works on and returns.
Now == [sensors |-> sensors, requests |-> requests, platform |-> platform,
        timers |-> timers, answers |-> answers]

Become(st) ==
  /\ sensors' = st.sensors
  /\ requests' = st.requests
  /\ platform' = st.platform
  /\ timers' = st.timers
  /\ answers' = st.answers

\* makeFlushRequest, for the first request of a sensor that is not being
\* flushed or one behind another: its error code.  takes: whether the platform
\* takes the flush.
MakeFlushError(st, r, takes) ==
  IF st.sensors[r.sensor].apps = {} THEN "error"
  ELSE IF st.sensors[r.sensor].pending THEN "none"
  ELSE IF r.id <= passed THEN "timeout"
  ELSE IF takes THEN "none" ELSE "error"

\* ... and what it does if there is none.
MakeFlushRequest(st, r) ==
  IF st.sensors[r.sensor].pending THEN st
  ELSE [st EXCEPT !.sensors[r.sensor].pending = TRUE,
                  !.sensors[r.sensor].timer = r.id,
                  !.platform[r.sensor] = Append(@, r.id),
                  !.timers = @ \cup {<<r.id, r.sensor>>},
                  !.requests = [i \in DOMAIN @ |->
                                  IF @[i] = r THEN [r EXCEPT !.active = TRUE]
                                  ELSE @[i]]]

Canceled(pool, id) == {t \in pool : t[1] # id}

\* completeFlushRequestAtIndex, with clearPendingFlushRequest, for each of a
\* set of requests of a sensor; error[id] is the code for the request `id'.
CompleteFlushRequests(st, done, error) ==
  LET active == {r \in done : r.active}
  IN [st EXCEPT !.answers = [id \in FlushIds |->
                               IF \E r \in done : r.id = id
                               THEN Append(@[id], error[id]) ELSE @[id]],
                !.requests = SelectSeq(@, LAMBDA r : r \notin done),
                !.sensors = [s \in Sensors |->
                               IF \E r \in active : r.sensor = s
                               THEN [@[s] EXCEPT !.pending = FALSE,
                                                 !.timer = Invalid]
                               ELSE @[s]],
                !.timers = {t \in @ : ~ \E r \in active :
                                        st.sensors[r.sensor].timer = t[1]}]

RequestsFor(st, s) == {r \in Range(st.requests) : r.sensor = s}

\* The requests dispatchNextFlushRequest completes, because they cannot be
\* made, before it comes to one that can.
DispatchFails(st, s, takes) ==
  {r \in RequestsFor(st, s) :
     \A f \in RequestsFor(st, s) :
       f.id <= r.id => MakeFlushError(st, f, takes) # "none"}

\* dispatchNextFlushRequest
DispatchNextFlushRequest(st, s, takes) ==
  LET failed == DispatchFails(st, s, takes)
      rest == RequestsFor(st, s) \ failed
      left == CompleteFlushRequests(st, failed,
                [id \in FlushIds |-> IF id <= passed /\ st.sensors[s].apps # {}
                                     THEN "timeout" ELSE "error"])
  IN IF rest = {} THEN left
     ELSE MakeFlushRequest(left, CHOOSE r \in rest :
                                   \A f \in rest : r.id <= f.id)

Takes == IF "refuses" \in faults THEN BOOLEAN ELSE {TRUE}

\* flushAsync
FlushAsync(app, s) ==
  /\ accepted < MaxSensorFlushes
  /\ Len(requests) < kMaxFlushRequests
  /\ \E takes \in Takes :
       LET r == [id |-> accepted + 1, sensor |-> s, app |-> app,
                 active |-> FALSE]
       IN /\ MakeFlushError(Now, r, takes) = "none"
          /\ Become(MakeFlushRequest([Now EXCEPT !.requests = Append(@, r)],
                                     r))
  /\ accepted' = accepted + 1
  /\ UNCHANGED <<thread, queue, faults, passed, switches>>

\* setSensorRequest: a nanoapp turns a sensor on.
TurnOn(app, s) ==
  /\ switches < MaxSensorSwitches
  /\ app \notin sensors[s].apps
  /\ switches' = switches + 1
  /\ sensors' = [sensors EXCEPT ![s].apps = @ \cup {app}]
  /\ UNCHANGED <<requests, platform, thread, timers, queue, answers, faults,
                 accepted, passed>>

FlushesOf(st, app, s) == {r \in RequestsFor(st, s) : r.app = app}

\* Mutant: the next request is not dispatched.
CancelFlushRequestsOnly(st, app, s, takes) ==
  CompleteFlushRequests(st, FlushesOf(st, app, s),
                        [id \in FlushIds |-> "disabled"])

\* cancelFlushRequests
CancelFlushRequests(st, app, s, takes) ==
  LET canceled == CompleteFlushRequests(st, FlushesOf(st, app, s),
                                        [id \in FlushIds |-> "disabled"])
  IN IF canceled.sensors[s].pending THEN canceled
     ELSE DispatchNextFlushRequest(canceled, s, takes)

\* setSensorRequest: a nanoapp turns a sensor off, or is unloaded.
TurnOff(app, s) ==
  /\ switches < MaxSensorSwitches
  /\ app \in sensors[s].apps
  /\ switches' = switches + 1
  /\ \E takes \in Takes :
       Become(CancelFlushRequests([Now EXCEPT !.sensors[s].apps = @ \ {app}],
                                  app, s, takes))
  /\ UNCHANGED <<thread, queue, faults, accepted, passed>>

\* handleFlushCompleteEvent on the platform's thread, up to the read of the
\* handle in cancelPendingFlushRequestTimer.  It may answer before makeFlushRequest
\* has gone on to set the timer, and then reads no handle.
FlushComplete(s) ==
  /\ platform[s] # <<>>
  /\ thread[s] = Idle
  /\ platform' = [platform EXCEPT ![s] = Tail(@)]
  /\ \E handle \in {sensors[s].timer} \cup
                    {h \in {Invalid} : sensors[s].timer = Head(platform[s])} :
       thread' = IF sensors[s].pending
                 THEN [thread EXCEPT ![s] = handle] ELSE thread
  /\ UNCHANGED <<sensors, requests, timers, queue, answers, faults, accepted,
                 passed, switches>>

\* ... and the rest of it.
FlushCompleteRest(s) ==
  /\ thread[s] # Idle
  /\ thread' = [thread EXCEPT ![s] = Idle]
  /\ timers' = Canceled(timers, thread[s])
  /\ sensors' = IF thread[s] = Invalid THEN sensors
                ELSE [sensors EXCEPT ![s].timer = Invalid]
  /\ queue' = Append(queue, [type |-> "complete", sensor |-> s])
  /\ UNCHANGED <<requests, platform, answers, faults, accepted, passed,
                 switches>>

\* Time passes the deadline of a request; a platform that is in time does not
\* let that happen.
Deadline ==
  /\ "late" \in faults
  /\ passed < accepted
  /\ passed' = passed + 1
  /\ UNCHANGED <<sensors, requests, platform, thread, timers, queue, answers,
                 faults, accepted, switches>>

\* The timer of a request runs out.
TimerFires(t) ==
  /\ t[1] <= passed
  /\ timers' = timers \ {t}
  /\ queue' = Append(queue, [type |-> "timeout", sensor |-> t[2]])
  /\ UNCHANGED <<sensors, requests, platform, thread, answers, faults,
                 accepted, passed, switches>>

\* The request handleFlushCompleteEventSync completes: the first of a sensor.
Answered(st, s) ==
  {r \in RequestsFor(st, s) :
     \A f \in RequestsFor(st, s) : r.id <= f.id}

\* handleFlushCompleteEventSync
HandleFlushCompleteEventSync(st, s, error, takes) ==
  IF RequestsFor(st, s) = {} THEN st
  ELSE DispatchNextFlushRequest(
         CompleteFlushRequests(st, Answered(st, s),
                               [id \in FlushIds |-> error]),
         s, takes)

\* The loop runs a deferred completion or the timeout callback, which forgets
\* the timer (onFlushTimeout).
LoopStep ==
  /\ queue # <<>>
  /\ queue' = Tail(queue)
  /\ \E takes \in Takes :
       LET s == Head(queue).sensor
       IN \E st \in {IF Head(queue).type = "complete"
                     THEN HandleFlushCompleteEventSync(Now, s, "none", takes)
                     ELSE HandleFlushCompleteEventSync(
                            [Now EXCEPT !.sensors[s].timer = Invalid], s,
                            "timeout", takes)} :
            Become(st)
  /\ UNCHANGED <<thread, faults, accepted, passed, switches>>

PlatformStep == \E s \in Sensors : FlushComplete(s) \/ FlushCompleteRest(s)
TimerStep == \E t \in timers : TimerFires(t)

Next ==
  \/ \E app \in Nanoapps, s \in Sensors :
       FlushAsync(app, s) \/ TurnOn(app, s) \/ TurnOff(app, s)
  \/ PlatformStep
  \/ Deadline
  \/ TimerStep
  \/ LoopStep

Spec == Init /\ [][Next]_vars

\* The loop and the timers run; a platform that is in time answers, a late one
\* may not, but its thread goes on once it runs.
FairStep ==
  \/ LoopStep \/ Deadline \/ TimerStep
  \/ \E s \in Sensors :
       \/ FlushCompleteRest(s)
       \/ "late" \notin faults /\ FlushComplete(s)

Fairness == WF_vars(FairStep)

FairSpec == Spec /\ Fairness

-----------------------------------------------------------------------------
(* Properties.                                                             *)

SensorFlushTypeOK ==
  /\ sensors \in [Sensors -> [apps : SUBSET Nanoapps, pending : BOOLEAN,
                              timer : 0..accepted]]
  /\ Range(requests) \subseteq [id : 1..accepted, sensor : Sensors,
                                app : Nanoapps, active : BOOLEAN]
  /\ Len(requests) <= kMaxFlushRequests
  /\ thread \in [Sensors -> Idle..accepted]
  /\ timers \subseteq (1..accepted) \X Sensors
  /\ answers \in [FlushIds -> Seq(Errors)]
  /\ passed \in 0..accepted

InLine == {requests[i].id : i \in 1..Len(requests)}

\* Every accepted request is in line, or was answered exactly once, whichever
\* of the platform, the timer and the end of the nanoapp's request was first.
SensorFlushAnsweredOnce ==
  \A id \in 1..accepted :
    Len(answers[id]) = IF id \in InLine THEN 0 ELSE 1

\* A sensor is marked as being flushed exactly if the first of its requests is
\* active, no other one is, and something will end it: its timer, the
\* platform's thread or a message in the loop's queue.
SensorFlushGuarded ==
  \A s \in Sensors :
    LET mine == SelectSeq(requests, LAMBDA r : r.sensor = s)
    IN /\ sensors[s].pending <=> mine # <<>>
       /\ \A i \in 1..Len(mine) : mine[i].active <=> i = 1
       /\ sensors[s].pending =>
            \/ <<mine[1].id, s>> \in timers
            \/ thread[s] # Idle
            \/ \E i \in 1..Len(queue) : queue[i].sensor = s

Ended(id, how) == \E i \in 1..Len(answers[id]) : answers[id][i] = how

\* If the platform is in time and no nanoapp turned its sensor off meanwhile,
\* a request is reported complete only when the platform flushed for it.
SensorFlushTruthful ==
  "late" \notin faults /\ ~ (\E id \in FlushIds : Ended(id, "disabled")) =>
    \A id \in FlushIds : Ended(id, "none") =>
      \A s \in Sensors : \A i \in 1..Len(platform[s]) : platform[s][i] # id

NoSensorFlushWaits == requests = <<>>

\* Each request is answered in the end, even if the platform never does.
EverySensorFlushEnds == []<>NoSensorFlushWaits

\* Not so: a request is reported complete only when the platform flushed for
\* it, also if an answer was late.  The comment at makeFlushRequest knows it.
SensorFlushAlwaysTruthful ==
  \A id \in FlushIds : Ended(id, "none") =>
    \A s \in Sensors : \A i \in 1..Len(platform[s]) : platform[s][i] # id

\* Not so: a request times out only after its deadline.  The handle of a timer
\* is lost if the platform's thread clears it after the loop set the next one.
SensorFlushTimeoutIsDue ==
  \A id \in FlushIds : Ended(id, "timeout") => id <= passed
=============================================================================
