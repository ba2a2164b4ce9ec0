--------------------------- MODULE SensorRequests ---------------------------
(***************************************************************************)
(* The nanoapps' requests for one sensor (core/sensor_request_manager.cc,  *)
(* sensor_request.cc, request_multiplexer_impl.h): they are merged into    *)
(* one for the platform, which may refuse it, and the change is then       *)
(* rolled back.  The last event of the sensor is kept for later clients.   *)
(* Builds in which CHRE_ASSERT does nothing: a platform that refuses to    *)
(* remove a request does not stop the program.                             *)
(***************************************************************************)
EXTENDS Integers, Sequences, SequencesExt

CONSTANTS
  Nanoapps,
  Options,            \* what a nanoapp may ask for: mode, interval, latency
  MaxSensorRequests,  \* bound: calls
  MaxSensorEvents     \* bound: events of the sensor

\* SensorMode, by priority.
Off == 0
PassiveContinuous == 2
ActiveContinuous == 4
DEFAULT == 99  \* CHRE_SENSOR_INTERVAL_DEFAULT, ..._LATENCY_DEFAULT, UINT64_MAX

VARIABLES
  sensor,      \* the nanoapps' requests in order, the maximal one, the last
               \*   event, and the nanoapps registered for data and for bias
  platform,    \* what the platform has been told: the request and bias
  queue,       \* the loop's queue of deferred updates of the last event
  given,       \* the last event each nanoapp was given on joining
  history,     \* what happened to the platform and the events: whether the
               \*   platform refused to undo or to remove a request (astray), the
               \*   nanoapps whose removal it refused (kept), and, at the last
               \*   turning off, the events so far and those still in the queue
  calls,
  events

vars == <<sensor, platform, queue, given, history, calls, events>>

Lowest == [mode |-> Off, interval |-> DEFAULT, latency |-> DEFAULT,
           bias |-> FALSE]

\* What configureSensor is told of a request.
Data(r) == [mode |-> r.mode, interval |-> r.interval, latency |-> r.latency]

Init ==
  /\ sensor = [requests |-> <<>>, maximal |-> Lowest, last |-> 0,
               data |-> {}, bias |-> {}]
  /\ platform = [request |-> Data(Lowest), bias |-> FALSE]
  /\ queue = <<>>
  /\ given = [n \in Nanoapps |-> 0]
  /\ history = [astray |-> FALSE, kept |-> {}, since |-> 0, queued |-> {}]
  /\ calls = 0
  /\ events = 0

\* getBatchInterval
BatchInterval(r) ==
  IF r.interval = DEFAULT \/ r.latency = DEFAULT THEN DEFAULT
  ELSE r.interval + r.latency

Least(a, b) == IF a < b THEN a ELSE b

\* SensorRequest::mergeWith, for a request that is not off.
MergeWith(m, r) ==
  LET batch == Least(BatchInterval(m), BatchInterval(r))
      interval == Least(r.interval, m.interval)
  IN [mode |-> IF m.mode > r.mode THEN m.mode ELSE r.mode,
      interval |-> interval,
      latency |-> IF batch = DEFAULT THEN Least(r.latency, m.latency)
                  ELSE batch - interval,
      bias |-> m.bias \/ r.bias]

\* updateMaximalRequest
Maximal(requests) == FoldLeft(MergeWith, Lowest, requests)

\* Which calls of a configuration the platform takes, the one that takes the
\* first back included.
Answers == [request : BOOLEAN, bias : BOOLEAN, undo : BOOLEAN]

OnlyBias(new, old) == Data(new) = Data(old)

\* configurePlatformSensor: what it returns and leaves at the platform.  If the
\* data request is taken and the bias request is not, it makes the data request
\* of before again, and does not look whether that is taken.
ConfigurePlatformSensor(new, old, answer) ==
  LET only == OnlyBias(new, old)
      request == only \/ answer.request
      bias == new.bias = old.bias \/ answer.bias
      undo == request /\ ~bias /\ ~only
  IN [ok |-> request /\ bias,
      undone |-> undo => answer.undo,
      platform |->
        [request |-> IF only \/ ~answer.request THEN platform.request
                     ELSE IF undo /\ answer.undo THEN Data(old) ELSE Data(new),
         bias |-> IF request /\ bias /\ new.bias # old.bias THEN new.bias
                  ELSE platform.bias]]

\* The multiplexer is given new requests; configures if the maximal changed.
Configured(requests, answer) ==
  LET new == Maximal(requests)
  IN IF new = sensor.maximal
     THEN [ok |-> TRUE, undone |-> TRUE, platform |-> platform]
     ELSE ConfigurePlatformSensor(new, sensor.maximal, answer)

IndexOf(app) ==
  SelectInSeq(sensor.requests, LAMBDA r : r.app = app)

\* The requests are replaced, or rolled back if the platform refused.
Settle(requests, c) ==
  IF ~c.ok THEN sensor
  ELSE [sensor EXCEPT !.requests = requests, !.maximal = Maximal(requests)]

\* setSensorRequest with a mode: a first request, which asks for bias too, or
\* the replacement of an earlier one, which keeps its bias.
Configure(app, option) ==
  /\ calls < MaxSensorRequests
  /\ calls' = calls + 1
  /\ \E answer \in Answers :
       LET i == IndexOf(app)
           bias == IF i = 0 THEN TRUE ELSE sensor.requests[i].bias
           r == [app |-> app, mode |-> option.mode,
                 interval |-> option.interval, latency |-> option.latency,
                 bias |-> bias]
           requests == IF i = 0 THEN Append(sensor.requests, r)
                       ELSE ReplaceAt(sensor.requests, i, r)
           c == Configured(requests, answer)
           settled == Settle(requests, c)
       IN /\ platform' = c.platform
          /\ sensor' = IF i = 0 /\ c.ok
                       THEN [settled EXCEPT !.data = @ \cup {app},
                                            !.bias = @ \cup {app}]
                       ELSE settled
          /\ given' = IF i = 0 /\ c.ok /\ settled.last # 0
                      THEN [given EXCEPT ![app] = settled.last] ELSE given
          /\ history' = [history EXCEPT !.astray = @ \/ ~c.undone,
                                        !.kept = IF c.ok THEN @ \ {app} ELSE @]
  /\ UNCHANGED <<queue, events>>

\* Mutant: the registration for bias is left.
UnregisterDataOnly(s, app) == [s EXCEPT !.data = @ \ {app}]

Unregister(s, app) == [s EXCEPT !.data = @ \ {app}, !.bias = @ \ {app}]

\* The request of a nanoapp is gone whatever the platform says; if it refuses,
\* the nanoapp stays registered.  A sensor turned off forgets its last event.
RemoveRequest(app, requests, c) ==
  LET off == Maximal(requests).mode = Off
      removed == [sensor EXCEPT !.requests = requests,
                                !.maximal = Maximal(requests),
                                !.last = IF off /\ c.ok THEN 0 ELSE @]
  IN  /\ sensor' = IF c.ok THEN Unregister(removed, app) ELSE removed
      /\ history' =
           IF ~c.ok THEN [history EXCEPT !.astray = TRUE, !.kept = @ \cup {app}]
           ELSE IF off THEN [history EXCEPT !.since = events,
                                            !.queued = Range(queue)]
           ELSE history

\* setSensorRequest with Off, also of a nanoapp that is unloaded, with
\* removeRequest.
TurnOff(app) ==
  /\ IndexOf(app) # 0
  /\ \E answer \in Answers :
       LET requests == RemoveAt(sensor.requests, IndexOf(app))
           c == Configured(requests, answer)
       IN  platform' = c.platform /\ RemoveRequest(app, requests, c)
  /\ given' = [given EXCEPT ![app] = 0]
  /\ UNCHANGED <<queue, calls, events>>

\* configureBiasEvents of a nanoapp with a request.
ConfigureBiasEvents(app, enable) ==
  /\ calls < MaxSensorRequests
  /\ IndexOf(app) # 0
  /\ calls' = calls + 1
  /\ \E answer \in Answers :
       LET i == IndexOf(app)
           requests == [sensor.requests EXCEPT ![i].bias = enable]
           c == Configured(requests, answer)
           settled == Settle(requests, c)
       IN /\ platform' = c.platform
          /\ sensor' = IF ~c.ok THEN settled
                       ELSE IF enable
                       THEN [settled EXCEPT !.bias = @ \cup {app}]
                       ELSE [settled EXCEPT !.bias = @ \ {app}]
          /\ history' = [history EXCEPT !.astray = @ \/ ~c.undone]
  /\ UNCHANGED <<queue, given, events>>

\* handleSensorDataEvent of an on-change sensor: the platform may still have
\* an event for us after it is turned off, queued before.
SensorDataEvent ==
  /\ events < MaxSensorEvents
  /\ platform.request.mode # Off
  /\ events' = events + 1
  /\ queue' = Append(queue, events + 1)
  /\ UNCHANGED <<sensor, platform, given, history, calls>>

\* The deferred callback of updateLastEvent.
UpdateLastEvent ==
  IF sensor.maximal.mode # Off THEN [sensor EXCEPT !.last = Head(queue)]
  ELSE sensor

LoopStep ==
  /\ queue # <<>>
  /\ queue' = Tail(queue)
  /\ sensor' = UpdateLastEvent
  /\ UNCHANGED <<platform, given, history, calls, events>>

Next ==
  \/ \E app \in Nanoapps :
       \/ \E option \in Options : Configure(app, option)
       \/ TurnOff(app)
       \/ \E enable \in BOOLEAN : ConfigureBiasEvents(app, enable)
  \/ SensorDataEvent
  \/ LoopStep

Spec == Init /\ [][Next]_vars

-----------------------------------------------------------------------------
(* Properties.                                                             *)

Requests ==
  [app : Nanoapps, mode : Off..ActiveContinuous, interval : 0..DEFAULT,
   latency : 0..DEFAULT, bias : BOOLEAN]

SensorTypeOK ==
  /\ Range(sensor.requests) \subseteq Requests
  /\ sensor.data \subseteq Nanoapps /\ sensor.bias \subseteq Nanoapps
  /\ sensor.last \in 0..events
  /\ platform.bias \in BOOLEAN
  /\ queue \in Seq(1..events)
  /\ given \in [Nanoapps -> 0..events]

Requesters == {sensor.requests[i].app : i \in 1..Len(sensor.requests)}
BiasRequesters ==
  {sensor.requests[i].app :
     i \in {j \in 1..Len(sensor.requests) : sensor.requests[j].bias}}

\* The platform has been asked for the merged request of the nanoapps, and for
\* bias exactly if one of them wants it, whichever of the calls failed; unless
\* it refused to undo a request it had taken or to remove one
\* (configurePlatformSensor, removeRequest, whose result is not acted on).
SensorPlatformFollows ==
  ~history.astray =>
    platform = [request |-> Data(Maximal(sensor.requests)),
                bias |-> BiasRequesters # {}]

\* The merged request samples and delivers at least as often as each nanoapp
\* asked, in whatever order they came and went (a nanoapp that leaves interval
\* or latency open sets no batch interval).
SensorServesAll ==
  \A i \in 1..Len(sensor.requests) :
    LET r == sensor.requests[i]
    IN /\ sensor.maximal.interval <= r.interval
       /\ sensor.maximal.mode >= r.mode
       /\ BatchInterval(r) # DEFAULT =>
            BatchInterval(sensor.maximal) <= BatchInterval(r)

\* A nanoapp is registered for the sensor's events exactly as long as it has a
\* request, and for its bias events as long as that request wants them; but one
\* whose removal the platform refused stays registered (setSensorRequest).
SensorRegistration ==
  /\ sensor.data \ history.kept = Requesters
  /\ sensor.bias \ history.kept = BiasRequesters
  /\ history.kept \subseteq sensor.data

\* No event is kept for new clients while the sensor is off, unless the platform
\* refused to turn it off (clearLastEvent, updateLastEvent).
LastEventWhileOn ==
  sensor.last # 0 => sensor.maximal.mode # Off \/ history.astray

\* The event kept for new clients, and the one a nanoapp was given when it
\* joined, came since the sensor was last turned off, or were on their way in the
\* loop's queue just then: updateLastEvent stores such an event if the sensor is
\* on again by the time it runs.
GivenEventIsRecent ==
  \A e \in {sensor.last} \cup {given[n] : n \in Nanoapps} :
    e # 0 => e > history.since \/ e \in history.queued
=============================================================================
