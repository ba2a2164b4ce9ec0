--------------------------- MODULE AudioRequests ----------------------------
(***************************************************************************)
(* One audio source (core/audio_request_manager.cc; sources share no       *)
(* state).  Nanoapps that ask for the same configuration share a request;   *)
(* the PAL is asked for the data of the request that is due next, and the  *)
(* event it hands over is counted down by the nanoapps that receive it.    *)
(* Which request is due next is left open: times are not modelled.         *)
(***************************************************************************)
EXTENDS Integers, Sequences, FiniteSets

CONSTANTS
  Nanoapps,
  Configurations,   \* numSamples and deliveryInterval
  MaxAudioConfigures,    \* bound: calls of configureSource
  MaxToggles,       \* bound: changes of the microphone setting
  MaxAvailability,  \* bound: changes of availability
  MaxEvents         \* bound: data events of the PAL

Null == 0
Events == 1..MaxEvents

VARIABLES
  source,      \* the AudioRequestList, a record: requests, available,
               \*   nextAudioRequest (a pointer: its place in the vector, Null,
               \*   or -1 once the vector was changed under it), what the PAL was
               \*   asked, whether the handle is enabled, the suspended flag each
               \*   nanoapp was told last
  events,      \* data events: "none", "deferred", "posted" or "released"
  refCount,    \* mAudioDataEventRefCounts
  delivered,   \* data events in nanoapps' queues, not yet freed
  queue,       \* callbacks deferred to the event loop
  microphone,  \* Setting::MICROPHONE
  configures, toggles, changes

vars == <<source, events, refCount, delivered, queue, microphone, configures,
          toggles, changes>>

Init ==
  /\ source = [requests |-> <<>>, available |-> FALSE, next |-> Null,
               asked |-> FALSE, enabled |-> FALSE,
               told |-> [n \in Nanoapps |-> TRUE]]
  /\ events = [e \in Events |-> "none"]
  /\ refCount = [e \in Events |-> 0]
  /\ delivered = {}
  /\ queue = <<>>
  /\ microphone = TRUE
  /\ configures = 0
  /\ toggles = 0
  /\ changes = 0

-----------------------------------------------------------------------------
(* Steps of the handlers, on the record s.                                 *)

\* findAudioRequestByInstanceId and findAudioRequestByConfiguration
FindByInstanceId(s, app) ==
  {i \in 1..Len(s.requests) : app \in s.requests[i].apps}
FindByConfiguration(s, config) ==
  {i \in 1..Len(s.requests) : s.requests[i].config = config}

Clients(s) == UNION {s.requests[i].apps : i \in 1..Len(s.requests)}

\* Whatever changes the vector leaves a pointer into it invalid.
Moved(next) == IF next = Null THEN Null ELSE -1

\* The request without the nanoapp, which is in the i-th.
RemoveClient(s, i, app) ==
  IF s.requests[i].apps # {app}
  THEN [s EXCEPT !.requests[i].apps = @ \ {app}]
  ELSE [s EXCEPT !.requests = SubSeq(@, 1, i - 1) \o SubSeq(@, i + 1, Len(@)),
                 !.next = Moved(@)]

\* createAudioRequest; suspended says what the nanoapp is told.
CreateAudioRequest(s, app, config) ==
  LET found == FindByConfiguration(s, config)
      added == IF found # {}
               THEN [s EXCEPT !.requests[CHOOSE i \in found : TRUE].apps =
                                @ \cup {app}]
               ELSE [s EXCEPT !.requests = Append(@, [config |-> config,
                                                      apps |-> {app}]),
                              !.next = Moved(@)]
  IN  [added EXCEPT !.told[app] = ~s.available \/ ~microphone]

\* postAudioSamplingChangeEvents
PostAudioSamplingChangeEvents(s, suspended) ==
  [s EXCEPT !.told = [n \in Nanoapps |-> IF n \in Clients(s)
                                         THEN ~s.available \/ suspended
                                         ELSE @[n]]]

\* scheduleNextAudioDataEvent: the states it may leave; any request may be the
\* one that is due first.
ScheduleNextAudioDataEvent(s, mic) ==
  IF ~mic THEN {s}
  ELSE IF s.requests = <<>> \/ ~s.available
  THEN {[s EXCEPT !.next = Null, !.asked = FALSE]}
  ELSE {[s EXCEPT !.next = i, !.asked = TRUE] : i \in 1..Len(s.requests)}

\* updatePlatformHandleEnabled
UpdatePlatformHandleEnabled(s, last) ==
  [s EXCEPT !.enabled = IF last = <<>> /\ s.requests # <<>> THEN TRUE
                        ELSE IF last # <<>> /\ s.requests = <<>> THEN FALSE
                        ELSE @]

-----------------------------------------------------------------------------
(* The API, in the event loop.                                             *)

\* doConfigureSource, with arguments that are valid.
DoConfigureSource(app, enable, config) ==
  LET mine == FindByInstanceId(source, app)
      without == IF mine = {} THEN source
                 ELSE RemoveClient(source, CHOOSE i \in mine : TRUE, app)
      configured == IF enable THEN CreateAudioRequest(without, app, config)
                    ELSE without
  IN  /\ enable \/ mine # {}
      /\ \E next \in ScheduleNextAudioDataEvent(configured, microphone) :
           source' = IF microphone
                     THEN UpdatePlatformHandleEnabled(next, source.requests)
                     ELSE next

\* configureSource, and disableAllAudioRequests when the nanoapp is unloaded.
ConfigureSource(app, enable, config) ==
  /\ configures < MaxAudioConfigures
  /\ configures' = configures + 1
  /\ DoConfigureSource(app, enable, config)
  /\ UNCHANGED <<events, refCount, delivered, queue, microphone, toggles, changes>>

\* Mutant: the last nanoapp does not count.
HandleFreeAudioDataEventLate(e) ==
  /\ refCount' = [refCount EXCEPT ![e] = @ - 1]
  /\ events' = [events EXCEPT ![e] = IF refCount[e] = 0 THEN "released" ELSE @]

\* The nanoapp has handled a data event: handleFreeAudioDataEvent.
HandleFreeAudioDataEvent(e) ==
  /\ refCount' = [refCount EXCEPT ![e] = @ - 1]
  /\ events' = [events EXCEPT ![e] = IF refCount[e] = 1 THEN "released" ELSE @]

NanoappFrees ==
  \E d \in delivered :
    /\ delivered' = delivered \ {d}
    /\ HandleFreeAudioDataEvent(d.event)
    /\ UNCHANGED <<source, queue, microphone, configures, toggles, changes>>

-----------------------------------------------------------------------------
(* The callbacks, run from the head of the loop's queue.                   *)

Callback(type) ==
  /\ queue # <<>>
  /\ Head(queue).type = type
  /\ queue' = Tail(queue)
  /\ UNCHANGED <<microphone, configures, toggles, changes>>

\* handleAudioDataEventSync.  With a pointer that is no longer valid the event
\* goes to the nanoapps of any request, or to none.
HandleAudioDataEventSync ==
  /\ Callback("data")
  /\ LET e == Head(queue).event
         mayReceive == IF source.next = Null THEN {{}}
                       ELSE IF source.next \in 1..Len(source.requests)
                       THEN {source.requests[source.next].apps}
                       ELSE {{}} \cup {source.requests[i].apps :
                                        i \in 1..Len(source.requests)}
     IN  \E apps \in mayReceive :
           /\ delivered' = delivered \cup {[event |-> e, app |-> n] : n \in apps}
           /\ refCount' = [refCount EXCEPT ![e] = Cardinality(apps)]
           /\ events' = [events EXCEPT ![e] = IF apps = {} THEN "released"
                                              ELSE "posted"]
  /\ source' \in ScheduleNextAudioDataEvent(source, microphone)

\* handleAudioAvailabilitySync: the states it may leave.
HandleAvailability(available) ==
  ScheduleNextAudioDataEvent(
    IF source.available = available THEN source
    ELSE PostAudioSamplingChangeEvents([source EXCEPT !.available = available],
                                       ~microphone),
    microphone)

HandleAudioAvailabilitySync ==
  /\ Callback("availability")
  /\ source' \in HandleAvailability(Head(queue).available)
  /\ UNCHANGED <<events, refCount, delivered>>

\* Mutant: nanoapps are told when the microphone goes off, not when it comes on.
OnSettingChangedHalf(enabled) ==
  IF ~source.available THEN {source}
  ELSE IF enabled THEN ScheduleNextAudioDataEvent(source, TRUE)
  ELSE {[PostAudioSamplingChangeEvents(source, TRUE) EXCEPT !.asked = FALSE]}

\* onSettingChanged: the states it may leave.
OnSettingChanged(enabled) ==
  IF ~source.available THEN {source}
  ELSE IF enabled
  THEN ScheduleNextAudioDataEvent(PostAudioSamplingChangeEvents(source, FALSE),
                                  TRUE)
  ELSE {[PostAudioSamplingChangeEvents(source, TRUE) EXCEPT !.asked = FALSE]}

SettingChanges ==
  /\ toggles < MaxToggles
  /\ toggles' = toggles + 1
  /\ microphone' = ~microphone
  /\ source' \in OnSettingChanged(~microphone)
  /\ UNCHANGED <<events, refCount, delivered, queue, configures, changes>>

-----------------------------------------------------------------------------
(* The PAL.                                                                *)

\* It hands over the data it was asked for (handleAudioDataEvent).  The model ends
\* where the loop is stopped: deferCallback fails only then, and the buffer, of
\* which no nanoapp has a reference yet, is not given back to the PAL.
PalDelivers ==
  \E e \in Events :
    /\ source.asked
    /\ events[e] = "none"
    /\ \A f \in 1..(e - 1) : events[f] # "none"
    /\ events' = [events EXCEPT ![e] = "deferred"]
    /\ source' = [source EXCEPT !.asked = FALSE]
    /\ queue' = Append(queue, [type |-> "data", event |-> e])
    /\ UNCHANGED <<refCount, delivered, microphone, configures, toggles, changes>>

\* The source becomes available or not (handleAudioAvailability).
PalAvailability(available) ==
  /\ changes < MaxAvailability
  /\ changes' = changes + 1
  /\ queue' = Append(queue, [type |-> "availability", available |-> available])
  /\ UNCHANGED <<source, events, refCount, delivered, microphone, configures,
                 toggles>>

LoopStep ==
  HandleAudioDataEventSync \/ HandleAudioAvailabilitySync \/ NanoappFrees

Next ==
  \/ \E app \in Nanoapps, config \in Configurations :
       ConfigureSource(app, TRUE, config)
  \/ \E app \in Nanoapps : ConfigureSource(app, FALSE, Null)
  \/ LoopStep
  \/ SettingChanges
  \/ PalDelivers
  \/ \E available \in BOOLEAN : PalAvailability(available)

Spec == Init /\ [][Next]_vars

\* The loop runs its queue and nanoapps' events.
FairStep == LoopStep

Fairness == WF_vars(FairStep)

FairSpec == Spec /\ Fairness

-----------------------------------------------------------------------------
(* Properties.                                                             *)

Waiting(type) == \E i \in 1..Len(queue) : queue[i].type = type

\* A nanoapp has at most one request, no request is without nanoapps, and no two
\* requests have the same configuration.
AudioTypeOK ==
  \A i, j \in 1..Len(source.requests) :
    /\ source.requests[i].apps # {}
    /\ i # j => /\ source.requests[i].apps \cap source.requests[j].apps = {}
                /\ source.requests[i].config # source.requests[j].config

\* The reference count of a data event is the number of nanoapps that still have
\* it, and it is given back to the PAL when there are none, not before.
AudioEventReleased ==
  \A e \in Events :
    /\ refCount[e] = Cardinality({d \in delivered : d.event = e})
    /\ events[e] = "posted" <=> refCount[e] > 0

\* Every nanoapp with a request knows whether the source is suspended, whatever
\* changed in which order: the setting, availability, its request.
AudioStatusTold ==
  \A n \in Clients(source) :
    source.told[n] = (~source.available \/ ~microphone)

\* As long as there are requests the PAL has been asked for data, or has just
\* delivered it: the chain of requests is never broken.
AudioNeverStarves ==
  microphone /\ source.available /\ source.requests # <<>> =>
    source.asked \/ Waiting("data")

\* With the microphone off, the source unavailable or no request, the PAL has not
\* been asked for data.
AudioQuietWhenOff ==
  source.asked => microphone /\ source.available /\ source.requests # <<>>

\* nextAudioRequest points to a request.  (It does not after a nanoapp changed
\* its request while the microphone was off.)
AudioNextIsLive == source.next # -1

\* With the microphone on, the platform knows whether the source has clients.
\* (It does not if that changed while the microphone was off.)
AudioHandleFollowsClients ==
  microphone => (source.enabled <=> source.requests # <<>>)

NoAudioEventHeld == \A e \in Events : events[e] \in {"none", "released"}

\* Every data event is given back to the PAL.
EveryAudioEventReleased == []<>NoAudioEventHeld
=============================================================================
