---------------------------- MODULE SensorOneShot ----------------------------
(***************************************************************************)
(* Events of a one-shot sensor (core/sensor_request_manager.cc): the event *)
(* goes to each nanoapp with a request, all requests end, and the data is  *)
(* released with the last of the posted events.                            *)
(***************************************************************************)
EXTENDS Integers, Sequences, SequencesExt, FiniteSets, FiniteSetsExt

CONSTANTS
  Nanoapps,
  MaxOneShotRequests,  \* bound: requests
  MaxOneShotEvents     \* bound: events of the sensor

OneShotIds == 1..MaxOneShotEvents

VARIABLES
  requests,   \* nanoapps with a request for the sensor
  registered, \* nanoapps registered for its events
  armed,      \* the platform has the sensor on
  queue,      \* the loop's queue: the deferred callback and events
  refs,       \* mPendingOneShotSensorEvents: the reference counts
  released,   \* how often each event was given back to the platform
  got,        \* the nanoapps that were given each event
  loaded,
  asked,      \* requests so far
  fired       \* events so far

vars == <<requests, registered, armed, queue, refs, released, got, loaded,
          asked, fired>>

Init ==
  /\ requests = {}
  /\ registered = {}
  /\ armed = FALSE
  /\ queue = <<>>
  /\ refs = [i \in OneShotIds |-> 0]
  /\ released = [i \in OneShotIds |-> 0]
  /\ got = [i \in OneShotIds |-> {}]
  /\ loaded = Nanoapps
  /\ asked = 0
  /\ fired = 0

\* setSensorRequest with a mode, the first of a nanoapp or a repetition; the
\* platform is told of the first request only.
Request(app) ==
  /\ app \in loaded
  /\ asked < MaxOneShotRequests
  /\ asked' = asked + 1
  /\ requests' = requests \cup {app}
  /\ registered' = IF app \in requests THEN registered
                   ELSE registered \cup {app}
  /\ armed' = (armed \/ requests = {})
  /\ UNCHANGED <<queue, refs, released, got, loaded, fired>>

\* setSensorRequest with Off; of an unloaded nanoapp every request ends so.
TurnOff(app) ==
  /\ app \in requests
  /\ requests' = requests \ {app}
  /\ registered' = registered \ {app}
  /\ armed' = (armed /\ requests # {app})

Done(app) ==
  /\ TurnOff(app)
  /\ UNCHANGED <<queue, refs, released, got, loaded, asked, fired>>

Unload(app) ==
  /\ app \in loaded
  /\ loaded' = loaded \ {app}
  /\ IF app \in requests THEN TurnOff(app)
     ELSE registered' = registered \ {app} /\ UNCHANGED <<requests, armed>>
  /\ UNCHANGED <<queue, refs, released, got, asked, fired>>

\* The sensor fires and disarms itself: handleSensorDataEvent defers.
Fire ==
  /\ armed
  /\ fired < MaxOneShotEvents
  /\ fired' = fired + 1
  /\ armed' = FALSE
  /\ queue' = Append(queue, [type |-> "fired", id |-> fired + 1])
  /\ UNCHANGED <<requests, registered, refs, released, got, loaded, asked>>

\* handleOneShotSensorEventSync: the reference count is the number of posted
\* events; without a request the event is released at once.
HandleOneShotSensorEventSync(id) ==
  IF requests = {} THEN /\ released' = [released EXCEPT ![id] = @ + 1]
                        /\ UNCHANGED refs
  ELSE /\ refs' = [refs EXCEPT ![id] = Cardinality(requests)]
       /\ UNCHANGED released

\* removeAllRequests, as the loop of handleOneShotSensorEventSync ends them.
RemoveAllRequests == requests' = {}

\* One event is posted for each request, in some order.
RunFired ==
  /\ queue # <<>>
  /\ Head(queue).type = "fired"
  /\ LET id == Head(queue).id
     IN /\ \E apps \in SetToSeqs(requests) :
             queue' = Tail(queue) \o
                      [i \in 1..Len(apps) |->
                         [type |-> "event", id |-> id, app |-> apps[i]]]
        /\ HandleOneShotSensorEventSync(id)
  /\ RemoveAllRequests
  /\ armed' = FALSE
  /\ UNCHANGED <<registered, got, loaded, asked, fired>>

\* Mutant: the data is released with the first event that is freed.
ReleaseOneShotSensorDataEventFirst(id) ==
  /\ refs' = [refs EXCEPT ![id] = 0]
  /\ released' = [released EXCEPT ![id] = @ + 1]

\* releaseOneShotSensorDataEvent
ReleaseOneShotSensorDataEvent(id) ==
  /\ refs' = [refs EXCEPT ![id] = @ - 1]
  /\ released' = IF refs[id] = 1 THEN [released EXCEPT ![id] = @ + 1]
                 ELSE released

\* An event reaches its nanoapp, which may ask for the sensor again from its
\* handler, and is freed: the nanoapp is unregistered and its reference goes.
Deliver ==
  /\ queue # <<>>
  /\ Head(queue).type = "event"
  /\ LET id == Head(queue).id
         app == Head(queue).app
     IN /\ queue' = Tail(queue)
        /\ got' = IF app \in loaded THEN [got EXCEPT ![id] = @ \cup {app}]
                  ELSE got
        /\ registered' = registered \ {app}
        /\ ReleaseOneShotSensorDataEvent(id)
        /\ \/ UNCHANGED <<requests, armed, asked>>
           \/ /\ app \in loaded
              /\ asked < MaxOneShotRequests
              /\ asked' = asked + 1
              /\ requests' = requests \cup {app}
              /\ armed' = (armed \/ requests = {})
  /\ UNCHANGED <<loaded, fired>>

LoopStep == RunFired \/ Deliver

Next ==
  \/ \E app \in Nanoapps : Request(app) \/ Done(app) \/ Unload(app)
  \/ Fire
  \/ LoopStep

Spec == Init /\ [][Next]_vars

FairStep == LoopStep

Fairness == WF_vars(FairStep)

FairSpec == Spec /\ Fairness

-----------------------------------------------------------------------------
(* Properties.                                                             *)

OneShotTypeOK ==
  /\ requests \subseteq loaded /\ loaded \subseteq Nanoapps
  /\ registered \subseteq Nanoapps
  /\ armed \in BOOLEAN
  /\ refs \in [OneShotIds -> 0..Cardinality(Nanoapps)]
  /\ \A i \in 1..Len(queue) : queue[i].id \in 1..fired

Posted(id) == {i \in 1..Len(queue) : queue[i].type = "event" /\ queue[i].id = id}

\* The data of an event is with the platform's owner again exactly once, and
\* never while a posted event still points to it, also if nanoapps left or
\* asked again in between.
OneShotReleasedLast ==
  \A id \in OneShotIds :
    /\ refs[id] = Cardinality(Posted(id))
    /\ Posted(id) # {} => released[id] = 0
    /\ released[id] <= 1

NoOneShotHeld == \A id \in OneShotIds : fired >= id => released[id] = 1

\* Each event is given back in the end.
EveryOneShotReleased == []<>NoOneShotHeld

\* A nanoapp that waits for the sensor has it on, or an event is on its way.
OneShotStaysArmed ==
  requests # {} =>
    armed \/ \E i \in 1..Len(queue) : queue[i].type = "fired"

\* Not so: a nanoapp with a request is registered for the sensor's events.  A
\* nanoapp that asks again from its handler is unregistered when the event is
\* freed; it is sent its events by instance id all the same.
OneShotRegistered == requests \subseteq registered
=============================================================================
