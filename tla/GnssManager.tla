---------------------------- MODULE GnssManager -----------------------------
(***************************************************************************)
(* A GNSS session and the passive location listener                        *)
(* (core/gnss_manager.cc).  Nanoapps ask for reports at an interval; the   *)
(* session asks the platform (the PAL) for one state at a time, for a      *)
(* nanoapp (mStateTransitions) or for itself, when the location setting    *)
(* changes or the PAL has lost its state and asks for a resync.            *)
(***************************************************************************)
EXTENDS Integers, Sequences, FiniteSets

CONSTANTS
  Nanoapps,
  Intervals,                 \* what a nanoapp may ask for
  FaultSets,                 \* what may happen besides requests
  kMaxGnssStateTransitions,
  MaxConfigures,             \* bound: requests made, by API or unload
  MaxToggles,                \* bound: changes of the location setting
  MaxResyncs                 \* bound: resets of the PAL

Never == 1000                \* UINT64_MAX: the interval of a request to stop
None == 0                    \* a nanoapp without a request
Ids == 1..MaxConfigures      \* a request is known by its cookie

VARIABLES
  session,                   \* the state the handlers change, a record:
                             \*   mRequests (an interval for each nanoapp),
                             \*   mStateTransitions, mCurrentInterval,
                             \*   mPlatformEnabled, the three pending flags,
                             \*   what the PAL was asked, the nanoapps
                             \*   registered for location events, and what came
                             \*   of the requests (a result posted, or FALSE when
                             \*   the call was turned down)
  passive,                   \* mPassiveLocationListenerNanoapps
  pal,                       \* what the PAL does: session on, its interval, and
                             \*   the passive listener on
  queue,                     \* callbacks deferred to the event loop
  location,                  \* Setting::LOCATION
  loaded,                    \* nanoapps in mNanoapps
  faults,                    \* what happens in this behaviour
  configures, toggles, resyncs

vars == <<session, passive, pal, queue, location, loaded, faults, configures,
          toggles, resyncs>>

Init ==
  /\ session = [mRequests |-> [n \in Nanoapps |-> None],
                mStateTransitions |-> <<>>,
                mCurrentInterval |-> Never,
                mPlatformEnabled |-> FALSE,
                mInternalRequestPending |-> FALSE,
                mSettingChangePending |-> FALSE,
                mResyncPending |-> FALSE,
                asked |-> <<>>,
                registered |-> {},
                results |-> [i \in Ids |-> <<>>]]
  /\ passive = {}
  /\ pal = [on |-> FALSE, interval |-> Never, passive |-> FALSE]
  /\ queue = <<>>
  /\ location = TRUE
  /\ loaded = Nanoapps
  /\ faults \in FaultSets
  /\ configures = 0
  /\ toggles = 0
  /\ resyncs = 0

-----------------------------------------------------------------------------
(* Steps of the handlers, on the record s.                                 *)

Requesters(s) == {n \in Nanoapps : s.mRequests[n] # None}
AsyncResponsePending(s) ==
  s.mStateTransitions # <<>> \/ s.mInternalRequestPending

\* controlPlatform, accepted by the PAL.
ControlPlatform(s, enable, interval) ==
  [s EXCEPT !.asked = Append(@, [enable |-> enable, interval |-> interval]),
            !.mPlatformEnabled = enable]

\* stateTransitionIsRequired.  A request to stop has the interval Never, and
\* counts as a decrease of the rate if nobody else asks for the same interval.
StateTransitionIsRequired(s, t) ==
  LET requestToEnable == t.enable /\ Requesters(s) = {}
      requestToIncreaseRate == /\ t.enable /\ Requesters(s) # {}
                               /\ t.interval < s.mCurrentInterval
      requestToDisable == ~t.enable /\ Requesters(s) = {t.app}
      requestToDecreaseRate ==
        /\ t.app \in Requesters(s)
        /\ t.interval > s.mCurrentInterval
        /\ s.mRequests[t.app] = s.mCurrentInterval
        /\ \A n \in Requesters(s) \ {t.app} :
             s.mRequests[n] # s.mRequests[t.app]
  IN  \/ requestToEnable
      \/ requestToDisable
      \/ requestToIncreaseRate
      \/ requestToDecreaseRate

\* updateRequests: nothing is done for a nanoapp that is gone.
UpdateRequests(s, t) ==
  IF t.app \notin loaded THEN s
  ELSE IF t.enable
  THEN [s EXCEPT !.mRequests[t.app] = t.interval,
                 !.registered = @ \cup {t.app}]
  ELSE [s EXCEPT !.mRequests[t.app] = None,
                 !.registered = IF t.app \in passive \/ t.app \notin Requesters(s)
                                THEN @ ELSE @ \ {t.app}]

PostAsyncResultEvent(s, t, success, error) ==
  [IF success THEN UpdateRequests(s, t) ELSE s
     EXCEPT !.results[t.id] = Append(@, error)]

\* configure returns false.
TurnDown(s, t) == [s EXCEPT !.results[t.id] = Append(@, "FALSE")]

PopFront(s) == [s EXCEPT !.mStateTransitions = Tail(@)]

\* updatePlatformRequest; enabled is the location setting.
UpdatePlatformRequest(s, enabled, forceUpdate, refused) ==
  LET desired == enabled /\ Requesters(s) # {}
  IN  IF (forceUpdate \/ desired # s.mPlatformEnabled) /\ ~refused
      THEN [ControlPlatform(s, desired, s.mCurrentInterval)
              EXCEPT !.mInternalRequestPending = TRUE]
      ELSE [s EXCEPT !.mInternalRequestPending = FALSE]

Refusals == IF "fails" \in faults THEN BOOLEAN ELSE {FALSE}

RECURSIVE DispatchQueuedStateTransitions(_, _)
\* dispatchQueuedStateTransitions: up to the first one that the PAL is asked.
DispatchQueuedStateTransitions(s, refused) ==
  IF s.mStateTransitions = <<>> THEN s
  ELSE LET t == Head(s.mStateTransitions)
           answered(success, error) ==
             DispatchQueuedStateTransitions(
               PopFront(PostAsyncResultEvent(s, t, success, error)), refused)
       IN  IF ~StateTransitionIsRequired(s, t) THEN answered(TRUE, "NONE")
           ELSE IF ~location THEN answered(FALSE, "FUNCTION_DISABLED")
           ELSE IF refused THEN answered(FALSE, "ERROR")
           ELSE ControlPlatform(s, t.enable, t.interval)

-----------------------------------------------------------------------------
(* The API and unloading, in the event loop.                               *)

Start(app, interval) == [app |-> app, enable |-> TRUE, interval |-> interval,
                         id |-> configures + 1]
Stop(app) == [app |-> app, enable |-> FALSE, interval |-> Never,
              id |-> configures + 1]

\* Mutant: a request does not wait for the one in flight.
ConfigureEager(s, t, refused) ==
  IF ~StateTransitionIsRequired(s, t)
  THEN PostAsyncResultEvent(s, t, TRUE, "NONE")
  ELSE ControlPlatform([s EXCEPT !.mStateTransitions = Append(@, t)], t.enable,
                       t.interval)

\* configure, for the transition t.
Configure(s, t, refused) ==
  LET queued == [s EXCEPT !.mStateTransitions = Append(@, t)]
      room == Len(s.mStateTransitions) < kMaxGnssStateTransitions
  IN  IF AsyncResponsePending(s)
      THEN IF room THEN queued ELSE TurnDown(s, t)
      ELSE IF ~StateTransitionIsRequired(s, t)
      THEN PostAsyncResultEvent(s, t, TRUE, "NONE")
      ELSE IF t.enable /\ ~location
      THEN PostAsyncResultEvent(s, t, FALSE, "FUNCTION_DISABLED")
      ELSE IF refused THEN TurnDown(s, t)
      ELSE ControlPlatform(queued, t.enable, t.interval)

\* addRequest and removeRequest
AddOrRemoveRequest(app, enable, interval) ==
  /\ app \in loaded
  /\ configures < MaxConfigures
  /\ configures' = configures + 1
  /\ \E refused \in Refusals :
       session' = Configure(session, IF enable THEN Start(app, interval)
                                     ELSE Stop(app), refused)
  /\ UNCHANGED <<passive, pal, queue, location, loaded, faults, toggles, resyncs>>

\* configurePassiveLocationListener: the platform is asked for the first and the
\* last listener, and may refuse.
SetPassiveLocationListener(app, enable, refused) ==
  LET wanted == IF enable THEN passive \cup {app} ELSE passive \ {app}
  IN  IF refused /\ (wanted = {} \/ passive = {})
      THEN UNCHANGED <<passive, pal>>
      ELSE /\ passive' = wanted
           /\ pal' = [pal EXCEPT !.passive = IF wanted = {} \/ passive = {}
                                             THEN enable ELSE @]

ConfigurePassiveLocationListener(app, enable) ==
  /\ app \in loaded
  /\ enable # (app \in passive)
  /\ \E refused \in Refusals : SetPassiveLocationListener(app, enable, refused)
  /\ session' = [session EXCEPT
                   !.registered = IF app \in passive' THEN @ \cup {app}
                                  ELSE IF app \in Requesters(session) THEN @
                                  ELSE @ \ {app}]
  /\ UNCHANGED <<queue, location, loaded, faults, configures, toggles, resyncs>>

\* disableAllSubscriptions
DisableAllSubscriptions(app, refused) ==
  /\ IF app \in passive
     THEN SetPassiveLocationListener(app, FALSE, refused)
     ELSE UNCHANGED <<passive, pal>>
  /\ IF app \in Requesters(session)
     THEN /\ configures' = configures + 1
          /\ session' = Configure(session, Stop(app), refused)
     ELSE UNCHANGED <<session, configures>>

\* Unloading: disableAllSubscriptions, then the nanoapp leaves the loop.
Unload(app) ==
  /\ "unloads" \in faults
  /\ app \in loaded
  /\ configures < MaxConfigures
  /\ loaded' = loaded \ {app}
  /\ \E refused \in Refusals : DisableAllSubscriptions(app, refused)
  /\ UNCHANGED <<queue, location, faults, toggles, resyncs>>

-----------------------------------------------------------------------------
(* The callbacks, run from the head of the loop's queue.                   *)

Callback(type) ==
  /\ queue # <<>>
  /\ Head(queue).type = type
  /\ queue' = Tail(queue)
  /\ UNCHANGED <<location, loaded, faults, configures, toggles, resyncs>>

\* The part of handleStatusChangeSync that answers the request in front.
AnswerFront(s, status) ==
  LET t == Head(s.mStateTransitions)
      error == IF status.error = "NONE" /\ t.enable # status.enabled
               THEN "ERROR" ELSE status.error
      set == [s EXCEPT !.mCurrentInterval = IF status.error = "NONE"
                                            THEN t.interval ELSE @]
  IN  PopFront(PostAsyncResultEvent(set, t, error = "NONE", error))

\* handleStatusChangeSync.  A resync that waited is only done if the request
\* failed; a change of the setting that waited is done otherwise.
HandleStatusChange(s, status, refused) ==
  IF ~AsyncResponsePending(s) THEN s
  ELSE LET answered == IF s.mInternalRequestPending
                       THEN [s EXCEPT !.mInternalRequestPending = FALSE]
                       ELSE AnswerFront(s, status)
           failed == \/ status.error # "NONE"
                     \/ /\ ~s.mInternalRequestPending
                        /\ Head(s.mStateTransitions).enable # status.enabled
           updated == IF s.mResyncPending /\ failed
                      THEN UpdatePlatformRequest(answered, location, TRUE, refused)
                      ELSE IF s.mSettingChangePending
                      THEN UpdatePlatformRequest(answered, location, FALSE, refused)
                      ELSE answered
           settled == [updated EXCEPT !.mResyncPending = FALSE,
                                      !.mSettingChangePending = FALSE]
       IN  IF settled.mInternalRequestPending
           THEN settled
           ELSE DispatchQueuedStateTransitions(settled, refused)

HandleStatusChangeSync ==
  /\ Callback("status")
  /\ \E refused \in Refusals :
       session' = HandleStatusChange(session, Head(queue), refused)
  /\ UNCHANGED <<passive, pal>>

\* handleRequestStateResyncCallbackSync
HandleRequestStateResyncCallbackSync ==
  /\ Callback("resync")
  /\ IF AsyncResponsePending(session)
     THEN session' = [session EXCEPT !.mResyncPending = TRUE]
     ELSE \E refused \in Refusals :
            session' = UpdatePlatformRequest(session, location, TRUE, refused)
  /\ \E refused \in Refusals :
       pal' = [pal EXCEPT !.passive = @ \/ (passive # {} /\ ~refused)]
  /\ UNCHANGED passive

\* The setting changes in the loop, and onSettingChanged.
OnSettingChanged ==
  /\ "setting changes" \in faults
  /\ toggles < MaxToggles
  /\ toggles' = toggles + 1
  /\ location' = ~location
  /\ UNCHANGED <<passive, pal, queue, loaded, faults, configures, resyncs>>
  /\ IF AsyncResponsePending(session)
     THEN session' = [session EXCEPT !.mSettingChangePending = TRUE]
     ELSE \E refused \in Refusals :
            session' = UpdatePlatformRequest(session, ~location, FALSE, refused)

-----------------------------------------------------------------------------
(* The environment.                                                        *)

\* The PAL carries out what it was asked first and reports it.
PalAnswers ==
  /\ session.asked # <<>>
  /\ session' = [session EXCEPT !.asked = Tail(@)]
  /\ \E error \in {"NONE"} \cup {e \in {"ERROR"} : "fails" \in faults} :
       /\ pal' = IF error # "NONE" THEN pal
                 ELSE [pal EXCEPT !.on = Head(session.asked).enable,
                                  !.interval = Head(session.asked).interval]
       /\ queue' = Append(queue, [type |-> "status", error |-> error,
                                  enabled |-> pal'.on])
  /\ UNCHANGED <<passive, location, loaded, faults, configures, toggles, resyncs>>

\* The PAL loses its state, recovers, and asks for it; what it was asked and has
\* not answered it still answers.
PalResets ==
  /\ "resets" \in faults
  /\ resyncs < MaxResyncs
  /\ resyncs' = resyncs + 1
  /\ pal' = [on |-> FALSE, interval |-> Never, passive |-> FALSE]
  /\ queue' = Append(queue, [type |-> "resync"])
  /\ UNCHANGED <<session, passive, location, loaded, faults, configures, toggles>>

LoopStep == HandleStatusChangeSync \/ HandleRequestStateResyncCallbackSync

Next ==
  \/ \E app \in Nanoapps, interval \in Intervals :
       AddOrRemoveRequest(app, TRUE, interval)
  \/ \E app \in Nanoapps : AddOrRemoveRequest(app, FALSE, Never)
  \/ \E app \in Nanoapps, enable \in BOOLEAN :
       ConfigurePassiveLocationListener(app, enable)
  \/ \E app \in Nanoapps : Unload(app)
  \/ LoopStep
  \/ OnSettingChanged
  \/ PalAnswers
  \/ PalResets

Spec == Init /\ [][Next]_vars

\* The loop runs its queue and the PAL answers.
FairStep == LoopStep \/ PalAnswers

Fairness == WF_vars(FairStep)

FairSpec == Spec /\ Fairness

-----------------------------------------------------------------------------
(* Properties.                                                             *)

QueuedIds == {session.mStateTransitions[i].id :
                i \in 1..Len(session.mStateTransitions)}
Quiet == queue = <<>> /\ session.asked = <<>> /\ ~AsyncResponsePending(session)

\* Transitions wait in the order they were asked for, none twice.
GnssTypeOK ==
  LET q == session.mStateTransitions
  IN  /\ Len(q) <= kMaxGnssStateTransitions
      /\ \A i, j \in 1..Len(q) : i < j => q[i].id < q[j].id

\* One request is with the PAL or answered in the queue exactly while one is
\* pending, whoever made it: an answer can be meant for no other request.
GnssOneInFlight ==
  LET answers == {i \in 1..Len(queue) : queue[i].type = "status"}
  IN  Len(session.asked) + Cardinality(answers)
        = IF AsyncResponsePending(session) THEN 1 ELSE 0

\* No request is answered twice, nor one whose call was turned down, and none
\* that has left the queue is without an answer, whatever the PAL refuses or fails
\* to do.
GnssAnsweredOnce ==
  \A i \in 1..configures :
    /\ Len(session.results[i]) <= 1
    /\ i \notin QueuedIds => Len(session.results[i]) = 1

\* With the location setting off the engine is off as soon as the session is
\* quiet, whatever was in progress when the setting changed, if the PAL does not
\* fail.
GnssOffWhenDisabled ==
  "fails" \notin faults /\ Quiet =>
    (~location => ~pal.on)

\* A nanoapp is registered for location events exactly as long as it has a
\* request or listens passively.
GnssRegistration ==
  session.registered \cap loaded = (Requesters(session) \cup passive) \cap loaded

\* The passive listener of the platform follows the nanoapps that listen, also
\* after the PAL was reset (unless it fails then: it is not asked again), and they
\* are loaded (unless the PAL refused to stop listening for one that unloaded).
GnssPassiveFollows ==
  /\ (/\ "fails" \notin faults \/ resyncs = 0
      /\ \A i \in 1..Len(queue) : queue[i].type # "resync") =>
       (pal.passive <=> passive # {})
  /\ "fails" \notin faults => passive \subseteq loaded

\* A session that a nanoapp has is served: the engine is on and no slower than
\* the fastest request.  (It is not: a nanoapp that stops or slows down takes
\* the engine with it.)
GnssSessionServed ==
  "fails" \notin faults /\ toggles = 0 /\ resyncs = 0 /\ Quiet =>
    \A n \in Requesters(session) :
      pal.on /\ pal.interval <= session.mRequests[n]

\* When nothing is in flight the session knows what the engine does, also after
\* the setting changed or the PAL was reset in the middle of a request.  (Not if
\* the PAL fails: mPlatformEnabled is set when it accepts a request.)
GnssStateKnown ==
  "fails" \notin faults /\ Quiet =>
    /\ session.mPlatformEnabled = pal.on
    /\ pal.on => pal.interval = session.mCurrentInterval

NoGnssRequestWaits == QueuedIds = {}

\* Every request that was accepted is answered.
EveryGnssRequestEnds == []<>NoGnssRequestWaits
=============================================================================
