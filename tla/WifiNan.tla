------------------------------ MODULE WifiNan -------------------------------
(***************************************************************************)
(* NAN subscriptions (core/wifi_request_manager.cc).  A request waits in   *)
(* mPendingNanSubscribeRequests until the platform (the PAL) tells the id  *)
(* of its subscription.  While NAN is unavailable the host is asked to     *)
(* enable it.  These requests have no timer and are not marked as sent.    *)
(***************************************************************************)
EXTENDS Integers, Sequences, FiniteSets

CONSTANTS
  Nanoapps,
  kMaxPendingNanSubscriptionRequests,
  FaultSets,                 \* what may go wrong in a behaviour
  MaxSubscribes,             \* bound: requests accepted
  MaxNotices,                \* bound: availability notices nobody asked for
  MaxToggles                 \* bound: changes of the settings

Ids == 1..MaxSubscribes      \* a request is known by its cookie
Required == {"LOCATION", "WIFI_AVAILABLE"}

VARIABLES
  nan,                       \* the state the handlers change, a record:
                             \*   mPendingNanSubscribeRequests,
                             \*   mNanoappSubscriptions, mNanIsAvailable, the
                             \*   pending configuration request, what the engine
                             \*   was asked, the answers to each request, and
                             \*   (history) the nanoapps that were unloaded
                             \*   while a request of theirs waited
  engine,                    \* the NAN engine behind the PAL: whether it runs,
                             \*   its subscriptions, and how many there were
  host,                      \* whether the host was asked to enable NAN
  queue,                     \* callbacks deferred to the event loop
  settings,                  \* the settings that are on
  loaded,                    \* nanoapps in mNanoapps
  faults,                    \* what goes wrong in this behaviour
  subscribes, notices, toggles

vars == <<nan, engine, host, queue, settings, loaded, faults, subscribes,
          notices, toggles>>

Init ==
  /\ nan = [mPendingNanSubscribeRequests |-> <<>>,
            mNanoappSubscriptions |-> {},
            mNanIsAvailable |-> FALSE,
            mNanConfigRequestToHostPendingType |-> "UNKNOWN",
            asked |-> <<>>,
            left |-> {},
            answers |-> [i \in Ids |-> <<>>]]
  /\ engine = [on |-> FALSE, active |-> {}, next |-> 1]
  /\ host = FALSE
  /\ queue = <<>>
  /\ settings = Required
  /\ loaded = Nanoapps
  /\ faults \in FaultSets
  /\ subscribes = 0
  /\ notices = 0
  /\ toggles = 0

-----------------------------------------------------------------------------
(* Steps of the handlers, on the record n.                                 *)

\* areRequiredSettingsEnabled
Enabled == settings = Required

Pending(n) == n.mPendingNanSubscribeRequests
PopFront(n) == [n EXCEPT !.mPendingNanSubscribeRequests = Tail(@)]
Answer(n, id, error) == [n EXCEPT !.answers[id] = Append(@, error)]

RECURSIVE DispatchQueued(_, _)
\* dispatchQueuedNanSubscribeRequestWithRetry, with the engine as it is.
DispatchQueued(n, refused) ==
  IF Pending(n) = <<>> THEN n
  ELSE LET id == Head(Pending(n)).id
       IN  IF Enabled /\ engine.on /\ ~refused
           THEN [n EXCEPT !.asked = Append(@, id)]
           ELSE DispatchQueued(
                  PopFront(Answer(n, id, IF Enabled THEN "ERROR"
                                         ELSE "FUNCTION_DISABLED")), refused)

\* cancelNanPendingRequestsAndInformNanoapps
CancelPending(n) ==
  LET ids == {Pending(n)[i].id : i \in 1..Len(Pending(n))}
  IN  [n EXCEPT !.mPendingNanSubscribeRequests = <<>>,
                !.answers = [i \in Ids |-> IF i \in ids
                                           THEN Append(@[i], "FUNCTION_DISABLED")
                                           ELSE @[i]]]

\* cancelNanSubscriptionsAndInformNanoapps
CancelSubscriptions(n) == [n EXCEPT !.mNanoappSubscriptions = {}]

Refusals == IF "engine fails" \in faults THEN BOOLEAN ELSE {FALSE}

-----------------------------------------------------------------------------
(* The API and unloading, in the event loop.                               *)

\* sendNanConfiguration: one request for each state the host is asked for.
SendNanConfiguration(n, state) ==
  [n EXCEPT !.mNanConfigRequestToHostPendingType = state]

\* nanSubscribe.  With NAN unavailable the request waits for the host.
NanSubscribe(app) ==
  /\ app \in loaded
  /\ subscribes < MaxSubscribes
  /\ LET id == subscribes + 1
         n == [nan EXCEPT !.mPendingNanSubscribeRequests =
                 Append(@, [app |-> app, id |-> id])]
         room == Len(Pending(nan)) < kMaxPendingNanSubscriptionRequests
     IN  \/ /\ ~Enabled
            /\ nan' = Answer(nan, id, "FUNCTION_DISABLED")
            /\ UNCHANGED host
         \/ /\ Enabled /\ room /\ nan.mNanIsAvailable
            /\ \E refused \in Refusals :
                 \/ /\ Len(Pending(n)) = 1 /\ engine.on /\ ~refused
                    /\ nan' = [n EXCEPT !.asked = Append(@, id)]
                 \/ /\ Len(Pending(n)) > 1
                    /\ nan' = n
            /\ UNCHANGED host
         \/ /\ Enabled /\ room /\ ~nan.mNanIsAvailable
            /\ nan' = SendNanConfiguration(n, "ENABLE")
            /\ host' = (host \/ nan.mNanConfigRequestToHostPendingType # "ENABLE")
  /\ subscribes' = subscribes + 1
  /\ UNCHANGED <<engine, queue, settings, loaded, faults, notices, toggles>>

\* The engine takes a cancellation: it drops the subscription and says so.
EngineCancels(subs) ==
  /\ engine' = [engine EXCEPT !.active = @ \ subs]
  /\ \E order \in [1..Cardinality(subs) -> subs] :
       /\ \A i, j \in DOMAIN order : i < j => order[i] < order[j]
       /\ queue' = queue \o [i \in DOMAIN order |->
                               [type |-> "canceled", sub |-> order[i]]]

\* nanSubscribeCancel: the entry stays until the engine has confirmed.
NanSubscribeCancel(app) ==
  /\ app \in loaded
  /\ \E s \in nan.mNanoappSubscriptions :
       /\ s.app = app
       /\ s.sub \in engine.active
       /\ EngineCancels({s.sub})
  /\ UNCHANGED <<nan, host, settings, loaded, faults,
                 subscribes, notices, toggles>>

WaitingApps == {Pending(nan)[i].app : i \in 1..Len(Pending(nan))}


\* Unloading: disableAllSubscriptions cancels what the nanoapp has; what it is
\* still waiting for is not looked at.
Unload(app) ==
  /\ "unloads" \in faults
  /\ app \in loaded
  /\ loaded' = loaded \ {app}
  /\ EngineCancels({s.sub : s \in {t \in nan.mNanoappSubscriptions :
                                     t.app = app}} \cap engine.active)
  /\ nan' = [nan EXCEPT !.left = @ \cup ({app} \cap WaitingApps)]
  /\ UNCHANGED <<host, settings, faults, subscribes, notices, toggles>>

-----------------------------------------------------------------------------
(* The callbacks, run from the head of the loop's queue.                   *)

Callback(type) ==
  /\ queue # <<>>
  /\ Head(queue).type = type
  /\ queue' = Tail(queue)
  /\ UNCHANGED <<engine, host, settings, loaded, faults,
                 subscribes, notices, toggles>>

\* handleNanServiceIdentifierEventSync: the id is for the request in front.
HandleIdentifier(n, event, refused) ==
  IF Pending(n) = <<>>
  THEN n
  ELSE LET r == Head(Pending(n))
           stored == IF event.error = "NONE"
                     THEN [n EXCEPT !.mNanoappSubscriptions = @ \cup
                             {[app |-> r.app, sub |-> event.sub]}]
                     ELSE n
       IN  DispatchQueued(PopFront(Answer(stored, r.id, event.error)), refused)

HandleNanServiceIdentifierEventSync ==
  /\ Callback("identifier")
  /\ \E refused \in Refusals :
       nan' = HandleIdentifier(nan, Head(queue), refused)

\* handleNanServiceSubscriptionCanceledEventSync
SubscriptionCanceled(n, sub) ==
  [n EXCEPT !.mNanoappSubscriptions = {s \in @ : s.sub # sub}]

HandleNanServiceSubscriptionCanceledEventSync ==
  /\ Callback("canceled")
  /\ nan' = SubscriptionCanceled(nan, Head(queue).sub)

\* handleNanServiceTerminatedEventSync informs the nanoapp and keeps the entry.
HandleNanServiceTerminatedEventSync ==
  /\ Callback("terminated")
  /\ UNCHANGED nan

\* handleNanAvailabilitySync.  The request in front is sent, again if it had
\* been sent; or all requests and subscriptions are dropped.
HandleNanAvailability(n, available, refused) ==
  LET state == IF available THEN "ENABLE" ELSE "DISABLE"
      updated == [n EXCEPT
                    !.mNanIsAvailable = available,
                    !.mNanConfigRequestToHostPendingType =
                       IF @ = state THEN "UNKNOWN" ELSE @]
  IN  IF available THEN DispatchQueued(updated, refused)
                   ELSE CancelSubscriptions(CancelPending(updated))

HandleNanAvailabilitySync ==
  /\ Callback("availability")
  /\ \E refused \in Refusals :
       nan' = HandleNanAvailability(nan, Head(queue).available, refused)

-----------------------------------------------------------------------------
(* The environment.                                                        *)

\* The engine answers what it was asked first.
EngineAnswers ==
  /\ nan.asked # <<>>
  /\ nan' = [nan EXCEPT !.asked = Tail(@)]
  /\ \E error \in {"NONE"} \cup {e \in {"ERROR"} : "engine fails" \in faults} :
       /\ engine' = IF error = "NONE"
                    THEN [engine EXCEPT !.active = @ \cup {engine.next},
                                        !.next = @ + 1]
                    ELSE engine
       /\ queue' = Append(queue, [type |-> "identifier", error |-> error,
                                  sub |-> engine.next, id |-> Head(nan.asked)])
  /\ UNCHANGED <<host, settings, loaded, faults, subscribes, notices, toggles>>

\* The publisher or the engine ends a subscription.
EngineTerminates(sub) ==
  /\ sub \in engine.active
  /\ engine' = [engine EXCEPT !.active = @ \ {sub}]
  /\ queue' = Append(queue, [type |-> "terminated", sub |-> sub])
  /\ UNCHANGED <<nan, host, settings, loaded, faults,
                 subscribes, notices, toggles>>

\* The engine starts or stops.  One that stops drops what it has.
EngineChanges(on) ==
  /\ engine' = [engine EXCEPT !.on = on, !.active = IF on THEN @ ELSE {}]
  /\ nan' = [nan EXCEPT !.asked = IF on THEN @ ELSE <<>>]
  /\ queue' = Append(queue, [type |-> "availability", available |-> on])

\* The host does what it was asked, and updateNanAvailability is called.
HostEnables ==
  /\ host
  /\ host' = FALSE
  /\ EngineChanges(TRUE)
  /\ UNCHANGED <<settings, loaded, faults, subscribes, notices, toggles>>

\* The host reports a change, or the same state again, that CHRE did not ask for.
HostNotifies(on) ==
  /\ "engine restarts" \in faults
  /\ notices < MaxNotices
  /\ notices' = notices + 1
  /\ EngineChanges(on)
  /\ UNCHANGED <<host, settings, loaded, faults, subscribes, toggles>>

\* onSettingChanged: Wi-Fi off ends everything, location off only what is asked
\* from then on.  The engine follows by itself.
SettingChanges(setting) ==
  /\ "setting changes" \in faults
  /\ toggles < MaxToggles
  /\ toggles' = toggles + 1
  /\ settings' = IF setting \in settings THEN settings \ {setting}
                 ELSE settings \cup {setting}
  /\ nan' = IF setting = "WIFI_AVAILABLE" /\ setting \in settings
            THEN CancelSubscriptions(CancelPending(nan)) ELSE nan
  /\ UNCHANGED <<engine, host, queue, loaded, faults, subscribes, notices>>

LoopStep ==
  \/ HandleNanServiceIdentifierEventSync
  \/ HandleNanServiceSubscriptionCanceledEventSync
  \/ HandleNanServiceTerminatedEventSync
  \/ HandleNanAvailabilitySync

Next ==
  \/ \E app \in Nanoapps : NanSubscribe(app) \/ NanSubscribeCancel(app)
                             \/ Unload(app)
  \/ LoopStep
  \/ EngineAnswers
  \/ \E sub \in 1..(engine.next - 1) : EngineTerminates(sub)
  \/ HostEnables
  \/ \E on \in BOOLEAN : HostNotifies(on)
  \/ \E setting \in Required : SettingChanges(setting)

Spec == Init /\ [][Next]_vars

\* The loop runs its queue, the engine answers, the host enables NAN.
FairStep == LoopStep \/ EngineAnswers \/ HostEnables

Fairness == WF_vars(FairStep)

FairSpec == Spec /\ Fairness

-----------------------------------------------------------------------------
(* Properties.                                                             *)

QueuedIds == {Pending(nan)[i].id : i \in 1..Len(Pending(nan))}
Steady == faults \cap {"engine restarts", "setting changes"} = {}

\* Requests wait in the order they were made; a subscription has one owner.
NanTypeOK ==
  /\ Len(Pending(nan)) <= kMaxPendingNanSubscriptionRequests
  /\ \A i, j \in 1..Len(Pending(nan)) :
       i < j => Pending(nan)[i].id < Pending(nan)[j].id
  /\ \A s, t \in nan.mNanoappSubscriptions : s.sub = t.sub => s = t

\* No request is answered twice, with an id or with a failure; one that is no
\* longer pending has been answered.
NanAnsweredOnce ==
  \A i \in 1..subscribes :
    Len(nan.answers[i]) = IF i \in QueuedIds THEN 0 ELSE 1

\* The id that the engine returns is given to the request it was returned for.
\* (Only if availability and settings do not change under a request.)
NanIdForItsRequest ==
  Steady =>
    \A k \in 1..Len(queue) :
      queue[k].type = "identifier" =>
        /\ \A j \in 1..(k - 1) : queue[j].type # "identifier"
        /\ Pending(nan) # <<>>
        /\ Head(Pending(nan)).id = queue[k].id

\* Once the queue has run, every subscription of the engine has an owner that
\* its discoveries are sent to, and the owner is loaded or was unloaded while its
\* request waited: disableAllSubscriptions does not look at those requests, so
\* that their subscriptions outlive it.  (Only if availability and settings do not
\* change: then the entries are dropped and the engine is not told.)
NanSubscriptionsOwned ==
  Steady /\ queue = <<>> =>
    \A sub \in engine.active :
      \E s \in nan.mNanoappSubscriptions :
        s.sub = sub /\ s.app \in loaded \cup nan.left

\* No request waits for something that will not happen, as long as availability
\* and settings do not change under it.
NanQueueMoves ==
  Steady /\ Pending(nan) # <<>> => queue # <<>> \/ nan.asked # <<>> \/ host

NoSubscribeWaits == QueuedIds = {}

\* Every request that was accepted is answered.
EverySubscribeEnds == []<>NoSubscribeWaits
=============================================================================
