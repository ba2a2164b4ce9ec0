-------------------------- MODULE WifiScanMonitor ---------------------------
(***************************************************************************)
(* The Wi-Fi scan monitor (core/wifi_request_manager.cc): nanoapps         *)
(* subscribe and unsubscribe, the platform (the PAL) is switched on for    *)
(* the first subscriber and off after the last, one transition at a time.  *)
(***************************************************************************)
EXTENDS Integers, Sequences, FiniteSets, FiniteSetsExt

CONSTANTS
  Nanoapps,
  kMaxScanMonitorStateTransitions, \* capacity of mPendingScanMonitorRequests
  MaxConfigures                    \* bound: requests made, by API or unload

Invalid == 0                       \* CHRE_TIMER_INVALID
Ids == 1..MaxConfigures            \* a request is known by its cookie

VARIABLES
  monitor,                   \* the state the handlers change, a record:
                             \*   mPendingScanMonitorRequests,
                             \*   mScanMonitorNanoapps, the timeout handle (a
                             \*   timer is named by its request), timers to
                             \*   fire, what the PAL was asked, what came of
                             \*   the requests (a result posted, or FALSE when
                             \*   the call was turned down);
                             \*   ghosts: whether the list went astray from
                             \*   what the PAL does, and the nanoapps kept in
                             \*   it because a request failed or timed out
  palOn,                     \* whether the PAL delivers monitor results
  queue,                     \* callbacks deferred to the event loop
  loaded,                    \* nanoapps in mNanoapps
  faults,                    \* what goes wrong in this behaviour
  configures

vars == <<monitor, palOn, queue, loaded, faults, configures>>

Init ==
  /\ monitor = [mPendingScanMonitorRequests |-> <<>>,
                mScanMonitorNanoapps |-> {},
                mConfigureScanMonitorTimeoutHandle |-> Invalid,
                timers |-> {},
                asked |-> <<>>,
                results |-> [i \in Ids |-> <<>>],
                astray |-> FALSE,
                kept |-> {}]
  /\ palOn = FALSE
  /\ queue = <<>>
  /\ loaded = Nanoapps
  /\ faults \in SUBSET {"answers late", "fails", "unloads"}
  /\ configures = 0

-----------------------------------------------------------------------------
(* Steps of the handlers, on the record m.                                 *)

Pending(m) == m.mPendingScanMonitorRequests
ScanMonitorIsEnabled(m) == m.mScanMonitorNanoapps # {}

\* Mutant: the others that still monitor are not counted.
InRequestedStateAlone(m, r) ==
  \/ r.enable = ScanMonitorIsEnabled(m)
  \/ ~r.enable /\ r.app \notin m.mScanMonitorNanoapps

ScanMonitorIsInRequestedState(m, r) ==
  \/ r.enable = ScanMonitorIsEnabled(m)
  \/ /\ ~r.enable
     /\ \/ r.app \notin m.mScanMonitorNanoapps
        \/ Cardinality(m.mScanMonitorNanoapps) > 1

\* updateNanoappScanMonitoringList: a nanoapp that is gone is only removed.
UpdateNanoappScanMonitoringList(m, app, enable) ==
  IF enable
  THEN [m EXCEPT !.mScanMonitorNanoapps = @ \cup ({app} \cap loaded)]
  ELSE [m EXCEPT !.mScanMonitorNanoapps = @ \ {app}]

\* postScanMonitorAsyncResultEvent: a request to disable that failed also
\* removes the nanoapp.
PostScanMonitorAsyncResultEvent(m, r, success, error) ==
  LET updated == IF ~success /\ r.enable
                 THEN m ELSE UpdateNanoappScanMonitoringList(m, r.app, r.enable)
  IN  [updated EXCEPT !.results[r.id] = Append(@, error),
                      !.astray = \/ @
                                 \/ ~success /\ ~r.enable
                                 \/ success /\ r.enable /\ r.app \notin loaded]

\* configureScanMonitor returns false.
TurnDown(m, r) == [m EXCEPT !.results[r.id] = Append(@, "FALSE")]

\* The PAL takes a request, and setConfigureScanMonitorTimer.
SendToPal(m, r) ==
  [m EXCEPT !.asked = Append(@, [id |-> r.id, enable |-> r.enable]),
            !.mConfigureScanMonitorTimeoutHandle = r.id,
            !.timers = @ \cup {r.id}]

RECURSIVE DispatchQueued(_, _)
\* dispatchQueuedConfigureScanMonitorRequests: answer and pop the requests that
\* need nothing or that the PAL refuses, up to the first one that it takes.
DispatchQueued(m, refused) ==
  IF Pending(m) = <<>>
  THEN m
  ELSE LET r == Head(Pending(m))
           popped == [m EXCEPT !.mPendingScanMonitorRequests = Tail(@)]
       IN  IF ScanMonitorIsInRequestedState(m, r)
           THEN DispatchQueued(
                  PostScanMonitorAsyncResultEvent(popped, r, TRUE, "NONE"),
                  refused)
           ELSE IF r.id \in refused
           THEN DispatchQueued(
                  PostScanMonitorAsyncResultEvent(popped, r, FALSE, "ERROR"),
                  refused)
           ELSE SendToPal(m, r)

\* The requests that the PAL turns down synchronously.
Refusals == IF "fails" \in faults THEN SUBSET Ids ELSE {{}}

-----------------------------------------------------------------------------
(* The API and unloading, in the event loop.                               *)

\* configureScanMonitor, for the request r.
ConfigureScanMonitor(r, refused) ==
  LET queued == [monitor EXCEPT !.mPendingScanMonitorRequests = Append(@, r)]
  IN  IF Pending(monitor) # <<>>
      THEN IF Len(Pending(monitor)) < kMaxScanMonitorStateTransitions
           THEN queued ELSE TurnDown(monitor, r)
      ELSE IF ScanMonitorIsInRequestedState(monitor, r)
      THEN PostScanMonitorAsyncResultEvent(monitor, r, TRUE, "NONE")
      ELSE IF r.id \in refused
      THEN TurnDown(monitor, r)
      ELSE SendToPal(queued, r)

Configure(app, enable) ==
  /\ app \in loaded
  /\ configures < MaxConfigures
  /\ configures' = configures + 1
  /\ \E refused \in Refusals :
       monitor' = ConfigureScanMonitor(
                    [app |-> app, enable |-> enable, id |-> configures + 1],
                    refused)
  /\ UNCHANGED <<palOn, queue, loaded, faults>>

\* nanoappHasPendingScanMonitorRequest: what its last pending request asks.
NanoappHasPendingScanMonitorRequest(app) ==
  LET own == {i \in 1..Len(Pending(monitor)) : Pending(monitor)[i].app = app}
  IN  own # {} /\ Pending(monitor)[Max(own)].enable

\* Unloading: disableAllSubscriptions, then the nanoapp leaves the loop.
Unload(app) ==
  /\ "unloads" \in faults
  /\ app \in loaded
  /\ configures < MaxConfigures
  /\ loaded' = loaded \ {app}
  /\ IF \/ app \in monitor.mScanMonitorNanoapps
        \/ NanoappHasPendingScanMonitorRequest(app)
     THEN /\ configures' = configures + 1
          /\ \E refused \in Refusals :
               LET r == [app |-> app, enable |-> FALSE, id |-> configures + 1]
                   m == ConfigureScanMonitor(r, refused)
               IN  monitor' = IF m = TurnDown(monitor, r)
                              THEN [m EXCEPT !.kept = @ \cup {app}] ELSE m
     ELSE UNCHANGED <<configures, monitor>>
  /\ UNCHANGED <<palOn, queue, faults>>

-----------------------------------------------------------------------------
(* The callbacks, run from the head of the loop's queue.                   *)

Callback(type) ==
  /\ queue # <<>>
  /\ Head(queue).type = type
  /\ queue' = Tail(queue)
  /\ UNCHANGED <<palOn, loaded, faults, configures>>

\* handleScanMonitorStateChangeSync: the change answers the request in front.
HandleStateChange(m, change, refused) ==
  IF Pending(m) = <<>>
  THEN m
  ELSE LET r == Head(Pending(m))
           posted == PostScanMonitorAsyncResultEvent(
                       m, r, change.error = "NONE" /\ r.enable = change.enabled,
                       change.error)
       IN  DispatchQueued([posted EXCEPT !.mPendingScanMonitorRequests =
                                           Tail(@)], refused)

HandleScanMonitorStateChangeSync ==
  /\ Callback("state change")
  /\ \E refused \in Refusals :
       monitor' = HandleStateChange(monitor, Head(queue), refused)

\* handleConfigureScanMonitorTimeout: pops the request in front, unanswered.
HandleConfigureScanMonitorTimeout ==
  /\ Callback("timeout")
  /\ IF Pending(monitor) = <<>>
     THEN UNCHANGED monitor
     ELSE \E refused \in Refusals :
            monitor' = DispatchQueued(
                         [monitor EXCEPT
                            !.mPendingScanMonitorRequests = Tail(@),
                            !.astray = TRUE,
                            !.kept = @ \cup {Head(Pending(monitor)).app}],
                         refused)

-----------------------------------------------------------------------------
(* The environment.                                                        *)

TimerFires(i) ==
  /\ "answers late" \in faults
  /\ i \in monitor.timers
  /\ monitor' = [monitor EXCEPT !.timers = @ \ {i}]
  /\ queue' = Append(queue, [type |-> "timeout"])
  /\ UNCHANGED <<palOn, loaded, faults, configures>>

\* The PAL carries out what it was asked first and calls
\* handleScanMonitorStateChange, which cancels whichever timer the handle names
\* now and defers the rest to the loop.
PalAnswers ==
  /\ monitor.asked # <<>>
  /\ \E error \in {"NONE"} \cup {e \in {"ERROR"} : "fails" \in faults} :
       LET enabled == IF error = "NONE" THEN Head(monitor.asked).enable
                                        ELSE palOn
       IN  /\ palOn' = enabled
           /\ queue' = Append(queue, [type |-> "state change",
                                      enabled |-> enabled, error |-> error])
  /\ monitor' = [monitor EXCEPT
                   !.asked = Tail(@),
                   !.timers = @ \ {monitor.mConfigureScanMonitorTimeoutHandle}]
  /\ UNCHANGED <<loaded, faults, configures>>

LoopStep ==
  \/ HandleScanMonitorStateChangeSync
  \/ HandleConfigureScanMonitorTimeout

Next ==
  \/ \E app \in Nanoapps, enable \in BOOLEAN : Configure(app, enable)
  \/ \E app \in Nanoapps : Unload(app)
  \/ LoopStep
  \/ \E i \in Ids : TimerFires(i)
  \/ PalAnswers

Spec == Init /\ [][Next]_vars

\* The loop runs its queue, timers fire, and a PAL that is in time answers.
FairStep ==
  \/ LoopStep
  \/ \E i \in Ids : TimerFires(i)
  \/ "answers late" \notin faults /\ PalAnswers

Fairness == WF_vars(FairStep)

FairSpec == Spec /\ Fairness

-----------------------------------------------------------------------------
(* Properties.                                                             *)

QueuedIds == {Pending(monitor)[i].id : i \in 1..Len(Pending(monitor))}
Quiet == Pending(monitor) = <<>> /\ queue = <<>> /\ monitor.asked = <<>>

\* Requests wait in the order they were made, none twice.
MonitorTypeOK ==
  LET q == Pending(monitor)
  IN  /\ Len(q) <= kMaxScanMonitorStateTransitions
      /\ \A i, j \in 1..Len(q) : i < j => q[i].id < q[j].id
      /\ monitor.mScanMonitorNanoapps \subseteq Nanoapps
      /\ monitor.timers \subseteq Ids

\* One transition is in flight at a time and it is the one in front, as long as
\* the PAL meets its deadline: its answer can be meant for no other request.
MonitorInFlightIsFront ==
  "answers late" \notin faults =>
    /\ Len(monitor.asked) <= 1
    /\ monitor.asked # <<>> =>
         /\ Pending(monitor) # <<>>
         /\ Head(Pending(monitor)).id = Head(monitor.asked).id

\* When nothing is under way, the PAL monitors exactly if some nanoapp is listed
\* for it, unless at some time a request timed out, the PAL failed to switch the
\* monitor off, or switched it on for a nanoapp that was gone.
MonitorMatchesPal ==
  ~monitor.astray /\ Quiet => (palOn <=> ScanMonitorIsEnabled(monitor))

\* A nanoapp that is gone is no longer listed once the queue has run, although
\* its unsubscription completes after it was unloaded; unless the request made
\* at its unload was refused, found the queue full, or a request of it timed out.
MonitorForgetsUnloaded ==
  Quiet => monitor.mScanMonitorNanoapps \subseteq loaded \cup monitor.kept

\* No result comes twice, nor one for a call that was turned down; none is missing
\* when the PAL meets its deadline, whatever it refuses or fails to do.
MonitorAnsweredOnce ==
  /\ \A i \in Ids : Len(monitor.results[i]) <= 1
  /\ "answers late" \notin faults =>
       \A i \in 1..configures :
         i \notin QueuedIds => Len(monitor.results[i]) = 1

\* The monitor is off when the last nanoapp that used it has been unloaded.
\* (It stays on if the nanoapp was unloaded while the PAL was switching it on.)
MonitorOffAfterUnload ==
  faults = {"unloads"} /\ Quiet /\ loaded = {} => ~palOn

NoConfigureWaits == QueuedIds = {}

\* Every request leaves the queue.
EveryConfigureEnds == []<>NoConfigureWaits
=============================================================================
