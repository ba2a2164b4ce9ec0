------------------------------ MODULE WifiScan ------------------------------
(***************************************************************************)
(* On-demand Wi-Fi scans (core/wifi_request_manager.cc): a queue of        *)
(* requests, one of which is in the hands of the platform (the PAL).  The  *)
(* event loop runs the handlers; the PAL's thread and the timer defer      *)
(* callbacks to the loop's queue.                                          *)
(*                                                                         *)
(* A timer callback that is queued when its timer is cancelled still runs  *)
(* (see TimerPool), and it is not told which request it was set for.       *)
(***************************************************************************)
EXTENDS Integers, Sequences, FiniteSets, FiniteSetsExt

CONSTANTS
  Nanoapps,
  kMaxPendingScanRequest,    \* capacity of mPendingScanRequests
  Totals,                    \* how many access points a scan may find
  MaxScans,                  \* bound: requests accepted
  MaxToggles,                \* bound: changes of the Wi-Fi setting
  MaxMonitorEvents           \* bound: scan events nobody asked for

Invalid == 0                 \* CHRE_TIMER_INVALID
Ids == 1..MaxScans           \* a request is known by its cookie

VARIABLES
  wifi,                      \* the state the handlers change, a record:
                             \*   mPendingScanRequests, and the flag, the count
                             \*   and the timer handle of the request in front
                             \*   (a timer is named by the request it is for),
                             \*   timers still to fire, the PAL's scan, and the
                             \*   results posted for each request
  queue,                     \* callbacks deferred to the event loop
  available,                 \* Setting::WIFI_AVAILABLE
  faults,                    \* what goes wrong in this behaviour
  scans, toggles, monitorEvents

vars == <<wifi, queue, available, faults, scans, toggles, monitorEvents>>

PalIdle == [phase |-> "idle", id |-> 0, total |-> 0, sent |-> 0]

Init ==
  /\ wifi = [mPendingScanRequests |-> <<>>,
             mScanRequestResultsArePending |-> FALSE,
             mScanEventResultCountAccumulator |-> 0,
             mScanRequestTimeoutHandle |-> Invalid,
             timers |-> {},
             pal |-> PalIdle,
             results |-> [i \in Ids |-> <<>>]]
  /\ queue = <<>>
  /\ available = TRUE
  /\ faults \in SUBSET {"setting changes", "answers late"}
  /\ scans = 0
  /\ toggles = 0
  /\ monitorEvents = 0

-----------------------------------------------------------------------------
(* Steps of the handlers, on the record w.                                 *)

Pending(w) == w.mPendingScanRequests
PopFront(w) == [w EXCEPT !.mPendingScanRequests = Tail(@)]

PostScanRequestAsyncResultEvent(w, i, error) ==
  [w EXCEPT !.results[i] = Append(@, error)]

CancelScanRequestTimer(w) ==
  [w EXCEPT !.timers = @ \ {w.mScanRequestTimeoutHandle},
            !.mScanRequestTimeoutHandle = Invalid]

\* dispatchQueuedScanRequests.  The requests in front that the setting or the
\* PAL refuses are answered and popped, up to the first one that the PAL takes
\* or that it has already.  refused: what the PAL turns down although idle.
DispatchQueuedScanRequests(w, refused) ==
  LET q == Pending(w)
      accepted(r) == /\ available
                     /\ w.pal.phase = "idle"
                     /\ r.id \notin refused
      k == Min({i \in 1..Len(q) : q[i].dispatched \/ accepted(q[i])}
                 \cup {Len(q) + 1})
      error == IF available THEN "ERROR" ELSE "FUNCTION_DISABLED"
      failed == {q[i].id : i \in 1..(k - 1)}
      rest == [w EXCEPT
                !.mPendingScanRequests = SubSeq(q, k, Len(q)),
                !.results = [i \in Ids |-> IF i \in failed
                                           THEN Append(@[i], error) ELSE @[i]]]
  IN  IF k > Len(q) \/ q[k].dispatched
      THEN rest
      ELSE [rest EXCEPT
              !.mPendingScanRequests = <<[q[k] EXCEPT !.dispatched = TRUE]>>
                                         \o Tail(@),
              !.mScanRequestTimeoutHandle = q[k].id,
              !.timers = @ \cup {q[k].id},
              !.pal = [PalIdle EXCEPT !.phase = "asked", !.id = q[k].id]]

-----------------------------------------------------------------------------
(* The API, called by a nanoapp in the event loop.                         *)

NanoappHasPendingScanRequest(app) ==
  \E i \in 1..Len(Pending(wifi)) : Pending(wifi)[i].app = app

\* requestScan.  A request that finds Wi-Fi off is queued like any other, and a
\* failure is deferred that will answer whichever request is then in front.
RequestScan(app) ==
  /\ scans < MaxScans
  /\ ~NanoappHasPendingScanRequest(app)
  /\ Len(Pending(wifi)) < kMaxPendingScanRequest
  /\ scans' = scans + 1
  /\ LET request == [app |-> app, id |-> scans + 1, dispatched |-> FALSE]
         w == [wifi EXCEPT !.mPendingScanRequests = Append(@, request)]
     IN  \/ /\ ~available
            /\ wifi' = w
            /\ queue' = Append(queue, [type |-> "response", pending |-> FALSE,
                                       error |-> "FUNCTION_DISABLED",
                                       id |-> request.id])
         \/ /\ available
            /\ UNCHANGED queue
            /\ IF Len(Pending(w)) = 1 /\ ~w.mScanRequestResultsArePending
               THEN \E refused \in SUBSET Ids :
                      wifi' = DispatchQueuedScanRequests(w, refused)
               ELSE wifi' = w
  /\ UNCHANGED <<available, faults, toggles, monitorEvents>>

-----------------------------------------------------------------------------
(* The callbacks, run from the head of the loop's queue.                   *)

Callback(type) ==
  /\ queue # <<>>
  /\ Head(queue).type = type
  /\ queue' = Tail(queue)
  /\ UNCHANGED <<available, faults, scans, toggles, monitorEvents>>

\* handleScanResponseSync: the response answers the request in front.
HandleScanResponse(w, response, refused) ==
  IF Pending(w) = <<>>
  THEN w
  ELSE LET error == IF ~response.pending /\ response.error = "NONE"
                    THEN "ERROR" ELSE response.error
           posted == PostScanRequestAsyncResultEvent(
                       [w EXCEPT !.mScanRequestResultsArePending =
                                   response.pending],
                       Head(Pending(w)).id, error)
       IN  IF response.pending
           THEN posted
           ELSE DispatchQueuedScanRequests(
                  PopFront(CancelScanRequestTimer(posted)), refused)

HandleScanResponseSync ==
  /\ Callback("response")
  /\ \E refused \in SUBSET Ids :
       wifi' = HandleScanResponse(wifi, Head(queue), refused)

\* handleScanEventSync: results are counted against the request in front while
\* its results are pending; the last one pops it.
HandleScanEvent(w, event, refused) ==
  LET counted == w.mScanEventResultCountAccumulator + event.count
      complete == w.mScanRequestResultsArePending /\ counted >= event.total
      popped == IF Pending(w) = <<>> THEN w ELSE PopFront(w)
      distributed ==
        IF complete
        THEN [CancelScanRequestTimer(popped) EXCEPT
                !.mScanEventResultCountAccumulator = 0,
                !.mScanRequestResultsArePending = FALSE]
        ELSE IF w.mScanRequestResultsArePending
             THEN [w EXCEPT !.mScanEventResultCountAccumulator = counted]
             ELSE w
  IN  IF distributed.mScanRequestResultsArePending
      THEN distributed
      ELSE DispatchQueuedScanRequests(distributed, refused)

HandleScanEventSync ==
  /\ Callback("event")
  /\ \E refused \in SUBSET Ids :
       wifi' = HandleScanEvent(wifi, Head(queue), refused)

\* Mutant: the flag of the request that timed out is left set.
HandleTimeoutKeepsFlag(w, refused) ==
  LET reset == [w EXCEPT !.mScanRequestTimeoutHandle = Invalid]
  IN  IF Pending(w) = <<>>
      THEN reset
      ELSE DispatchQueuedScanRequests(
             PopFront([reset EXCEPT !.mScanEventResultCountAccumulator = 0]),
             refused)

\* handleScanRequestTimeout: pops the request in front, with no result.
HandleTimeout(w, refused) ==
  LET reset == [w EXCEPT !.mScanRequestTimeoutHandle = Invalid]
  IN  IF Pending(w) = <<>>
      THEN reset
      ELSE DispatchQueuedScanRequests(
             PopFront([reset EXCEPT !.mScanEventResultCountAccumulator = 0,
                                    !.mScanRequestResultsArePending = FALSE]),
             refused)

HandleScanRequestTimeout ==
  /\ Callback("timeout")
  /\ \E refused \in SUBSET Ids : wifi' = HandleTimeout(wifi, refused)

-----------------------------------------------------------------------------
(* The environment.                                                        *)

TimerFires(i) ==
  /\ "answers late" \in faults
  /\ i \in wifi.timers
  /\ wifi' = [wifi EXCEPT !.timers = @ \ {i}]
  /\ queue' = Append(queue, [type |-> "timeout"])
  /\ UNCHANGED <<available, faults, scans, toggles, monitorEvents>>

\* The PAL answers: the scan failed, or its results follow.
PalResponds ==
  /\ wifi.pal.phase = "asked"
  /\ \E pending \in BOOLEAN, total \in Totals :
       /\ wifi' = [wifi EXCEPT !.pal =
                     IF pending
                     THEN [@ EXCEPT !.phase = "results", !.total = total]
                     ELSE PalIdle]
       /\ queue' = Append(queue, [type |-> "response", pending |-> pending,
                                  error |-> IF pending THEN "NONE" ELSE "ERROR",
                                  id |-> wifi.pal.id])
  /\ UNCHANGED <<available, faults, scans, toggles, monitorEvents>>

\* One scan event, with all of the results that are left or with one of them.
PalScanEvent ==
  /\ wifi.pal.phase = "results"
  /\ LET left == wifi.pal.total - wifi.pal.sent
     IN  \E count \in {left, Min({1, left})} :
           /\ wifi' = [wifi EXCEPT !.pal =
                         IF count = left THEN PalIdle
                                         ELSE [@ EXCEPT !.sent = @ + count]]
           /\ queue' = Append(queue, [type |-> "event", count |-> count,
                                      total |-> wifi.pal.total])
  /\ UNCHANGED <<available, faults, scans, toggles, monitorEvents>>

\* A scan of somebody else, seen because the scan monitor is on.  It does not
\* come between a response and the results the response announced.
PalMonitorEvent ==
  /\ monitorEvents < MaxMonitorEvents
  /\ wifi.pal.phase # "results"
  /\ monitorEvents' = monitorEvents + 1
  /\ queue' = Append(queue, [type |-> "event", count |-> 1, total |-> 1])
  /\ UNCHANGED <<wifi, available, faults, scans, toggles>>

SettingChanges ==
  /\ "setting changes" \in faults
  /\ toggles < MaxToggles
  /\ toggles' = toggles + 1
  /\ available' = ~available
  /\ UNCHANGED <<wifi, queue, faults, scans, monitorEvents>>

LoopStep ==
  \/ HandleScanResponseSync
  \/ HandleScanEventSync
  \/ HandleScanRequestTimeout

PalStep == PalResponds \/ PalScanEvent

Next ==
  \/ \E app \in Nanoapps : RequestScan(app)
  \/ LoopStep
  \/ \E i \in Ids : TimerFires(i)
  \/ PalStep
  \/ PalMonitorEvent
  \/ SettingChanges

Spec == Init /\ [][Next]_vars

\* The loop runs its queue, timers fire, and a PAL that is in time answers.
FairStep ==
  \/ LoopStep
  \/ \E i \in Ids : TimerFires(i)
  \/ "answers late" \notin faults /\ PalStep

Fairness == WF_vars(FairStep)

FairSpec == Spec /\ Fairness

-----------------------------------------------------------------------------
(* Properties.                                                             *)

QueuedIds == {Pending(wifi)[i].id : i \in 1..Len(Pending(wifi))}

\* Requests wait in the order they were made, none twice; only the one in front
\* has been dispatched, and the flag and the count describe it alone.
ScanTypeOK ==
  LET q == Pending(wifi)
  IN  /\ Len(q) <= kMaxPendingScanRequest
      /\ \A i \in 1..Len(q) : q[i].app \in Nanoapps /\ q[i].id \in Ids
      /\ \A i, j \in 1..Len(q) : i < j => q[i].id < q[j].id
      /\ \A i \in 2..Len(q) : ~q[i].dispatched
      /\ wifi.mScanRequestResultsArePending => q # <<>>
      /\ wifi.timers \subseteq Ids

\* The scan timer is set exactly while the request in front is with the PAL,
\* whatever stale callbacks and answers meant for another request have done to
\* the queue (so setScanRequestTimer never finds a timer set).
ScanTimerGuardsFront ==
  wifi.mScanRequestTimeoutHandle # Invalid
    <=> Pending(wifi) # <<>> /\ Head(Pending(wifi)).dispatched

\* No request waits for something that will not happen: the one in front has
\* been dispatched and its timer will run out or is about to, or a callback is
\* queued that will answer it.
ScanQueueMoves ==
  Pending(wifi) # <<>> =>
    \/ /\ Head(Pending(wifi)).dispatched
       /\ \/ wifi.mScanRequestTimeoutHandle \in wifi.timers
          \/ \E i \in 1..Len(queue) : queue[i].type = "timeout"
    \/ \E i \in 1..Len(queue) :
         queue[i].type = "response" /\ ~queue[i].pending

\* If the PAL meets its deadline and the setting stays, every request gets at
\* most one asynchronous result, and one that has left the queue has had it.
ScanAnsweredOnce ==
  faults = {} =>
    \A i \in 1..scans :
      /\ Len(wifi.results[i]) <= 1
      /\ i \notin QueuedIds => Len(wifi.results[i]) = 1

\* The next request is never sent to the PAL before the results of the one
\* before it are in: a scan that the PAL is busy with is the one in front.
ScanInFlightIsFront ==
  faults = {} /\ wifi.pal.phase # "idle" =>
    Pending(wifi) # <<>> /\ Head(Pending(wifi)).id = wifi.pal.id

\* The asynchronous result of a request comes once.  (With a setting that
\* changes, the failure deferred by requestScan answers the wrong request.)
OneResultPerScan == \A i \in Ids : Len(wifi.results[i]) <= 1

NoScanWaits == QueuedIds = {}

\* Every request that was accepted leaves the queue.
EveryScanEnds == []<>NoScanWaits
=============================================================================
