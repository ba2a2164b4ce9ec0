---------------------------- MODULE WifiRanging -----------------------------
(***************************************************************************)
(* RTT ranging (core/wifi_request_manager.cc): a queue of requests, to     *)
(* range against access points or a NAN peer, of which the platform (the   *)
(* PAL) has the first.  A result event that the PAL hands over is released *)
(* by the manager or by the nanoapp that gets it.                          *)
(***************************************************************************)
EXTENDS Integers, Sequences, FiniteSets, FiniteSetsExt

CONSTANTS
  RangingTypes,                \* of those the nanoapps ask for
  kMaxPendingRangingRequests,  \* capacity of mPendingRangingRequests
  MaxRangings,                 \* bound: requests made
  MaxToggles                   \* bound: changes of the settings

Invalid == 0                   \* CHRE_TIMER_INVALID
Ids == 1..MaxRangings          \* a request is known by its cookie

VARIABLES
  ranging,                   \* the state the handlers change, a record:
                             \*   mPendingRangingRequests, the timeout handle (a
                             \*   timer is named by its request), timers to
                             \*   fire, the request the PAL has and the type it
                             \*   was given, events of the PAL not yet released
                             \*   or posted, results posted for each request
  queue,                     \* callbacks deferred to the event loop
  enabled,                   \* areRequiredSettingsEnabled
  faults,                    \* what goes wrong in this behaviour
  asked,                     \* the type each accepted request asked for
  toggles

vars == <<ranging, queue, enabled, faults, asked, toggles>>

Nothing == [id |-> 0, type |-> "none"]

Init ==
  /\ ranging = [mPendingRangingRequests |-> <<>>,
                mRequestRangingTimeoutHandle |-> Invalid,
                timers |-> {},
                pal |-> Nothing,
                events |-> {},
                results |-> [i \in Ids |-> <<>>]]
  /\ queue = <<>>
  /\ enabled = TRUE
  /\ faults \in SUBSET {"answers late", "fails"}
  /\ asked = <<>>
  /\ toggles = 0

-----------------------------------------------------------------------------
(* Steps of the handlers, on the record r.                                 *)

Pending(r) == r.mPendingRangingRequests
PopFront(r) == [r EXCEPT !.mPendingRangingRequests = Tail(@)]

\* postRangingAsyncResult, to the request in front.
PostRangingAsyncResult(r, error) ==
  [r EXCEPT !.results[Head(Pending(r)).id] = Append(@, error)]

\* mPlatformWifi.requestRanging or requestNanRanging, and the timer.
SendToPal(r, id, type) ==
  [r EXCEPT !.pal = [id |-> id, type |-> type],
            !.mRequestRangingTimeoutHandle = id,
            !.timers = @ \cup {id}]

PalTakes(r, refused) == r.pal = Nothing /\ ~refused

RECURSIVE DispatchQueued(_, _)
\* dispatchQueuedRangingRequest, repeated until one is sent or none is left.
\* A queued request goes out with the type its entry has.
DispatchQueued(r, refused) ==
  IF Pending(r) = <<>> THEN r
  ELSE IF enabled /\ PalTakes(r, refused)
  THEN SendToPal(r, Head(Pending(r)).id, Head(Pending(r)).type)
  ELSE DispatchQueued(
         PopFront(PostRangingAsyncResult(
           r, IF enabled THEN "ERROR" ELSE "FUNCTION_DISABLED")), refused)

Refusals == IF "fails" \in faults THEN BOOLEAN ELSE {FALSE}

-----------------------------------------------------------------------------
(* The API, called by a nanoapp in the event loop.                         *)

\* requestRanging.  emplace zero-initialises the entry and nothing stores the
\* type in it, so that an entry has the first type, WIFI_AP.
RequestRanging(type) ==
  /\ Len(asked) < MaxRangings
  /\ Len(Pending(ranging)) < kMaxPendingRangingRequests
  /\ LET id == Len(asked) + 1
         r == [ranging EXCEPT !.mPendingRangingRequests =
                 Append(@, [id |-> id, type |-> "WIFI_AP"])]
     IN  \E refused \in Refusals :
           \/ /\ Len(Pending(r)) = 1 /\ ~enabled
              /\ ranging' = PopFront(
                              PostRangingAsyncResult(r, "FUNCTION_DISABLED"))
           \/ /\ Len(Pending(r)) = 1 /\ enabled /\ PalTakes(r, refused)
              /\ ranging' = SendToPal(r, id, type)
           \/ /\ Len(Pending(r)) > 1
              /\ ranging' = r
  /\ asked' = Append(asked, type)
  /\ UNCHANGED <<queue, enabled, faults, toggles>>

-----------------------------------------------------------------------------
(* The callbacks, run from the head of the loop's queue.                   *)

Callback(type) ==
  /\ queue # <<>>
  /\ Head(queue).type = type
  /\ queue' = Tail(queue)
  /\ UNCHANGED <<enabled, faults, asked, toggles>>

\* handleRangingEventSync: the event answers the request in front.  It is
\* posted to that nanoapp or released; with no request it is neither.
HandleRangingEvent(r, event, refused) ==
  IF Pending(r) = <<>>
  THEN r
  ELSE LET error == IF enabled THEN event.error ELSE "FUNCTION_DISABLED"
       IN  DispatchQueued(PopFront([PostRangingAsyncResult(r, error)
                                      EXCEPT !.events = @ \ {event.id}]),
                          refused)

HandleRangingEventSync ==
  /\ Callback("ranging event")
  /\ \E refused \in Refusals :
       ranging' = HandleRangingEvent(ranging, Head(queue), refused)

\* handleRangingRequestTimeout: pops the request in front, unanswered.
HandleRangingRequestTimeout ==
  /\ Callback("timeout")
  /\ IF Pending(ranging) = <<>>
     THEN UNCHANGED ranging
     ELSE \E refused \in Refusals :
            ranging' = DispatchQueued(PopFront(ranging), refused)

-----------------------------------------------------------------------------
(* The environment.                                                        *)

TimerFires(i) ==
  /\ "answers late" \in faults
  /\ i \in ranging.timers
  /\ ranging' = [ranging EXCEPT !.timers = @ \ {i}]
  /\ queue' = Append(queue, [type |-> "timeout"])
  /\ UNCHANGED <<enabled, faults, asked, toggles>>

\* The PAL answers through handleRangingEvent, which cancels whichever timer
\* the handle names now.  A failure comes without an event to release.
PalAnswers ==
  /\ ranging.pal # Nothing
  /\ \E error \in {"NONE"} \cup {e \in {"ERROR"} : "fails" \in faults} :
       /\ ranging' = [ranging EXCEPT
                        !.pal = Nothing,
                        !.timers = @ \ {ranging.mRequestRangingTimeoutHandle},
                        !.events = IF error = "NONE"
                                   THEN @ \cup {ranging.pal.id} ELSE @]
       /\ queue' = Append(queue, [type |-> "ranging event", error |-> error,
                                  id |-> ranging.pal.id])
  /\ UNCHANGED <<enabled, faults, asked, toggles>>

SettingChanges ==
  /\ toggles < MaxToggles
  /\ toggles' = toggles + 1
  /\ enabled' = ~enabled
  /\ UNCHANGED <<ranging, queue, faults, asked>>

LoopStep == HandleRangingEventSync \/ HandleRangingRequestTimeout

Next ==
  \/ \E type \in RangingTypes : RequestRanging(type)
  \/ LoopStep
  \/ \E i \in Ids : TimerFires(i)
  \/ PalAnswers
  \/ SettingChanges

Spec == Init /\ [][Next]_vars

\* The loop runs its queue, timers fire, and a PAL that is in time answers.
FairStep ==
  \/ LoopStep
  \/ \E i \in Ids : TimerFires(i)
  \/ "answers late" \notin faults /\ PalAnswers

Fairness == WF_vars(FairStep)

FairSpec == Spec /\ Fairness

-----------------------------------------------------------------------------
(* Properties.                                                             *)

QueuedIds == {Pending(ranging)[i].id : i \in 1..Len(Pending(ranging))}

\* Requests wait in the order they were made, none twice.
RangingTypeOK ==
  LET q == Pending(ranging)
  IN  /\ Len(q) <= kMaxPendingRangingRequests
      /\ \A i, j \in 1..Len(q) : i < j => q[i].id < q[j].id
      /\ ranging.timers \subseteq Ids
      /\ ranging.events \subseteq Ids

\* The request that the PAL has is the one in front, and the others wait: its
\* answer can be meant for no other request if it comes in time.
RangingInFlightIsFront ==
  "answers late" \notin faults /\ ranging.pal # Nothing =>
    Pending(ranging) # <<>> /\ Head(Pending(ranging)).id = ranging.pal.id

\* Every accepted request that has left the queue got exactly one result, even
\* if the settings changed under it, provided that the PAL was in time.
RangingAnsweredOnce ==
  \A i \in 1..Len(asked) :
    /\ Len(ranging.results[i]) <= 1
    /\ "answers late" \notin faults /\ i \notin QueuedIds =>
         Len(ranging.results[i]) = 1

\* An event of the PAL is released or passed on once it has been handled,
\* provided that the PAL was in time.
RangingEventReleased ==
  "answers late" \notin faults =>
    \A i \in ranging.events :
      \E k \in 1..Len(queue) :
        queue[k].type = "ranging event" /\ queue[k].id = i

\* No request waits for something that will not happen.
RangingQueueMoves ==
  Pending(ranging) # <<>> =>
    \/ queue # <<>>
    \/ ranging.pal # Nothing
    \/ ranging.mRequestRangingTimeoutHandle \in ranging.timers

\* The PAL is asked for the kind of ranging the nanoapp asked for.  (A request
\* to a NAN peer that had to wait goes out as one to access points.)
RangingSentAsAsked ==
  ranging.pal # Nothing => ranging.pal.type = asked[ranging.pal.id]

NoRangingWaits == QueuedIds = {}

\* Every request leaves the queue.
EveryRangingEnds == []<>NoRangingWaits
=============================================================================
