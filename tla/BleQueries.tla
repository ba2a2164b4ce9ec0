----------------------------- MODULE BleQueries -----------------------------
(***************************************************************************)
(* Flushing batched BLE scan results and reading the RSSI of a connection  *)
(* (core/ble_request_manager.cc): two queues whose front is with the PAL.   *)
(* A flush has a deadline.  Its timer is a system timer (TimerPool): once  *)
(* it has fired it cannot be cancelled, and its callback runs whatever     *)
(* happened meanwhile.  The PAL reports the end of a flush from a thread   *)
(* of its own.                                                             *)
(***************************************************************************)
EXTENDS Integers, Sequences, FiniteSets

CONSTANTS
  Handles,                 \* connection handles
  kMaxFlushRequests,
  kMaxPendingRssiRequests,
  MaxFlushes,              \* bound: flushes asked for
  MaxReads,                \* bound: reads asked for
  MaxToggles               \* bound: changes of the BLE setting

FlushIds == 1..MaxFlushes  \* a request is known by its cookie
ReadIds == 1..MaxReads

VARIABLES
  flush,      \* a record: mFlushRequestQueue, mFlushRequestTimerHandle (the
              \*   flush it was set for, 0 if invalid), what the PAL was asked,
              \*   flushes with a timer in the pool, results
  rssi,       \* a record: mPendingRssiRequests, what the PAL was asked, results
  queue,      \* callbacks deferred to the event loop
  available,  \* Setting::BLE_AVAILABLE
  expired,    \* the deadline of flushes 1..expired has passed
  faults,     \* what happens in this behaviour
  flushes, reads, toggles

vars == <<flush, rssi, queue, available, expired, faults, flushes, reads,
          toggles>>

Init ==
  /\ flush = [mFlushRequestQueue |-> <<>>, mTimerHandle |-> 0, asked |-> <<>>,
              armed |-> {}, results |-> [i \in FlushIds |-> <<>>],
              completed |-> {}]
  /\ rssi = [mPendingRssiRequests |-> <<>>, asked |-> <<>>,
             results |-> [i \in ReadIds |-> <<>>]]
  /\ queue = <<>>
  /\ available = TRUE
  /\ expired = 0
  /\ faults \in SUBSET {"answers late", "fails"}
  /\ flushes = 0
  /\ reads = 0
  /\ toggles = 0

Refusals == IF "fails" \in faults THEN BOOLEAN ELSE {FALSE}

-----------------------------------------------------------------------------
(* Flushes.                                                                *)

\* cancelDelayedCallback for the handle, which becomes invalid.
CancelTimer(f) == [f EXCEPT !.armed = @ \ {f.mTimerHandle}, !.mTimerHandle = 0]

\* sendFlushCompleteEventOrDie for the front, which leaves the queue.
SendFlushComplete(f, error) ==
  [f EXCEPT !.results[Head(f.mFlushRequestQueue).id] = Append(@, error),
            !.mFlushRequestQueue = Tail(@)]

RECURSIVE ProcessFlushRequests(_, _)
\* processFlushRequests and doFlushRequest: up to the first one the PAL takes.
ProcessFlushRequests(f, refused) ==
  IF f.mFlushRequestQueue = <<>> \/ Head(f.mFlushRequestQueue).isActive THEN f
  ELSE LET id == Head(f.mFlushRequestQueue).id
       IN  IF id <= expired
           THEN ProcessFlushRequests(SendFlushComplete(f, "TIMEOUT"), refused)
           ELSE IF refused
           THEN ProcessFlushRequests(
                  SendFlushComplete([f EXCEPT !.mTimerHandle = 0], "ERROR"),
                  refused)
           ELSE [f EXCEPT !.mFlushRequestQueue[1].isActive = TRUE,
                          !.mTimerHandle = id,
                          !.armed = @ \cup {id},
                          !.asked = Append(@, id)]

\* flushAsync, of a nanoapp that scans
FlushAsync ==
  /\ flushes < MaxFlushes
  /\ flushes' = flushes + 1
  /\ Len(flush.mFlushRequestQueue) < kMaxFlushRequests
  /\ \E refused \in Refusals :
       flush' = ProcessFlushRequests(
                  [flush EXCEPT !.mFlushRequestQueue =
                     Append(@, [id |-> flushes + 1, isActive |-> FALSE])],
                  refused)
  /\ UNCHANGED <<rssi, queue, available, expired, faults, reads, toggles>>

\* The part of handleFlushComplete before the answer is deferred.
HandleFlushComplete(f) == IF f.mTimerHandle = 0 THEN f ELSE CancelTimer(f)

\* The PAL has flushed what it was asked first, and calls handleFlushComplete.
PalFlushes ==
  /\ flush.asked # <<>>
  /\ flush' = [HandleFlushComplete(flush)
                 EXCEPT !.asked = Tail(@),
                        !.completed = @ \cup {Head(flush.asked)}]
  /\ queue' = Append(queue, [type |-> "flush complete", error |-> "NONE"])
  /\ UNCHANGED <<rssi, available, expired, faults, flushes, reads, toggles>>

\* The deadline of one more flush passes; the PAL answers before, unless it is
\* late.
DeadlinePasses ==
  /\ expired < flushes
  /\ expired' = expired + 1
  /\ \/ "answers late" \in faults
     \/ \A i \in 1..Len(flush.mFlushRequestQueue) :
          flush.mFlushRequestQueue[i].id # expired + 1
  /\ UNCHANGED <<flush, rssi, queue, available, faults, flushes, reads, toggles>>

\* The timer of a flush fires: its callback is deferred.
TimerFires ==
  \E id \in flush.armed :
    /\ id <= expired
    /\ flush' = [flush EXCEPT !.armed = @ \ {id}]
    /\ queue' = Append(queue, [type |-> "flush timeout"])
    /\ UNCHANGED <<rssi, available, expired, faults, flushes, reads, toggles>>

Callback(type) ==
  /\ queue # <<>>
  /\ Head(queue).type = type
  /\ UNCHANGED <<available, expired, faults, flushes, reads, toggles>>

\* handleFlushCompleteTimeout: the answer is deferred once more.
HandleFlushCompleteTimeout ==
  /\ Callback("flush timeout")
  /\ flush' = [flush EXCEPT !.mTimerHandle = 0]
  /\ queue' = Append(Tail(queue), [type |-> "flush complete",
                                   error |-> "TIMEOUT"])
  /\ UNCHANGED rssi

\* handleFlushCompleteSync
HandleFlushCompleteSync(f, error, refused) ==
  IF f.mFlushRequestQueue = <<>> \/ ~Head(f.mFlushRequestQueue).isActive THEN f
  ELSE ProcessFlushRequests(SendFlushComplete(f, error), refused)

FlushCompletes ==
  /\ Callback("flush complete")
  /\ \E refused \in Refusals :
       flush' = HandleFlushCompleteSync(flush, Head(queue).error, refused)
  /\ queue' = Tail(queue)
  /\ UNCHANGED rssi

-----------------------------------------------------------------------------
(* RSSI.                                                                   *)

\* resolvePendingRssiRequest
ResolvePendingRssiRequest(r, error) ==
  [r EXCEPT !.results[Head(r.mPendingRssiRequests).id] = Append(@, error),
            !.mPendingRssiRequests = Tail(@)]

\* readRssi: what it returns.
ReadRssi(refused) ==
  IF ~available THEN "FUNCTION_DISABLED" ELSE IF refused THEN "ERROR" ELSE "NONE"

RECURSIVE DispatchNextRssiRequestIfAny(_, _)
\* dispatchNextRssiRequestIfAny
DispatchNextRssiRequestIfAny(r, refused) ==
  IF r.mPendingRssiRequests = <<>> THEN r
  ELSE IF ReadRssi(refused) = "NONE"
  THEN [r EXCEPT !.asked = Append(@, Head(r.mPendingRssiRequests).handle)]
  ELSE DispatchNextRssiRequestIfAny(
         ResolvePendingRssiRequest(r, ReadRssi(refused)), refused)

\* readRssiAsync, if it returns true.
ReadRssiAsync(handle, refused) ==
  LET first == rssi.mPendingRssiRequests = <<>>
  IN  /\ Len(rssi.mPendingRssiRequests) < kMaxPendingRssiRequests
      /\ first => ReadRssi(refused) = "NONE"
      /\ rssi' = [rssi EXCEPT !.mPendingRssiRequests =
                                Append(@, [id |-> reads + 1, handle |-> handle]),
                              !.asked = IF first THEN Append(@, handle) ELSE @]

Read(handle) ==
  /\ reads < MaxReads
  /\ reads' = reads + 1
  /\ \E refused \in Refusals : ReadRssiAsync(handle, refused)
  /\ UNCHANGED <<flush, queue, available, expired, faults, flushes, toggles>>

\* The PAL has read the RSSI, and calls handleReadRssi.
PalReads ==
  /\ rssi.asked # <<>>
  /\ rssi' = [rssi EXCEPT !.asked = Tail(@)]
  /\ \E error \in {"NONE"} \cup {e \in {"ERROR"} : "fails" \in faults} :
       queue' = Append(queue, [type |-> "rssi", error |-> error,
                               handle |-> Head(rssi.asked)])
  /\ UNCHANGED <<flush, available, expired, faults, flushes, reads, toggles>>

\* Mutant: the next request waits for another answer.
HandleReadRssiSyncNoDispatch(r, answer, refused) ==
  ResolvePendingRssiRequest(r, answer.error)

\* handleReadRssiSync, which must find the request in front (anything else is
\* fatal: RssiInFlightIsFront).
HandleReadRssiSync(r, answer, refused) ==
  DispatchNextRssiRequestIfAny(ResolvePendingRssiRequest(r, answer.error),
                               refused)

RssiRead ==
  /\ Callback("rssi")
  /\ rssi.mPendingRssiRequests # <<>>
  /\ Head(rssi.mPendingRssiRequests).handle = Head(queue).handle
  /\ \E refused \in Refusals :
       rssi' = HandleReadRssiSync(rssi, Head(queue), refused)
  /\ queue' = Tail(queue)
  /\ UNCHANGED flush

SettingChanges ==
  /\ toggles < MaxToggles
  /\ toggles' = toggles + 1
  /\ available' = ~available
  /\ UNCHANGED <<flush, rssi, queue, expired, faults, flushes, reads>>

LoopStep == HandleFlushCompleteTimeout \/ FlushCompletes \/ RssiRead

Next ==
  \/ FlushAsync
  \/ PalFlushes
  \/ DeadlinePasses
  \/ TimerFires
  \/ \E handle \in Handles : Read(handle)
  \/ PalReads
  \/ LoopStep
  \/ SettingChanges

Spec == Init /\ [][Next]_vars

\* The loop runs its queue, time passes, timers fire, and the PAL reads the RSSI;
\* a flush may be left to its timer.
FairStep ==
  \/ LoopStep \/ TimerFires \/ DeadlinePasses \/ PalReads
  \/ "answers late" \notin faults /\ PalFlushes

Fairness == WF_vars(FairStep)

FairSpec == Spec /\ Fairness

-----------------------------------------------------------------------------
(* Properties.                                                             *)

InQueue(id) == \E i \in 1..Len(flush.mFlushRequestQueue) :
                 flush.mFlushRequestQueue[i].id = id
Reading(id) == \E i \in 1..Len(rssi.mPendingRssiRequests) :
                 rssi.mPendingRssiRequests[i].id = id
Callbacks(type) == {i \in 1..Len(queue) : queue[i].type = type}

\* Only the flush in front is with the PAL, and the queues are within bounds.
BleQueriesTypeOK ==
  /\ Len(flush.mFlushRequestQueue) <= kMaxFlushRequests
  /\ Len(rssi.mPendingRssiRequests) <= kMaxPendingRssiRequests
  /\ \A i \in 1..Len(flush.mFlushRequestQueue) :
       flush.mFlushRequestQueue[i].isActive <=> i = 1

\* As many flush-complete events as flushes, however deadlines, answers of the
\* PAL and callbacks cross.
FlushAnsweredOnce ==
  \A i \in 1..flushes :
    Len(flush.results[i]) = IF InQueue(i) THEN 0 ELSE 1

\* A flush that is with the PAL has a timer, or something that answers it is
\* already on its way.
FlushIsGuarded ==
  flush.mFlushRequestQueue # <<>> =>
    \/ Head(flush.mFlushRequestQueue).id \in flush.armed
    \/ Callbacks("flush complete") \cup Callbacks("flush timeout") # {}

\* If the PAL is in time no flush ends with a timeout, and each with its own
\* answer.
FlushInTime ==
  "answers late" \notin faults =>
    \A i \in 1..flushes :
      ~InQueue(i) =>
        \/ flush.results[i] = <<"NONE">> /\ i \in flush.completed
        \/ flush.results[i] = <<"ERROR">> /\ "fails" \in faults

\* Whatever the PAL does, a flush ends without error only after the PAL has done
\* it, and with a timeout only after its deadline.  (A late answer and a timeout
\* are not told apart from those of the next flush.)
FlushAnswerIsItsOwn ==
  \A i \in 1..flushes :
    /\ flush.results[i] = <<"NONE">> => i \in flush.completed
    /\ flush.results[i] = <<"TIMEOUT">> => i <= expired

\* The answer the PAL owes or has given is for the request in front: the two
\* fatal errors of handleReadRssiSync are not reached.
RssiInFlightIsFront ==
  LET answers == Callbacks("rssi")
      front == Head(rssi.mPendingRssiRequests)
  IN  IF rssi.mPendingRssiRequests = <<>>
      THEN answers = {} /\ rssi.asked = <<>>
      ELSE /\ Cardinality(answers) + Len(rssi.asked) = 1
           /\ \A i \in answers : queue[i].handle = front.handle
           /\ rssi.asked # <<>> => Head(rssi.asked) = front.handle

\* A read that was accepted is answered once, also when the setting is switched
\* off while it waits.
RssiAnsweredOnce ==
  \A i \in 1..reads : Len(rssi.results[i]) = IF Reading(i) THEN 0 ELSE 1

NoFlushWaits == flush.mFlushRequestQueue = <<>>

\* Every flush ends, whatever the PAL does.
EveryFlushEnds == []<>NoFlushWaits

NoRssiReadWaits == rssi.mPendingRssiRequests = <<>>

\* Every read ends.
EveryRssiReadEnds == []<>NoRssiReadWaits
=============================================================================
