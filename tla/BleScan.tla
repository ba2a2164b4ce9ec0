------------------------------ MODULE BleScan -------------------------------
(***************************************************************************)
(* BLE scans (core/ble_request_manager.cc, ble_request_multiplexer.cc,     *)
(* ble_request.cc, request_multiplexer_impl.h).  Every nanoapp has at most *)
(* one request; the platform is asked for the maximal one of all requests, *)
(* one asynchronous request at a time.  Of a request's parameters only the *)
(* report delay is kept: mode, threshold and filters merge in the same way. *)
(***************************************************************************)
EXTENDS Integers, Sequences, FiniteSets

CONSTANTS
  Nanoapps,
  Delays,                \* report delays a nanoapp may ask for
  FaultSets,             \* what may happen besides requests
  MaxScanConfigures,     \* bound: requests made, by API or unload
  MaxToggles,            \* bound: changes of the BLE setting
  MaxResyncs             \* bound: resets of the PAL

Ids == 1..MaxScanConfigures    \* a request is known by its cookie
Off == [enabled |-> FALSE, delay |-> 0]

VARIABLES
  ble,        \* the manager, a record: mRequests, mPendingPlatformRequest,
              \*   mActivePlatformRequest, mPlatformRequestInProgress,
              \*   mResyncPending, mSettingChangePending, mLastScanStatus, what
              \*   the PAL was asked, nanoapps registered for advertisements,
              \*   what came of the requests (a result posted, or FALSE when
              \*   the call was turned down), and (history) which requests were
              \*   to stop a scan the nanoapp did not have
  pal,        \* the scan the PAL does
  queue,      \* callbacks deferred to the event loop
  available,  \* Setting::BLE_AVAILABLE
  loaded,     \* nanoapps in mNanoapps
  faults,     \* what happens in this behaviour
  configures, toggles, resyncs

vars == <<ble, pal, queue, available, loaded, faults, configures, toggles,
          resyncs>>

Init ==
  /\ ble = [mRequests |-> <<>>, mPending |-> Off, mActive |-> Off,
            mPlatformRequestInProgress |-> FALSE, mResyncPending |-> FALSE,
            mSettingChangePending |-> FALSE, mLastScanStatus |-> Off,
            asked |-> <<>>, registered |-> {},
            results |-> [i \in Ids |-> <<>>], idle |-> {}]
  /\ pal = Off
  /\ queue = <<>>
  /\ available = TRUE
  /\ loaded = Nanoapps
  /\ faults \in FaultSets
  /\ configures = 0
  /\ toggles = 0
  /\ resyncs = 0

-----------------------------------------------------------------------------
(* The multiplexer.                                                        *)

\* mergeWith, over all requests: the least delay of the enabled ones.
Maximal(requests) ==
  LET delays == {requests[i].delay :
                   i \in {j \in 1..Len(requests) : requests[j].enabled}}
  IN  IF delays = {} THEN Off
      ELSE [enabled |-> TRUE,
            delay |-> CHOOSE d \in delays : \A e \in delays : d <= e]

\* isEquivalentTo: requests that are disabled are never equivalent.
IsEquivalentTo(r1, r2) == r1.enabled /\ r1 = r2

\* findRequest: the index of the nanoapp's request, or none.
FindRequest(requests, app) ==
  {i \in 1..Len(requests) : requests[i].app = app}

RemoveRequest(requests, i) ==
  SubSeq(requests, 1, i - 1) \o SubSeq(requests, i + 1, Len(requests))

WithoutStatus(requests, status) ==
  LET keep(r) == r.status # status IN SelectSeq(requests, keep)

RemoveDisabledRequests(requests) ==
  LET keep(r) == r.enabled \/ r.status # "APPLIED" IN SelectSeq(requests, keep)

HasRequests(requests, status) ==
  \E i \in 1..Len(requests) : requests[i].status = status

-----------------------------------------------------------------------------
(* Steps of the handlers, on the record b.                                 *)

\* handleAsyncResult and handleNanoappEventRegistration
HandleAsyncResult(b, r, success, error, forceUnregister) ==
  [b EXCEPT !.results[r.id] = Append(@, error),
            !.registered = IF r.app \notin loaded THEN @
                           ELSE IF success /\ r.enabled THEN @ \cup {r.app}
                           ELSE IF ~r.enabled \/ forceUnregister
                           THEN @ \ {r.app} ELSE @]

RECURSIVE HandleAsyncResults(_, _, _, _)
\* handleAsyncResult for all requests of a list.
HandleAsyncResults(b, requests, success, error) ==
  IF requests = <<>> THEN b
  ELSE HandleAsyncResults(HandleAsyncResult(b, Head(requests), success, error,
                                            FALSE),
                          Tail(requests), success, error)

InStatus(requests, status) ==
  LET is(r) == r.status = status IN SelectSeq(requests, is)

SetStatus(requests, from, to) ==
  [i \in 1..Len(requests) |->
     IF requests[i].status = from THEN [requests[i] EXCEPT !.status = to]
     ELSE requests[i]]

\* controlPlatform, accepted by the PAL; setting is BLE_AVAILABLE.
ControlPlatform(b, setting) ==
  LET wanted == IF setting THEN Maximal(b.mRequests) ELSE Off
  IN  [b EXCEPT !.mPending = wanted,
                !.asked = Append(@, wanted),
                !.mRequests = SetStatus(@, "PENDING_REQ", "PENDING_RESP"),
                !.mPlatformRequestInProgress = TRUE]

\* updatePlatformRequest, which the PAL must not refuse (it is fatal).
UpdatePlatformRequest(b, setting, forceUpdate) ==
  LET desired == setting /\ Maximal(b.mRequests).enabled
  IN  IF forceUpdate \/ desired # b.mActive.enabled
      THEN ControlPlatform(b, setting) ELSE b

\* dispatchPendingRequests
DispatchPendingRequests(b, refused) ==
  LET failed(error) ==
        [HandleAsyncResults(b, InStatus(b.mRequests, "PENDING_REQ"), FALSE,
                            error)
           EXCEPT !.mRequests = WithoutStatus(@, "PENDING_REQ")]
  IN  IF ~available /\ Maximal(b.mRequests).enabled
      THEN failed("FUNCTION_DISABLED")
      ELSE IF refused THEN failed("ERROR")
      ELSE ControlPlatform(b, available)

\* postScanStatusChangeEventIfNeeded
PostScanStatusChangeEventIfNeeded(b, setting) ==
  [b EXCEPT !.mLastScanStatus = IF setting THEN Maximal(b.mRequests) ELSE Off]

Refusals == IF "fails" \in faults THEN BOOLEAN ELSE {FALSE}

-----------------------------------------------------------------------------
(* The API and unloading, in the event loop.                               *)

\* Mutant: a request that is still pending is replaced without an answer.
HandleExistingRequestSilent(b, app) == b

\* handleExistingRequest
HandleExistingRequest(b, app) ==
  LET existing == {b.mRequests[i] : i \in FindRequest(b.mRequests, app)}
  IN  IF \E r \in existing : r.status # "APPLIED"
      THEN HandleAsyncResult(b, CHOOSE r \in existing : TRUE, FALSE,
                             "OBSOLETE_REQUEST", TRUE)
      ELSE b

\* The part of configure after the request has been stored at place i; changed
\* says whether the maximal request is another one.
Apply(b, request, i, changed, refused) ==
  IF b.mPlatformRequestInProgress THEN b
  ELSE IF ~changed
  THEN [HandleAsyncResult(b, request, TRUE, "NONE", FALSE)
          EXCEPT !.mRequests = IF i \in DOMAIN @
                               THEN [@ EXCEPT ![i].status = "APPLIED"] ELSE @]
  ELSE IF refused
  THEN [b EXCEPT !.mRequests = RemoveRequest(@, i),
                 !.registered = @ \ {request.app},
                 !.results[request.id] = Append(@, "FALSE")]
  ELSE ControlPlatform(b, available)

\* configure
Configure(b, request, refused) ==
  LET told == HandleExistingRequest(b, request.app)
      existing == FindRequest(b.mRequests, request.app)
      i == CHOOSE j \in existing : TRUE
      before == Maximal(b.mRequests)
  IN  IF request.enabled /\ ~available
      THEN [HandleAsyncResult(told, request, FALSE, "FUNCTION_DISABLED", FALSE)
              EXCEPT !.mRequests = IF existing = {} THEN @
                                   ELSE RemoveRequest(@, i)]
      ELSE IF existing # {}
      THEN LET updated == [told EXCEPT !.mRequests[i] = request]
           IN  Apply(updated, request, i,
                     ~IsEquivalentTo(before, Maximal(updated.mRequests)),
                     refused)
      ELSE IF request.enabled
      THEN LET added == [told EXCEPT !.mRequests = Append(@, request)]
           IN  Apply(added, request, Len(added.mRequests),
                     before # Maximal(added.mRequests), refused)
      ELSE Apply([told EXCEPT !.idle = @ \cup {request.id}], request, 0, FALSE,
                 refused)

\* startScanAsync and stopScanAsync
ScanAsync(app, enabled, delay) ==
  /\ app \in loaded
  /\ configures < MaxScanConfigures
  /\ configures' = configures + 1
  /\ \E refused \in Refusals :
       ble' = Configure(ble, [app |-> app, enabled |-> enabled, delay |-> delay,
                              status |-> "PENDING_REQ", id |-> configures + 1],
                        refused)
  /\ UNCHANGED <<pal, queue, available, loaded, faults, toggles, resyncs>>

\* disableActiveScan
DisableActiveScan(app) ==
  IF \E i \in FindRequest(ble.mRequests, app) : ble.mRequests[i].enabled
  THEN /\ configures' = configures + 1
       /\ \E refused \in Refusals :
            ble' = Configure(ble, [app |-> app, enabled |-> FALSE, delay |-> 0,
                                   status |-> "PENDING_REQ",
                                   id |-> configures + 1], refused)
  ELSE UNCHANGED <<ble, configures>>

\* Unloading: disableActiveScan, then the nanoapp leaves the loop.
Unload(app) ==
  /\ "unloads" \in faults
  /\ app \in loaded
  /\ configures < MaxScanConfigures
  /\ loaded' = loaded \ {app}
  /\ DisableActiveScan(app)
  /\ UNCHANGED <<pal, queue, available, faults, toggles, resyncs>>

-----------------------------------------------------------------------------
(* The callbacks, run from the head of the loop's queue.                   *)

Callback(type) ==
  /\ queue # <<>>
  /\ Head(queue).type = type
  /\ queue' = Tail(queue)
  /\ UNCHANGED <<pal, available, loaded, faults, configures, toggles, resyncs>>

\* The part of handlePlatformChangeSync after the answers were given: requests
\* made meanwhile, then a resync, then a change of the setting.
Settle(b, success, refused) ==
  LET sent == IF HasRequests(b.mRequests, "PENDING_REQ")
              THEN DispatchPendingRequests(b, refused)
              ELSE IF ~success /\ b.mResyncPending
              THEN UpdatePlatformRequest(b, available, TRUE)
              ELSE b
  IN  IF ~sent.mPlatformRequestInProgress /\ sent.mSettingChangePending
      THEN UpdatePlatformRequest(sent, available, FALSE)
      ELSE sent

\* handlePlatformChangeSync
HandlePlatformChange(b, answer, refused) ==
  LET success == answer.error = "NONE" /\ (b.mPending.enabled \/ ~answer.enabled)
      error == IF success THEN "NONE" ELSE "ERROR"
      answered ==
        [HandleAsyncResults(b, InStatus(b.mRequests, "PENDING_RESP"), success,
                            error)
           EXCEPT !.mPlatformRequestInProgress = FALSE]
      kept == IF success
              THEN [answered EXCEPT
                      !.mRequests = RemoveDisabledRequests(
                                      SetStatus(@, "PENDING_RESP", "APPLIED")),
                      !.mActive = b.mPending]
              ELSE [answered EXCEPT
                      !.mRequests = WithoutStatus(@, "PENDING_RESP")]
  IN  PostScanStatusChangeEventIfNeeded(
        [Settle(kept, success, refused) EXCEPT !.mResyncPending = FALSE,
                                               !.mSettingChangePending = FALSE],
        available)

HandlePlatformChangeSync ==
  /\ Callback("platform change")
  /\ \E refused \in Refusals :
       ble' = HandlePlatformChange(ble, Head(queue), refused)

\* handleRequestStateResyncCallbackSync
HandleRequestStateResyncCallbackSync ==
  /\ Callback("resync")
  /\ ble' = IF ble.mPlatformRequestInProgress
            THEN [ble EXCEPT !.mResyncPending = TRUE]
            ELSE UpdatePlatformRequest(ble, available, TRUE)

\* onSettingChanged
OnSettingChanged(setting) ==
  PostScanStatusChangeEventIfNeeded(
    IF ble.mPlatformRequestInProgress
    THEN [ble EXCEPT !.mSettingChangePending = TRUE]
    ELSE UpdatePlatformRequest(ble, setting, FALSE),
    setting)

SettingChanges ==
  /\ "setting changes" \in faults
  /\ toggles < MaxToggles
  /\ toggles' = toggles + 1
  /\ available' = ~available
  /\ ble' = OnSettingChanged(~available)
  /\ UNCHANGED <<pal, queue, loaded, faults, configures, resyncs>>

-----------------------------------------------------------------------------
(* The environment.                                                        *)

\* The PAL carries out what it was asked first and reports it (scanStatusChange-
\* Callback); only a request to start may fail.
PalAnswers ==
  /\ ble.asked # <<>>
  /\ ble' = [ble EXCEPT !.asked = Tail(@)]
  /\ \E error \in {"NONE"} \cup {e \in {"ERROR"} : "fails" \in faults
                                                    /\ Head(ble.asked).enabled} :
       /\ pal' = IF error = "NONE" THEN Head(ble.asked) ELSE pal
       /\ queue' = Append(queue, [type |-> "platform change", error |-> error,
                                  enabled |-> pal'.enabled])
  /\ UNCHANGED <<available, loaded, faults, configures, toggles, resyncs>>

\* The PAL loses its state, recovers, and asks for it; what it was asked and has
\* not answered it still answers.
PalResets ==
  /\ "resets" \in faults
  /\ resyncs < MaxResyncs
  /\ resyncs' = resyncs + 1
  /\ pal' = Off
  /\ queue' = Append(queue, [type |-> "resync"])
  /\ UNCHANGED <<ble, available, loaded, faults, configures, toggles>>

LoopStep == HandlePlatformChangeSync \/ HandleRequestStateResyncCallbackSync

Next ==
  \/ \E app \in Nanoapps, delay \in Delays : ScanAsync(app, TRUE, delay)
  \/ \E app \in Nanoapps : ScanAsync(app, FALSE, 0)
  \/ \E app \in Nanoapps : Unload(app)
  \/ LoopStep
  \/ SettingChanges
  \/ PalAnswers
  \/ PalResets

Spec == Init /\ [][Next]_vars

\* The loop runs its queue and the PAL answers.
FairStep == LoopStep \/ PalAnswers

Fairness == WF_vars(FairStep)

FairSpec == Spec /\ Fairness

-----------------------------------------------------------------------------
(* Properties.                                                             *)

Waiting == {ble.mRequests[i].id :
              i \in {j \in 1..Len(ble.mRequests) :
                       ble.mRequests[j].status # "APPLIED"}}
Quiet ==
  queue = <<>> /\ ble.asked = <<>> /\ ~ble.mPlatformRequestInProgress

\* A nanoapp has at most one request, and one request is with the PAL or
\* answered in the queue exactly while one is in progress.
BleTypeOK ==
  /\ \A i, j \in 1..Len(ble.mRequests) :
       ble.mRequests[i].app = ble.mRequests[j].app => i = j
  /\ Len(ble.asked)
       + Cardinality({i \in 1..Len(queue) : queue[i].type = "platform change"})
     = IF ble.mPlatformRequestInProgress THEN 1 ELSE 0

\* Every request is answered once, by a false return of the call or by one result:
\* a request that is replaced is told so, and none that waits has been answered.
\* Left out is a request to stop a scan the nanoapp does not have, for which see
\* BleIdleStopAnswered.
BleAnsweredOnce ==
  \A i \in 1..configures :
    /\ Len(ble.results[i]) <= 1
    /\ i \in Waiting => Len(ble.results[i]) = 0
    /\ i \notin Waiting \cup ble.idle => Len(ble.results[i]) = 1

\* A request to stop a scan that the nanoapp does not have is answered.  (It is
\* not while the platform works on a request of another nanoapp.)
BleIdleStopAnswered == Quiet => \A i \in ble.idle : Len(ble.results[i]) = 1

\* A request waits only while the platform works on one.
BleNoneForgotten == Waiting # {} => ble.mPlatformRequestInProgress

\* When nothing is in flight every request is served, and the PAL scans only for
\* a request the setting allows, whatever was in progress when the setting
\* changed, a nanoapp was unloaded or the PAL was reset.  Two exceptions, of a PAL
\* that fails: a request whose change of a running scan it turned down is dropped
\* and the scan is not stopped; and the scan it failed to resume after its reset
\* is not asked for again.
BleScanServesRequests ==
  Quiet =>
    /\ (available /\ Maximal(ble.mRequests).enabled
          /\ ("fails" \notin faults \/ resyncs = 0)) =>
         pal.enabled /\ pal.delay <= Maximal(ble.mRequests).delay
    /\ (pal.enabled /\ "fails" \notin faults) =>
         available /\ Maximal(ble.mRequests).enabled

\* Nothing scans for a nanoapp that is gone, and the platform is off when all
\* are gone.
BleForgetsUnloaded ==
  /\ \A i \in 1..Len(ble.mRequests) :
       ble.mRequests[i].enabled => ble.mRequests[i].app \in loaded
  /\ Quiet /\ loaded = {} /\ "fails" \notin faults => ~pal.enabled

\* A nanoapp whose scan is running is registered for advertisements.
BleScannersRegistered ==
  \A i \in 1..Len(ble.mRequests) :
    ble.mRequests[i].enabled /\ ble.mRequests[i].status = "APPLIED" =>
      ble.mRequests[i].app \in ble.registered

\* Only a nanoapp with a request is registered for advertisements.  (A request
\* that replaces a running scan and is turned down leaves it registered.)
BleOnlyScannersRegistered ==
  Quiet => ble.registered \cap loaded
             \subseteq {ble.mRequests[i].app : i \in 1..Len(ble.mRequests)}

\* When nothing is in flight the last scan status sent to nanoapps is the one
\* getScanStatus gives.
BleStatusAnnounced ==
  "fails" \notin faults /\ Quiet =>
    ble.mLastScanStatus = IF available THEN Maximal(ble.mRequests) ELSE Off

NoBleScanRequestWaits == Waiting = {}

\* Every request ends with an answer.
EveryBleScanRequestEnds == []<>NoBleScanRequestWaits
=============================================================================
