----------------------------- MODULE MCServices -----------------------------
(***************************************************************************)
(* The components of the runtime that have small state spaces of their     *)
(* own, checked in one run.  A behaviour is one of the component `part',   *)
(* whose variables lie in the slots s1, s2, ...; the other slots keep 0.   *)
(* The components share nothing here but the slots.                        *)
(***************************************************************************)
EXTENDS Integers, Sequences, FiniteSets, TLC

\* Two interchangeable nanoapps or hubs, two interchangeable messages, handles,
\* sensors or threads, and a nanoapp of its own kind.
CONSTANTS App1, App2, App3, Item1, Item2, System

NanFaults ==
  {{"engine fails", "unloads"},
   {"unloads", "engine restarts", "setting changes"}}
GnssFaults ==
  {{"setting changes", "resets", "unloads"},
   {"setting changes", "unloads", "fails"}}
BleFaults ==
  {{"setting changes", "resets", "unloads"},
   {"setting changes", "resets", "unloads", "fails"}}

\* Requests for a sensor, 99 being the default interval or latency.
SensorOptions ==
  {[mode |-> 4, interval |-> 2, latency |-> 3],
   [mode |-> 4, interval |-> 1, latency |-> 6],
   [mode |-> 2, interval |-> 99, latency |-> 0],
   [mode |-> 2, interval |-> 1, latency |-> 99]}

\* Processes of three clients of the HAL, which has two client IDs for them.
Vendor == <<"vendor", 1>>
Server == <<"system server", 1>>
Tool == <<"tool", 1>>
HalClientNames == {"vendor", "system server", "tool"}
HalEndpoints ==
  [c \in HalClientNames |-> IF c = "system server" THEN {7} ELSE {1}]
HalFaults == {{"dies"}, {"slow", "send fails"}, {"chre restarts"}}
HalIdFaults == {{"hal restarts"}, {"chre restarts"}, {"dies"}}

VARIABLES part, s1, s2, s3, s4, s5, s6, s7, s8, s9, s10, s11, s12, s13, s14

vars == <<part, s1, s2, s3, s4, s5, s6, s7, s8, s9, s10, s11, s12, s13, s14>>

Heap == INSTANCE TimerHeap WITH
  Owners <- {System, App3}, Times <- {1, 2, 3}, MaxSize <- 6, mData <- s1,
  unloaded <- s2

ToHost == INSTANCE ReliableToHost WITH
  Nanoapps <- {App1, App2}, kMaxOutstandingMessages <- 2, kMaxAttempts <- 2,
  kTimeout <- 1, FreeCallbacks <- {TRUE}, RecursiveMutex <- TRUE,
  ResendOnFailure <- FALSE, MaxMessages <- 2, hcm <- s1, queue <- s2,
  scan <- s3, loaded <- s4, stopping <- s5, host <- s6

FromHost == INSTANCE ReliableFromHost WITH
  Messages <- {Item1, Item2}, AppOf <- [x \in {Item1, Item2} |-> App3],
  kMaxOutstandingMessages <- 2, kDuplicateTimeout <- 2,
  MemoryRunsOut <- TRUE, MaxCopies <- 2, MaxReloads <- 2, records <- s1,
  queue <- s2, loaded <- s3, reloads <- s4, copies <- s5, statuses <- s6,
  delivered <- s7, since <- s8

Scan == INSTANCE WifiScan WITH
  Nanoapps <- {App1, App2}, kMaxPendingScanRequest <- 2, Totals <- {0, 2},
  MaxScans <- 2, MaxToggles <- 2, MaxMonitorEvents <- 0, wifi <- s1,
  queue <- s2, available <- s3, faults <- s4, scans <- s5, toggles <- s6,
  monitorEvents <- s7

Monitor == INSTANCE WifiScanMonitor WITH
  Nanoapps <- {App1, App2}, kMaxScanMonitorStateTransitions <- 2,
  MaxConfigures <- 3, monitor <- s1, palOn <- s2, queue <- s3, loaded <- s4,
  faults <- s5, configures <- s6

Ranging == INSTANCE WifiRanging WITH
  RangingTypes <- {"WIFI_AP", "WIFI_AWARE"},
  kMaxPendingRangingRequests <- 2, MaxRangings <- 3, MaxToggles <- 1,
  ranging <- s1, queue <- s2, enabled <- s3, faults <- s4, asked <- s5,
  toggles <- s6

Nan == INSTANCE WifiNan WITH
  Nanoapps <- {App1, App2}, kMaxPendingNanSubscriptionRequests <- 2,
  FaultSets <- NanFaults, MaxSubscribes <- 2, MaxNotices <- 1,
  MaxToggles <- 1, nan <- s1, engine <- s2, host <- s3, queue <- s4,
  settings <- s5, loaded <- s6, faults <- s7, subscribes <- s8,
  notices <- s9, toggles <- s10

Cell == INSTANCE WwanRequests WITH
  Nanoapps <- {App1, App2}, MaxCellRequests <- 3, cell <- s1, queue <- s2,
  told <- s3, owner <- s4, loaded <- s5, requests <- s6

Gnss == INSTANCE GnssManager WITH
  Nanoapps <- {App1, App2}, Intervals <- {1, 2}, FaultSets <- GnssFaults,
  kMaxGnssStateTransitions <- 2, MaxConfigures <- 3, MaxToggles <- 1,
  MaxResyncs <- 1, session <- s1, passive <- s2, pal <- s3, queue <- s4,
  location <- s5, loaded <- s6, faults <- s7, configures <- s8,
  toggles <- s9, resyncs <- s10

Ble == INSTANCE BleScan WITH
  Nanoapps <- {App1, App2}, Delays <- {1, 2}, FaultSets <- BleFaults,
  MaxScanConfigures <- 3, MaxToggles <- 1, MaxResyncs <- 1, ble <- s1,
  pal <- s2, queue <- s3, available <- s4, loaded <- s5, faults <- s6,
  configures <- s7, toggles <- s8, resyncs <- s9

Queries == INSTANCE BleQueries WITH
  Handles <- {Item1, Item2}, kMaxFlushRequests <- 2,
  kMaxPendingRssiRequests <- 2, MaxFlushes <- 3, MaxReads <- 2,
  MaxToggles <- 1, flush <- s1, rssi <- s2, queue <- s3, available <- s4,
  expired <- s5, faults <- s6, flushes <- s7, reads <- s8, toggles <- s9

Audio == INSTANCE AudioRequests WITH
  Nanoapps <- {App1, App2}, Configurations <- {Item1, Item2},
  MaxAudioConfigures <- 3, MaxToggles <- 2, MaxAvailability <- 2,
  MaxEvents <- 2, source <- s1, events <- s2, refCount <- s3,
  delivered <- s4, queue <- s5, microphone <- s6, configures <- s7,
  toggles <- s8, changes <- s9

Sensor == INSTANCE SensorRequests WITH
  Nanoapps <- {App1, App2}, Options <- SensorOptions,
  MaxSensorRequests <- 3, MaxSensorEvents <- 2, sensor <- s1,
  platform <- s2, queue <- s3, given <- s4, history <- s5, calls <- s6,
  events <- s7

Flush == INSTANCE SensorFlush WITH
  Nanoapps <- {App1, App2}, Sensors <- {Item1, Item2},
  kMaxFlushRequests <- 2, MaxSensorFlushes <- 3, MaxSensorSwitches <- 2,
  sensors <- s1, requests <- s2, platform <- s3, thread <- s4, timers <- s5,
  queue <- s6, answers <- s7, faults <- s8, accepted <- s9, passed <- s10,
  switches <- s11

OneShot == INSTANCE SensorOneShot WITH
  Nanoapps <- {App1, App2}, MaxOneShotRequests <- 4, MaxOneShotEvents <- 3,
  requests <- s1, registered <- s2, armed <- s3, queue <- s4, refs <- s5,
  released <- s6, got <- s7, loaded <- s8, asked <- s9, fired <- s10

Router == INSTANCE MessageRouter WITH
  Hubs <- {App1, App2}, Threads <- {Item1, Item2}, kMaxMessageHubs <- 2,
  kMaxSessions <- 2, kReservedSessionId <- 2, kMaxIterations <- 1,
  MaxCalls <- 4, MaxOpens <- 3, hubs <- s1, sessions <- s2, next <- s3,
  opening <- s4, sending <- s5, todo <- s6, heard <- s7, made <- s8,
  left <- s9, calls <- s10

Spsc == INSTANCE AtomicSpscQueue WITH
  kCapacity <- 2, UINT32_MAX <- 7, Cycle <- 5, Destroyed <- -1, mHead <- s1,
  mTail <- s2, mData <- s3, next <- s4, producer <- s5, consumer <- s6,
  taken <- s7

Flow == INSTANCE DataFlowQueue WITH
  kBlockCapacity <- 2, MinBlocks <- 2, MaxBlocks <- 2, Consumers <- {App3},
  Overwritables <- {TRUE, FALSE}, Features <- {"reserve"}, Counts <- {2},
  MaxWrites <- 6, NoBlock <- 0, blocks <- s1, queue <- s2, producer <- s3,
  consumer <- s4, fatal <- s5

GrowingFlow == INSTANCE DataFlowQueue WITH
  kBlockCapacity <- 2, MinBlocks <- 2, MaxBlocks <- 3, Consumers <- {App3},
  Overwritables <- {FALSE},
  Features <- {"memory runs out", "stop", "leave"}, Counts <- {1},
  MaxWrites <- 10, NoBlock <- 0, blocks <- s1, queue <- s2, producer <- s3,
  consumer <- s4, fatal <- s5

Chpp == INSTANCE ChppApp WITH
  CHPP_REQUEST_TIMEOUT_DEFAULT <- 1, CHPP_TIME_MAX <- 100,
  CHPP_TX_DATAGRAM_QUEUE_LEN <- 2, MaxRequests <- 3, MaxResets <- 1,
  client <- s1, call <- s2, link <- s3, service <- s4, resets <- s5

Hal == INSTANCE HalClients WITH
  Processes <- {Vendor, Server}, SystemServer <- "system server",
  kMaxHalClientId <- 3, kNumOfBitsForEndpointId <- 1,
  kVendorEndpointIdBitMask <- 8,
  EndpointsOf <- [c \in HalClientNames |-> {}], Fragments <- {2},
  FaultSets <- HalFaults, MaxTransactions <- 2, alive <- s1, mClients <- s2,
  mNextClientId <- s3, file <- s4, load <- s5, unload <- s6,
  mIsChreReady <- s7, calls <- s8, deaths <- s9, response <- s10,
  chre <- s11, txns <- s12, torn <- s13, faults <- s14

HalIds == INSTANCE HalClients WITH
  Processes <- {Vendor, Server, Tool}, SystemServer <- "system server",
  kMaxHalClientId <- 3, kNumOfBitsForEndpointId <- 1,
  kVendorEndpointIdBitMask <- 8, EndpointsOf <- HalEndpoints,
  Fragments <- {1}, FaultSets <- HalIdFaults, MaxTransactions <- 0,
  alive <- s1, mClients <- s2, mNextClientId <- s3, file <- s4, load <- s5,
  unload <- s6, mIsChreReady <- s7, calls <- s8, deaths <- s9,
  response <- s10, chre <- s11, txns <- s12, torn <- s13, faults <- s14

-----------------------------------------------------------------------------
\* The slots a component leaves unused.
Blank14 == s14 = 0
Blank13 == s13 = 0 /\ Blank14
Blank12 == s12 = 0 /\ Blank13
Blank11 == s11 = 0 /\ Blank12
Blank10 == s10 = 0 /\ Blank11
Blank9 == s9 = 0 /\ Blank10
Blank8 == s8 = 0 /\ Blank9
Blank7 == s7 = 0 /\ Blank8
Blank6 == s6 = 0 /\ Blank7
Blank5 == s5 = 0 /\ Blank6
Blank4 == s4 = 0 /\ Blank5
Blank3 == s3 = 0 /\ Blank4

Keep14 == UNCHANGED s14
Keep13 == UNCHANGED s13 /\ Keep14
Keep12 == UNCHANGED s12 /\ Keep13
Keep11 == UNCHANGED s11 /\ Keep12
Keep10 == UNCHANGED s10 /\ Keep11
Keep9 == UNCHANGED s9 /\ Keep10
Keep8 == UNCHANGED s8 /\ Keep9
Keep7 == UNCHANGED s7 /\ Keep8
Keep6 == UNCHANGED s6 /\ Keep7
Keep5 == UNCHANGED s5 /\ Keep6
Keep4 == UNCHANGED s4 /\ Keep5
Keep3 == UNCHANGED s3 /\ Keep4

Init ==
  \/ part = "heap" /\ Heap!Init /\ Blank3
  \/ part = "to host" /\ ToHost!Init /\ Blank7
  \/ part = "from host" /\ FromHost!Init /\ Blank9
  \/ part = "scan" /\ Scan!Init /\ Blank8
  \/ part = "monitor" /\ Monitor!Init /\ Blank7
  \/ part = "ranging" /\ Ranging!Init /\ Blank7
  \/ part = "nan" /\ Nan!Init /\ Blank11
  \/ part = "cell" /\ Cell!Init /\ Blank7
  \/ part = "gnss" /\ Gnss!Init /\ Blank11
  \/ part = "ble" /\ Ble!Init /\ Blank10
  \/ part = "ble queries" /\ Queries!Init /\ Blank10
  \/ part = "audio" /\ Audio!Init /\ Blank10
  \/ part = "sensor" /\ Sensor!Init /\ Blank8
  \/ part = "sensor flush" /\ Flush!Init /\ Blank12
  \/ part = "one shot" /\ OneShot!Init /\ Blank11
  \/ part = "router" /\ Router!Init /\ Blank11
  \/ part = "spsc" /\ Spsc!Init /\ Blank8
  \/ part = "flow" /\ Flow!Init /\ Blank6
  \/ part = "growing flow" /\ GrowingFlow!Init /\ Blank6
  \/ part = "chpp" /\ Chpp!Init /\ Blank6
  \/ part = "hal" /\ Hal!Init
  \/ part = "hal ids" /\ HalIds!Init

Next ==
  /\ UNCHANGED part
  /\ \/ part = "heap" /\ Heap!Next /\ Keep3
     \/ part = "to host" /\ ToHost!Next /\ Keep7
     \/ part = "from host" /\ FromHost!Next /\ Keep9
     \/ part = "scan" /\ Scan!Next /\ Keep8
     \/ part = "monitor" /\ Monitor!Next /\ Keep7
     \/ part = "ranging" /\ Ranging!Next /\ Keep7
     \/ part = "nan" /\ Nan!Next /\ Keep11
     \/ part = "cell" /\ Cell!Next /\ Keep7
     \/ part = "gnss" /\ Gnss!Next /\ Keep11
     \/ part = "ble" /\ Ble!Next /\ Keep10
     \/ part = "ble queries" /\ Queries!Next /\ Keep10
     \/ part = "audio" /\ Audio!Next /\ Keep10
     \/ part = "sensor" /\ Sensor!Next /\ Keep8
     \/ part = "sensor flush" /\ Flush!Next /\ Keep12
     \/ part = "one shot" /\ OneShot!Next /\ Keep11
     \/ part = "router" /\ Router!Next /\ Keep11
     \/ part = "spsc" /\ Spsc!Next /\ Keep8
     \/ part = "flow" /\ Flow!Next /\ Keep6
     \/ part = "growing flow" /\ GrowingFlow!Next /\ Keep6
     \/ part = "chpp" /\ Chpp!Next /\ Keep6
     \/ part = "hal" /\ Hal!Next
     \/ part = "hal ids" /\ HalIds!Next

Spec == Init /\ [][Next]_vars

-----------------------------------------------------------------------------
\* The state of the component that runs is well-formed, the order of the timer
\* heap included.
TypesOK ==
  /\ part = "heap" => Heap!IsHeap
  /\ part = "to host" => ToHost!ToHostTypeOK
  /\ part = "from host" => FromHost!FromHostTypeOK
  /\ part = "scan" => Scan!ScanTypeOK
  /\ part = "monitor" => Monitor!MonitorTypeOK
  /\ part = "ranging" => Ranging!RangingTypeOK
  /\ part = "nan" => Nan!NanTypeOK
  /\ part = "cell" => Cell!CellTypeOK
  /\ part = "gnss" => Gnss!GnssTypeOK
  /\ part = "ble" => Ble!BleTypeOK
  /\ part = "ble queries" => Queries!BleQueriesTypeOK
  /\ part = "audio" => Audio!AudioTypeOK
  /\ part = "sensor" => Sensor!SensorTypeOK
  /\ part = "sensor flush" => Flush!SensorFlushTypeOK
  /\ part = "one shot" => OneShot!OneShotTypeOK
  /\ part = "router" => Router!RouterTypeOK
  /\ part = "spsc" => Spsc!SpscTypeOK
  /\ part = "flow" => Flow!FlowTypeOK
  /\ part = "growing flow" => GrowingFlow!FlowTypeOK
  /\ part = "chpp" => Chpp!ChppAppTypeOK
  /\ part = "hal" => Hal!HalTypeOK
  /\ part = "hal ids" => HalIds!HalTypeOK

\* Every request that a manager accepted is answered once: no answer comes
\* twice, whatever time-outs, late or repeated answers, refusals and setting
\* changes cross it, and none that has left its queue is without one. Scans
\* are judged only while the PAL is in time and the setting stays: with a
\* change of the setting a scan can be answered twice (OneResultPerScan in
\* WifiScan). A monitor or ranging request that times out is not answered, a
\* BLE request to stop a scan the nanoapp does not have need not be, and of
\* cell information and the transactions of HAL clients only a second or
\* misdirected answer is excluded.
RequestsAnsweredOnce ==
  /\ part = "to host" => ToHost!OneResult
  /\ part = "scan" => Scan!ScanAnsweredOnce
  /\ part = "monitor" => Monitor!MonitorAnsweredOnce
  /\ part = "ranging" => Ranging!RangingAnsweredOnce
  /\ part = "nan" => Nan!NanAnsweredOnce
  /\ part = "cell" => Cell!CellInfoToItsRequester
  /\ part = "gnss" => Gnss!GnssAnsweredOnce
  /\ part = "ble" => Ble!BleAnsweredOnce
  /\ part = "ble queries" =>
       /\ Queries!FlushAnsweredOnce
       /\ Queries!RssiAnsweredOnce
  /\ part = "sensor flush" => Flush!SensorFlushAnsweredOnce
  /\ part = "chpp" => Chpp!CellInfoToldOnce
  /\ part = "hal" => Hal!TransactionsToldOnce

\* An answer of the PAL carries no identifier, so it is taken for that of
\* the request in front: there is one request with the PAL, it is the one in
\* front, and it is answered with its own outcome (handle...Sync). This holds
\* as long as the PAL is in time for scans, the monitor, ranging and flushes,
\* settings stay for scans and NAN, and, for the flushes of a sensor, no
\* nanoapp turned it off meanwhile; a late answer is taken for that of the
\* next request. For GNSS sessions and RSSI reads, which have no time-out, it
\* holds always. The result of a HAL transaction goes to the client that
\* asked for it, if the file of client IDs was not lost (getCallback).
AnswersMeetTheirRequests ==
  /\ part = "scan" => Scan!ScanInFlightIsFront
  /\ part = "monitor" => Monitor!MonitorInFlightIsFront
  /\ part = "ranging" => Ranging!RangingInFlightIsFront
  /\ part = "nan" => Nan!NanIdForItsRequest
  /\ part = "gnss" => Gnss!GnssOneInFlight
  /\ part = "ble queries" =>
       /\ Queries!RssiInFlightIsFront
       /\ Queries!FlushInTime
  /\ part = "sensor flush" => Flush!SensorFlushTruthful
  /\ part = "hal" => Hal!TransactionsToldToTheirClient

\* Whoever waits, waits for something that will happen: a request in a
\* queue, a transaction or a source of data has a timer set for it, an
\* answer owed by the PAL or a callback in the queue of the event loop,
\* which may be one that was meant for another request. NAN requests are
\* judged only if availability and settings do not change under them.
NoRequestStranded ==
  /\ part = "to host" =>
       /\ ToHost!GroupSerialised
       /\ ToHost!TimerCoversTransactions
  /\ part = "scan" => Scan!ScanTimerGuardsFront /\ Scan!ScanQueueMoves
  /\ part = "ranging" => Ranging!RangingQueueMoves
  /\ part = "nan" => Nan!NanQueueMoves
  /\ part = "ble" => Ble!BleNoneForgotten
  /\ part = "ble queries" => Queries!FlushIsGuarded
  /\ part = "sensor flush" => Flush!SensorFlushGuarded
  /\ part = "audio" => Audio!AudioNeverStarves

\* When nothing is in flight the platform does what the remaining requests
\* together ask for, and the manager knows it, although settings changed,
\* nanoapps were unloaded or the PAL was reset in between
\* (updatePlatformRequest, configurePlatformSensor, dispatch...). Where calls
\* fail it holds of the BLE scans that are served, of the passive listener of
\* GNSS (both until the PAL is reset), of the scan monitor until a request to
\* stop failed or one timed out, and of sensors until the platform refused to
\* undo or remove a request; a PAL that failed to change a BLE scan may go on
\* with it, and GNSS does not notice a session that failed. Not included, as
\* they are false: that a GNSS session of one nanoapp is served when another
\* one leaves (GnssSessionServed), and that the audio platform knows of its
\* clients after they changed with the microphone off
\* (AudioHandleFollowsClients).
PlatformFollowsRequests ==
  /\ part = "monitor" => Monitor!MonitorMatchesPal
  /\ part = "gnss" =>
       /\ Gnss!GnssOffWhenDisabled
       /\ Gnss!GnssPassiveFollows
       /\ Gnss!GnssStateKnown
  /\ part = "ble" => Ble!BleScanServesRequests
  /\ part = "audio" => Audio!AudioQuietWhenOff
  /\ part = "sensor" => Sensor!SensorPlatformFollows /\ Sensor!SensorServesAll
  /\ part = "one shot" => OneShot!OneShotStaysArmed
  /\ part = "chpp" => Chpp!OpenedTogether

\* A nanoapp is registered for the events of a service as long as it has a
\* request with it, and not longer (registerForBroadcastEvent and its
\* counterpart in each manager). For BLE only that a nanoapp whose scan runs
\* is registered: one whose replacement of a running scan is turned down
\* stays registered (BleOnlyScannersRegistered is false). For sensors with
\* the exception of a nanoapp whose removal the platform refused, which stays
\* registered. One-shot sensors are not included: OneShotRegistered is false.
ReceiversAreRegistered ==
  /\ part = "cell" => Cell!CellInfoPlaceGivenBack
  /\ part = "gnss" => Gnss!GnssRegistration
  /\ part = "ble" => Ble!BleScannersRegistered
  /\ part = "sensor" => Sensor!SensorRegistration


\* A buffer that the PAL gave away is given back when the last nanoapp is
\* done with it, not before and, for audio and one-shot sensors, not twice
\* (handleFreeAudioDataEvent, releaseOneShotSensorDataEvent). A ranging
\* event is passed on or released when it has been handled, if the PAL was
\* in time: one that comes when its request has timed out and no other waits
\* is never released (postRangingAsyncResult).
BuffersReleasedOnce ==
  /\ part = "ranging" => Ranging!RangingEventReleased
  /\ part = "audio" => Audio!AudioEventReleased
  /\ part = "one shot" => OneShot!OneShotReleasedLast

\* What is remembered of a reliable message agrees with what happened to it:
\* a message of the pool has its transaction, the record of a received one
\* tells its outcome, and only what a nanoapp was given is acknowledged.
RecordsTellOutcomes ==
  /\ part = "to host" => ToHost!TransactionsMatchMessages
  /\ part = "from host" =>
       /\ FromHost!AckedOnlyIfDelivered
       /\ FromHost!RecordTellsOutcome

\* The last status a nanoapp was told is the present one: whether its audio
\* source is suspended, and, when nothing is in flight, what the BLE scan
\* does, unless the PAL failed (a request it refuses is removed without a
\* status event). Nothing is kept for new clients of a sensor that is off
\* (unless the platform refused to turn it off), and what a new client is
\* given came since the sensor was last turned off or was then on its way in
\* the queue of the loop.
NanoappsKnowTheState ==
  /\ part = "ble" => Ble!BleStatusAnnounced
  /\ part = "audio" => Audio!AudioStatusTold
  /\ part = "sensor" => Sensor!LastEventWhileOn /\ Sensor!GivenEventIsRecent

\* Open sessions have different IDs and connect registered hubs, and both
\* ends of a session are told once of its end, however the callbacks of
\* several threads cross (finalizeSession, unregisterMessageHub), except for
\* a session that openSession inserted after one of its hubs had left.
\* Clients of the HAL have different IDs, which its file keeps over restarts,
\* one transaction pending, and endpoints at CHRE that lead back to them
\* unless the file was lost (createClient, isNewTransactionAllowed,
\* getCallbackForEndpoint).
SessionsConsistent ==
  /\ part = "router" =>
       /\ Router!SessionIdsUnique
       /\ Router!SessionEndTold
       /\ Router!SessionsConnectHubs
  /\ part = "hal" => Hal!ClientIdsUnique /\ Hal!OneTransactionPending
  /\ part = "hal ids" => HalIds!ClientIdsUnique /\ HalIds!EndpointsLeadBack

\* A consumer of a data flow that must not be overwritten pops exactly what
\* was pushed, in order and once, while the producer inserts blocks, stops,
\* or the consumer leaves; the producer never writes where such a consumer
\* has yet to read, and one that is overwritten never copies older elements
\* (push, commit, pop, enterNextBlock, updateBlockHeaderData). No assertion
\* fails in these instances; they keep clear of the one on mExpansionCount,
\* which fails in a queue that grows from a single block and may fail in one
\* that grows under reservations.
ConsumersGetWhatWasPushed ==
  /\ part = "flow" =>
       /\ Flow!PopsWhatWasPushed
       /\ Flow!NeverFatal
       /\ Flow!ProducerKeepsOff
       /\ Flow!PopsNothingOlder
  /\ part = "growing flow" =>
       /\ GrowingFlow!PopsWhatWasPushed
       /\ GrowingFlow!NeverFatal
       /\ GrowingFlow!ProducerKeepsOff

\* The binary heap with removal by index implements the bag of requests that
\* TimerPool assumes (heap_impl.h, priority_queue_impl.h).
ImplementsTimerBag ==
  /\ part = "heap" => Heap!Bag!Init
  /\ [][part = "heap" => Heap!BagStep]_vars

\* What a nanoapp sees of its reliable messages is what ReliableService
\* allows: in order, one at a time, at most kMaxAttempts copies, a time-out
\* only after the last.
ImplementsService ==
  /\ part = "to host" => ToHost!Service!Init
  /\ [][part = "to host" => ToHost!ServiceStep]_vars

\* A message of the host reaches its nanoapp at most once within
\* kDuplicateTimeout, however often the host repeats it and whatever else is
\* received, unloaded or fails in between.
AtMostOncePerWindow ==
  [][part = "from host" => FromHost!DeliveredStep]_vars

\* The lock-free queue of one producer and one consumer is a bounded queue,
\* over the overflow of its indices too: nothing is lost, doubled or
\* reordered (atomic_spsc_queue.h).
ImplementsFifo ==
  /\ part = "spsc" => Spsc!Queue!Init
  /\ [][part = "spsc" => Spsc!FifoStep]_vars

Symmetry == Permutations({App1, App2}) \cup Permutations({Item1, Item2})
=============================================================================
