--------------------------- MODULE MCServicesLive ---------------------------
(***************************************************************************)
(* The components of the runtime that promise an answer, checked for       *)
(* liveness in one run: as in MCServices, a behaviour is one of the        *)
(* component `part', whose variables lie in the slots s1, s2, ...          *)
(***************************************************************************)
EXTENDS Integers, Sequences, FiniteSets, TLC

CONSTANTS App1, App2, Item1, Loop1, System, Broadcast, Nowhere, NoPointer

NanFaults ==
  {{}, {"engine fails"}, {"unloads", "setting changes"}}
GnssFaults == {{"setting changes", "resets"}, {"fails"}, {"unloads"}}
BleFaults == {{"setting changes", "resets"}, {"fails"}, {"unloads"}}

\* What the host asks of the event loop: to unload a nanoapp, and to start one.
UnloadAndStart ==
  {<<Loop1, [kind |-> "unload", arg |-> App1]>>,
   <<Loop1, [kind |-> "start", arg |-> App2]>>}

VARIABLES part, s1, s2, s3, s4, s5, s6, s7, s8, s9, s10, s11

vars == <<part, s1, s2, s3, s4, s5, s6, s7, s8, s9, s10, s11>>

Timers == INSTANCE TimerPool WITH
  Nanoapps <- {App1}, Loops <- {Loop1}, MainLoop <- Loop1,
  LoopOf <- [o \in {App1, System} |-> Loop1], Durations <- {1, 2},
  kMaxTimerRequests <- 2, kNumReservedNanoappTimers <- 1,
  kMaxNanoappTimers <- 1, CHRE_TIMER_INVALID <- 3, AlreadyFired <- 99,
  MaxTime <- 2, AllowWrap <- FALSE, now <- s1, mTimerRequests <- s2,
  mNumNanoappTimers <- s3, mLastTimerHandle <- s4,
  mustCheckUniqueness <- s5, mSystemTimer <- s6, queue <- s7,
  scheduling <- s8, loaded <- s9

ToHost == INSTANCE ReliableToHost WITH
  Nanoapps <- {App1}, kMaxOutstandingMessages <- 2, kMaxAttempts <- 2,
  kTimeout <- 1, FreeCallbacks <- {TRUE, FALSE}, RecursiveMutex <- TRUE,
  ResendOnFailure <- FALSE, MaxMessages <- 2, hcm <- s1, queue <- s2,
  scan <- s3, loaded <- s4, stopping <- s5, host <- s6

FromHost == INSTANCE ReliableFromHost WITH
  Messages <- {Item1}, AppOf <- [x \in {Item1} |-> App1],
  kMaxOutstandingMessages <- 1, kDuplicateTimeout <- 1,
  MemoryRunsOut <- TRUE, MaxCopies <- 3, MaxReloads <- 2, records <- s1,
  queue <- s2, loaded <- s3, reloads <- s4, copies <- s5, statuses <- s6,
  delivered <- s7, since <- s8

Scan == INSTANCE WifiScan WITH
  Nanoapps <- {App1, App2}, kMaxPendingScanRequest <- 2, Totals <- {0, 1},
  MaxScans <- 2, MaxToggles <- 1, MaxMonitorEvents <- 0, wifi <- s1,
  queue <- s2, available <- s3, faults <- s4, scans <- s5, toggles <- s6,
  monitorEvents <- s7

Monitor == INSTANCE WifiScanMonitor WITH
  Nanoapps <- {App1, App2}, kMaxScanMonitorStateTransitions <- 3,
  MaxConfigures <- 2, monitor <- s1, palOn <- s2, queue <- s3, loaded <- s4,
  faults <- s5, configures <- s6

Ranging == INSTANCE WifiRanging WITH
  RangingTypes <- {"WIFI_AP"}, kMaxPendingRangingRequests <- 2,
  MaxRangings <- 2, MaxToggles <- 1, ranging <- s1, queue <- s2,
  enabled <- s3, faults <- s4, asked <- s5, toggles <- s6

Nan == INSTANCE WifiNan WITH
  Nanoapps <- {App1}, kMaxPendingNanSubscriptionRequests <- 2,
  FaultSets <- NanFaults, MaxSubscribes <- 2, MaxNotices <- 1,
  MaxToggles <- 1, nan <- s1, engine <- s2, host <- s3, queue <- s4,
  settings <- s5, loaded <- s6, faults <- s7, subscribes <- s8,
  notices <- s9, toggles <- s10

Cell == INSTANCE WwanRequests WITH
  Nanoapps <- {App1, App2}, MaxCellRequests <- 2, cell <- s1, queue <- s2,
  told <- s3, owner <- s4, loaded <- s5, requests <- s6

Gnss == INSTANCE GnssManager WITH
  Nanoapps <- {App1, App2}, Intervals <- {1}, FaultSets <- GnssFaults,
  kMaxGnssStateTransitions <- 3, MaxConfigures <- 2, MaxToggles <- 1,
  MaxResyncs <- 1, session <- s1, passive <- s2, pal <- s3, queue <- s4,
  location <- s5, loaded <- s6, faults <- s7, configures <- s8,
  toggles <- s9, resyncs <- s10

Ble == INSTANCE BleScan WITH
  Nanoapps <- {App1, App2}, Delays <- {1}, FaultSets <- BleFaults,
  MaxScanConfigures <- 2, MaxToggles <- 1, MaxResyncs <- 1, ble <- s1,
  pal <- s2, queue <- s3, available <- s4, loaded <- s5, faults <- s6,
  configures <- s7, toggles <- s8, resyncs <- s9

Queries == INSTANCE BleQueries WITH
  Handles <- {Item1}, kMaxFlushRequests <- 2, kMaxPendingRssiRequests <- 2,
  MaxFlushes <- 2, MaxReads <- 2, MaxToggles <- 1, flush <- s1, rssi <- s2,
  queue <- s3, available <- s4, expired <- s5, faults <- s6, flushes <- s7,
  reads <- s8, toggles <- s9

Audio == INSTANCE AudioRequests WITH
  Nanoapps <- {App1, App2}, Configurations <- {Item1},
  MaxAudioConfigures <- 2, MaxToggles <- 1, MaxAvailability <- 1,
  MaxEvents <- 2, source <- s1, events <- s2, refCount <- s3,
  delivered <- s4, queue <- s5, microphone <- s6, configures <- s7,
  toggles <- s8, changes <- s9

Flush == INSTANCE SensorFlush WITH
  Nanoapps <- {App1, App2}, Sensors <- {Item1}, kMaxFlushRequests <- 3,
  MaxSensorFlushes <- 2, MaxSensorSwitches <- 2, sensors <- s1,
  requests <- s2, platform <- s3, thread <- s4, timers <- s5, queue <- s6,
  answers <- s7, faults <- s8, accepted <- s9, passed <- s10,
  switches <- s11

OneShot == INSTANCE SensorOneShot WITH
  Nanoapps <- {App1, App2}, MaxOneShotRequests <- 3, MaxOneShotEvents <- 2,
  requests <- s1, registered <- s2, armed <- s3, queue <- s4, refs <- s5,
  released <- s6, got <- s7, loaded <- s8, asked <- s9, fired <- s10

Chpp == INSTANCE ChppApp WITH
  CHPP_REQUEST_TIMEOUT_DEFAULT <- 1, CHPP_TIME_MAX <- 100,
  CHPP_TX_DATAGRAM_QUEUE_LEN <- 2, MaxRequests <- 2, MaxResets <- 1,
  client <- s1, call <- s2, link <- s3, service <- s4, resets <- s5

Link == INSTANCE ChppTransport WITH
  Endpoints <- {App1, App2}, SeqNumbers <- 3, CHPP_TRANSPORT_MAX_RETX <- 1,
  CHPP_TRANSPORT_MAX_RESET <- 2, CHPP_TX_DATAGRAM_QUEUE_LEN <- 2,
  Lengths <- [n \in {App1, App2} |-> {1}],
  DiscoveryClients <- {}, ShortOfMemory <- {App2},
  ResetDuringRx <- TRUE, TroubleDuringReset <- FALSE,
  MaxDatagrams <- [n \in {App1, App2} |-> IF n = App1 THEN 2 ELSE 0],
  MaxWire <- 2, MaxTroubles <- 1, Null <- NoPointer, ctx <- s1, wire <- s2,
  troubles <- s3, sent <- s4, delivered <- s5, acked <- s6

Loop == INSTANCE EventLoop WITH
  Events <- 1 .. 2, kMaxEventCount <- 2, LoopSeq <- <<Loop1>>,
  Posters <- {Item1}, Nanoapps <- {App1, App2},
  LoopOf <- [a \in {App1, App2} |-> Loop1],
  InitNanoapps <- [l \in {Loop1} |-> <<App1>>],
  HostRequests <- UnloadAndStart, Targets <- {App2, Broadcast, Nowhere},
  MaxPosts <- 2, MemoryRunsOut <- TRUE, StartMayFail <- TRUE,
  System <- System, Broadcast <- Broadcast, Nowhere <- Nowhere,
  Null <- NoPointer, event <- s1, queue <- s2, mNanoapps <- s3,
  mStoppingNanoapp <- s4, mRunning <- s5, stack <- s6, requests <- s7,
  posts <- s8, invoked <- s9, fatal <- s10

-----------------------------------------------------------------------------
\* The slots a component leaves unused.
Blank11 == s11 = 0
Blank10 == s10 = 0 /\ Blank11
Blank9 == s9 = 0 /\ Blank10
Blank8 == s8 = 0 /\ Blank9
Blank7 == s7 = 0 /\ Blank8
Blank6 == s6 = 0 /\ Blank7
Blank5 == s5 = 0 /\ Blank6
Blank4 == s4 = 0 /\ Blank5
Blank3 == s3 = 0 /\ Blank4

Keep11 == UNCHANGED s11
Keep10 == UNCHANGED s10 /\ Keep11
Keep9 == UNCHANGED s9 /\ Keep10
Keep8 == UNCHANGED s8 /\ Keep9
Keep7 == UNCHANGED s7 /\ Keep8
Keep6 == UNCHANGED s6 /\ Keep7
Keep5 == UNCHANGED s5 /\ Keep6
Keep4 == UNCHANGED s4 /\ Keep5
Keep3 == UNCHANGED s3 /\ Keep4

Init ==
  \/ part = "timers" /\ Timers!Init /\ Blank10
  \/ part = "to host" /\ ToHost!Init /\ Blank7
  \/ part = "from host" /\ FromHost!Init /\ Blank9
  \/ part = "scan" /\ Scan!Init /\ Blank8
  \/ part = "monitor" /\ Monitor!Init /\ Blank7
  \/ part = "ranging" /\ Ranging!Init /\ Blank7
  \/ part = "nan" /\ Nan!Init /\ Blank11
  \/ part = "cell" /\ Cell!Init /\ Blank7
  \/ part = "gnss" /\ Gnss!Init /\ Blank11
  \/ part = "ble" /\ Ble!Init /\ Blank10
  \/ part = "ble queries" /\ Queries!Init /\ Blank10
  \/ part = "audio" /\ Audio!Init /\ Blank10
  \/ part = "sensor flush" /\ Flush!Init
  \/ part = "one shot" /\ OneShot!Init /\ Blank11
  \/ part = "chpp" /\ Chpp!Init /\ Blank6
  \/ part = "link" /\ Link!Init /\ Blank7
  \/ part = "loop" /\ Loop!Init /\ Blank11

Next ==
  /\ UNCHANGED part
  /\ \/ part = "timers" /\ Timers!Next /\ Keep10
     \/ part = "to host" /\ ToHost!Next /\ Keep7
     \/ part = "from host" /\ FromHost!Next /\ Keep9
     \/ part = "scan" /\ Scan!Next /\ Keep8
     \/ part = "monitor" /\ Monitor!Next /\ Keep7
     \/ part = "ranging" /\ Ranging!Next /\ Keep7
     \/ part = "nan" /\ Nan!Next /\ Keep11
     \/ part = "cell" /\ Cell!Next /\ Keep7
     \/ part = "gnss" /\ Gnss!Next /\ Keep11
     \/ part = "ble" /\ Ble!Next /\ Keep10
     \/ part = "ble queries" /\ Queries!Next /\ Keep10
     \/ part = "audio" /\ Audio!Next /\ Keep10
     \/ part = "sensor flush" /\ Flush!Next
     \/ part = "one shot" /\ OneShot!Next /\ Keep11
     \/ part = "chpp" /\ Chpp!Next /\ Keep6
     \/ part = "link" /\ Link!Next /\ Keep7
     \/ part = "loop" /\ Loop!Next /\ Keep11

\* The steps each component takes unless it takes another such step for ever.
FairStep ==
  /\ UNCHANGED part
  /\ \/ part = "timers" /\ Timers!FairStep /\ Keep10
     \/ part = "to host" /\ ToHost!FairStep /\ Keep7
     \/ part = "from host" /\ FromHost!FairStep /\ Keep9
     \/ part = "scan" /\ Scan!FairStep /\ Keep8
     \/ part = "monitor" /\ Monitor!FairStep /\ Keep7
     \/ part = "ranging" /\ Ranging!FairStep /\ Keep7
     \/ part = "nan" /\ Nan!FairStep /\ Keep11
     \/ part = "cell" /\ Cell!FairStep /\ Keep7
     \/ part = "gnss" /\ Gnss!FairStep /\ Keep11
     \/ part = "ble" /\ Ble!FairStep /\ Keep10
     \/ part = "ble queries" /\ Queries!FairStep /\ Keep10
     \/ part = "audio" /\ Audio!FairStep /\ Keep10
     \/ part = "sensor flush" /\ Flush!FairStep
     \/ part = "one shot" /\ OneShot!FairStep /\ Keep11
     \/ part = "chpp" /\ Chpp!FairStep /\ Keep6
     \/ part = "link" /\ Link!FairStep /\ Keep7
     \/ part = "loop" /\ Loop!FairStep /\ Keep11

FairSpec == Init /\ [][Next]_vars /\ WF_vars(FairStep)

-----------------------------------------------------------------------------
\* Every due timer is handled in the end: its request is gone, or
\* rescheduled (handleExpiredTimersAndScheduleNextLocked,
\* handleTimerExpiredCallback).
EveryTimerIsHandled ==
  \A h \in Timers!Handles : []<>(part = "timers" => ~Timers!Due(h))

\* Every accepted reliable message gets its result or its nanoapp is
\* unloaded, and every copy that the host sends is answered
\* (handleTimerExpiry, deliverNanoappMessageFromHost).
EveryMessageAnswered ==
  []<>(
    /\ part = "to host" => ToHost!NoMessageUnanswered
    /\ part = "from host" => FromHost!NoCopyUnanswered)

\* No request of a nanoapp waits for ever, whatever the PAL does within its
\* contract: every queue is empty again and again, even if further requests
\* keep coming up to the bounds. What ends a request may be a time-out or the
\* answer meant for another one.
EveryRequestEnds ==
  []<>(
    /\ part = "scan" => Scan!NoScanWaits
    /\ part = "monitor" => Monitor!NoConfigureWaits
    /\ part = "ranging" => Ranging!NoRangingWaits
    /\ part = "nan" => Nan!NoSubscribeWaits
    /\ part = "cell" => Cell!NoCellRequestWaits
    /\ part = "gnss" => Gnss!NoGnssRequestWaits
    /\ part = "ble" => Ble!NoBleScanRequestWaits
    /\ part = "ble queries" => Queries!NoFlushWaits /\ Queries!NoRssiReadWaits
    /\ part = "sensor flush" => Flush!NoSensorFlushWaits
    /\ part = "chpp" => Chpp!NoCellInfoWaits /\ Chpp!NoOpeningWaits)

\* Every buffer of audio data and of a one-shot sensor is given back to the
\* PAL in the end (handleFreeAudioDataEvent, releaseOneShotSensorDataEvent).
\* Ranging events are not included: a late one can be left unreleased.
EveryBufferReleased ==
  []<>(
    /\ part = "audio" => Audio!NoAudioEventHeld
    /\ part = "one shot" => OneShot!NoOneShotHeld)

\* No datagram stays in the transmit queue of a CHPP link for ever:
\* retransmission gets it across, or running out of attempts or a reset
\* drops it (chppDequeueTxDatagram, chppWorkHandleTimeout).
EveryDatagramSettles ==
  \A id \in 1 .. 2 : []<>(part = "link" => ~Link!Queued(App1, id))

\* No end of a CHPP link keeps resetting for ever: the reset completes or,
\* after CHPP_TRANSPORT_MAX_RESET time-outs, fails
\* (chppTransportSendResetLocked, chppProcessResetAck).
EveryResetEnds ==
  \A n \in {App1, App2} : []<>(part = "link" => ~Link!Resetting(n))

\* With one event loop that keeps running, every event gives its slot back in
\* the end, whatever is posted, sent, started, refused or unloaded meanwhile
\* (distributeEvent, freeEvent). An event posted while a loop stops, or to
\* several loops, can be left with a reference nobody gives up.
EveryEventIsFreed ==
  \A e \in 1 .. 2 : []<>(part = "loop" => Loop!IsFreed(e))
=============================================================================
