-------------------------- MODULE ReliableFromHost --------------------------
(***************************************************************************)
(* Reliable messages from the host to nanoapps: the inbound half of        *)
(* core/host_comms_manager.cc and util/duplicate_message_detector.cc.  The *)
(* host repeats a message until it gets a delivery status; the detector    *)
(* keeps a record of each message for kDuplicateTimeout, so that a repeat  *)
(* is answered and not delivered again.                                    *)
(*                                                                         *)
(* The host link's thread runs sendMessageToNanoappFromHost at any time;   *)
(* the rest runs in the event loop.  A record's timestamp is its age here. *)
(***************************************************************************)
EXTENDS Integers, Sequences, FiniteSets

CONSTANTS
  Messages,                  \* (sequence number, host endpoint) pairs
  AppOf,                     \* the nanoapp each is addressed to
  kMaxOutstandingMessages,   \* blocks of mMessagePool
  kDuplicateTimeout,         \* kReliableMessageDuplicateDetectorTimeout, ticks
  MemoryRunsOut,             \* whether an allocation or a post may fail
  MaxCopies,                 \* bound: copies of a message the host sends
  MaxReloads                 \* bound: changes of the set of nanoapps

Nanoapps == {AppOf[m] : m \in Messages}
NoError == "none yet"
Errors == {"NONE", "NO_MEMORY", "BUSY", "TRANSIENT", "DESTINATION_NOT_FOUND"}
Long == kDuplicateTimeout

VARIABLES
  records,                   \* mReliableMessageRecordQueue, ordered by age
  queue,                     \* crafted messages deferred to the event loop
  loaded,                    \* nanoapps in mNanoapps
  reloads,
  copies,                    \* copies of each message received so far
  statuses,                  \* delivery statuses sent for each message
  delivered,                 \* times a nanoapp was given each message
  since                      \* ticks since then, up to Long

vars == <<records, queue, loaded, reloads, copies, statuses, delivered, since>>

Init ==
  /\ records = {}
  /\ queue = <<>>
  /\ loaded = Nanoapps
  /\ reloads = 0
  /\ copies = [m \in Messages |-> 0]
  /\ statuses = [m \in Messages |-> <<>>]
  /\ delivered = [m \in Messages |-> 0]
  /\ since = [m \in Messages |-> Long]

-----------------------------------------------------------------------------
(* DuplicateMessageDetector.                                               *)

Find(recs, m) == {r \in recs : r.message = m}

\* findOrAdd: the records afterwards, the error to report and whether the
\* message counts as a duplicate.
FindOrAdd(m, enoughMemory) ==
  IF Find(records, m) # {}
  THEN [recs |-> records, isDuplicate |-> TRUE,
        error |-> (CHOOSE r \in Find(records, m) : TRUE).error]
  ELSE IF enoughMemory
       THEN [recs |-> records \cup
                        {[message |-> m, age |-> 0, error |-> NoError]},
             isDuplicate |-> FALSE, error |-> NoError]
       ELSE [recs |-> records, isDuplicate |-> TRUE, error |-> "NO_MEMORY"]

\* Mutant: the outcome is not recorded.
FindAndSetErrorNot(recs, m, error) == recs

FindAndSetError(recs, m, error) ==
  {IF r.message = m THEN [r EXCEPT !.error = error] ELSE r : r \in recs}

\* Mutant: a record is dropped one tick early.
RemoveOldEntriesEarly(recs) == {r \in recs : r.age + 1 < kDuplicateTimeout}

RemoveOldEntries(recs) == {r \in recs : r.age < kDuplicateTimeout}

-----------------------------------------------------------------------------
(* HostCommsManager.                                                       *)

Answer(m, errors) == statuses' = [statuses EXCEPT ![m] = @ \o errors]

\* Why sendMessageToNanoappFromHost may refuse a message: no block or no memory,
\* no such nanoapp, or a loop that takes no callback because it is stopping.
Refusals(m) ==
  IF Len(queue) = kMaxOutstandingMessages
  THEN {"NO_MEMORY"}
  ELSE {error \in {"NO_MEMORY", "BUSY"} : MemoryRunsOut}
         \cup {error \in {"DESTINATION_NOT_FOUND"} : AppOf[m] \notin loaded}

SendMessageToNanoappFromHost(m) ==
  /\ copies[m] < MaxCopies
  /\ copies' = [copies EXCEPT ![m] = @ + 1]
  /\ \/ /\ Len(queue) < kMaxOutstandingMessages
        /\ AppOf[m] \in loaded
        /\ queue' = Append(queue, m)
        /\ UNCHANGED statuses
     \/ /\ \E error \in Refusals(m) : Answer(m, <<error>>)
        /\ UNCHANGED queue
  /\ UNCHANGED <<records, loaded, reloads, delivered, since>>

\* shouldSendReliableMessageToNanoapp
ShouldSend(found) ==
  ~found.isDuplicate \/ found.error \in {"BUSY", "TRANSIENT"}

\* deliverNanoappMessageFromHost, a deferred callback.  A repeat is answered
\* with the recorded error; a message whose nanoapp is gone is answered too.
DeliverNanoappMessageFromHost(enoughMemory) ==
  LET m == Head(queue)
      found == FindOrAdd(m, enoughMemory)
      foundNanoapp == AppOf[m] \in loaded
      shouldDeliver == ShouldSend(found)
      pastError == IF ~shouldDeliver /\ found.error # NoError
                   THEN <<found.error>> ELSE <<>>
      error == CASE ~foundNanoapp -> <<"DESTINATION_NOT_FOUND">>
                 [] foundNanoapp /\ shouldDeliver -> <<"NONE">>
                 [] OTHER -> <<>>
  IN  /\ queue # <<>>
      /\ queue' = Tail(queue)
      /\ records' = RemoveOldEntries(
           IF error = <<>> THEN found.recs
                           ELSE FindAndSetError(found.recs, m, error[1]))
      /\ Answer(m, pastError \o error)
      /\ IF error = <<"NONE">>
         THEN /\ delivered' = [delivered EXCEPT ![m] = @ + 1]
              /\ since' = [since EXCEPT ![m] = 0]
         ELSE UNCHANGED <<delivered, since>>
      /\ UNCHANGED <<loaded, reloads, copies>>

-----------------------------------------------------------------------------
(* The surroundings.                                                       *)

\* A nanoapp is unloaded, or loaded again.
Reload(app) ==
  /\ reloads < MaxReloads
  /\ reloads' = reloads + 1
  /\ loaded' = IF app \in loaded THEN loaded \ {app} ELSE loaded \cup {app}
  /\ UNCHANGED <<records, queue, copies, statuses, delivered, since>>

Older(t) == IF t = Long THEN t ELSE t + 1

Tick ==
  /\ \E m \in Messages : since[m] < Long \/ \E r \in records : r.age < Long
  /\ records' = {[r EXCEPT !.age = Older(@)] : r \in records}
  /\ since' = [m \in Messages |-> Older(since[m])]
  /\ UNCHANGED <<queue, loaded, reloads, copies, statuses, delivered>>

Next ==
  \/ \E m \in Messages : SendMessageToNanoappFromHost(m)
  \/ \E enoughMemory \in {TRUE, ~MemoryRunsOut} :
       DeliverNanoappMessageFromHost(enoughMemory)
  \/ \E app \in Nanoapps : Reload(app)
  \/ Tick

Spec == Init /\ [][Next]_vars

\* The loop delivers what is queued.
FairStep ==
  \E enoughMemory \in {TRUE, ~MemoryRunsOut} :
    DeliverNanoappMessageFromHost(enoughMemory)

FairSpec == Spec /\ WF_vars(FairStep)

-----------------------------------------------------------------------------
(* Properties.                                                             *)

FromHostTypeOK ==
  /\ records \subseteq [message : Messages, age : 0..Long,
                        error : Errors \cup {NoError}]
  /\ queue \in Seq(Messages)
  /\ loaded \subseteq Nanoapps

DeliveredStep ==
  \A m \in Messages : delivered'[m] # delivered[m] => since[m] = Long

\* A message reaches its nanoapp at most once within kDuplicateTimeout, however
\* often the host repeats it and whatever else is received, unloaded or fails
\* in between.
AtMostOncePerWindow == [][DeliveredStep]_vars

\* A positive delivery status is sent only for a message that some nanoapp was
\* given.
AckedOnlyIfDelivered ==
  \A m \in Messages :
    "NONE" \in {statuses[m][i] : i \in DOMAIN statuses[m]} => delivered[m] > 0

\* As long as a message is remembered, its record tells what happened to it: the
\* answer to a repeat is one that was given before.
RecordTellsOutcome ==
  \A r \in records :
    /\ r.error \in {statuses[r.message][i] : i \in DOMAIN statuses[r.message]}
    /\ since[r.message] < kDuplicateTimeout /\ AppOf[r.message] \in loaded
         /\ reloads = 0 => r.error = "NONE"

NoCopyUnanswered == \A m \in Messages : Len(statuses[m]) >= copies[m]

\* Every copy the host sends is answered with a delivery status.
EveryCopyAnswered == []<>NoCopyUnanswered
=============================================================================
