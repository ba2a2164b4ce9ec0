--------------------------- MODULE ReliableToHost ---------------------------
(***************************************************************************)
(* Reliable messages from nanoapps to the host: the outbound half of       *)
(* core/host_comms_manager.cc on top of the TransactionManager             *)
(* (util/system/transaction_manager_impl.h), which retries a message until *)
(* the host's delivery status arrives or the attempts run out, one message *)
(* of a nanoapp at a time.                                                 *)
(*                                                                         *)
(* One event loop thread runs all of it; the host link's thread only       *)
(* defers delivery statuses to it.  The operations call each other while   *)
(* the state is half changed, so they are functions on the record hcm.     *)
(* Times are relative to the present: a deadline is the ticks left to it.  *)
(***************************************************************************)
EXTENDS Integers, Sequences, FiniteSets, SequencesExt

CONSTANTS
  Nanoapps,                  \* the senders; their instance IDs are the groups
  kMaxOutstandingMessages,   \* blocks of mMessagePool, slots of mTransactions
  kMaxAttempts,
  kTimeout,                  \* ticks between two attempts
  FreeCallbacks,             \* whether senders give a free callback
  RecursiveMutex,            \* whether the platform's Mutex may be re-locked
  ResendOnFailure,           \* whether a nanoapp answers a timeout by sending
  MaxMessages                \* bound: messages sent in a behaviour

Seqs == 0..(MaxMessages - 1)
Blocks == 0..(kMaxOutstandingMessages - 1)

\* Transaction::timeout of one that is not started (UINT64_MAX).
Never == kTimeout + 1
CHRE_TIMER_INVALID == -1
NoMessage == [seq |-> -1]
Nobody == "nobody"

VARIABLES
  hcm,                       \* HostCommsManager, its TransactionManager, timers
  queue,                     \* callbacks deferred to the event loop
  scan,                      \* i in the loop of handleTimerExpiry, 0 outside
  loaded,                    \* the nanoapps in mNanoapps
  stopping,                  \* mStoppingNanoapp, or Nobody
  host                       \* copies of each message the host has answered

vars == <<hcm, queue, scan, loaded, stopping, host>>

TimerCallback == [type |-> "TransactionManagerTimeout"]
StatusCallback(seq) == [type |-> "ReliableMessageEvent", seq |-> seq]

\* For each message: the deliveries tried, the free callbacks run, the async
\* results given to the nanoapp.
NoHistory == [tried |-> 0, freed |-> 0, results |-> <<>>]

Init ==
  /\ hcm = [mTransactions |-> <<>>, mTimerHandle |-> CHRE_TIMER_INVALID,
            timers |-> {}, block |-> [b \in Blocks |-> NoMessage],
            freeBlocks |-> [i \in 1..kMaxOutstandingMessages |-> i - 1],
            mNextTransactionId |-> 0, mInCallback |-> FALSE,
            poolLocked |-> FALSE, misused |-> FALSE, relocked |-> FALSE,
            log |-> [q \in Seqs |-> NoHistory],
            sender |-> [q \in Seqs |-> Nobody],
            hasFree |-> [q \in Seqs |-> FALSE]]
  /\ queue = <<>>
  /\ scan = 0
  /\ loaded = Nanoapps
  /\ stopping = Nobody
  /\ host = [q \in Seqs |-> 0]

-----------------------------------------------------------------------------
(* mMessagePool.                                                           *)

Allocated(s) == {b \in Blocks : s.block[b] # NoMessage}
BlocksOf(s, seq) == {b \in Allocated(s) : s.block[b].seq = seq}
BlocksFrom(s, app) == {b \in Allocated(s) : s.block[b].appId = app}

Deallocate(s, b) ==
  [s EXCEPT !.block[b] = NoMessage, !.freeBlocks = <<b>> \o @]

-----------------------------------------------------------------------------
(* TransactionManager.                                                     *)

Least(S) == CHOOSE x \in S : \A y \in S : x <= y

\* onTransactionAttempt and doSendMessageToHostFromNanoapp.  Looking the
\* message up takes the pool's mutex.  That HostLink::sendMessage fails is only
\* logged: it is one way in which a copy may never be answered.
OnTransactionAttempt(s, txn) ==
  LET looked == [s EXCEPT !.relocked = @ \/ s.poolLocked]
  IN  IF BlocksOf(s, txn.id) = {} \/ txn.groupId \notin loaded
      THEN looked
      ELSE [looked EXCEPT !.log[txn.id].tried = @ + 1]

StartTransaction(s, i) ==
  OnTransactionAttempt([s EXCEPT !.mTransactions[i].attemptCount = 1,
                                 !.mTransactions[i].timeout = kTimeout],
                       s.mTransactions[i])

InGroup(s, app) ==
  {i \in DOMAIN s.mTransactions : s.mTransactions[i].groupId = app}

StartNextTransactionInGroup(s, app) ==
  IF InGroup(s, app) = {} THEN s
                          ELSE StartTransaction(s, Least(InGroup(s, app)))

\* setTimer; the handle is one the pool does not use.
SetTimer(s, delay) ==
  LET used == {t.handle : t \in s.timers} \cup {s.mTimerHandle}
      handle == Least(0..Cardinality(used) \ used)
  IN  [s EXCEPT !.mTimerHandle = handle,
                !.timers = @ \cup {[handle |-> handle, left |-> delay]}]

NextTimeout(s) == Least({s.mTransactions[i].timeout : i \in DOMAIN s.mTransactions})

UpdateTimer(s) ==
  LET cancelled == [s EXCEPT !.timers = {t \in @ : t.handle # s.mTimerHandle}]
  IN  IF s.mTransactions = <<>>
      THEN [cancelled EXCEPT !.mTimerHandle = CHRE_TIMER_INVALID]
      ELSE SetTimer(cancelled, NextTimeout(s))

\* CHRE_ASSERT(!mInCallback), compiled out in release builds.
CheckNotInCallback(s) == [s EXCEPT !.misused = @ \/ s.mInCallback]

\* Mutant: the next message of the nanoapp waits for a timer nobody set.
RemoveTransactionNoStart(s, id) ==
  LET found == {i \in DOMAIN s.mTransactions : s.mTransactions[i].id = id}
  IN  IF found = {} THEN CheckNotInCallback(s)
      ELSE [CheckNotInCallback(s) EXCEPT
              !.mTransactions = RemoveAt(@, Least(found))]

\* TransactionManager::remove
RemoveTransaction(s, id) ==
  LET checked == CheckNotInCallback(s)
      found == {i \in DOMAIN s.mTransactions : s.mTransactions[i].id = id}
  IN  IF found = {}
      THEN checked
      ELSE LET i == Least(found)
               txn == s.mTransactions[i]
               rest == [checked EXCEPT !.mTransactions = RemoveAt(@, i)]
           IN  IF txn.attemptCount > 0
               THEN UpdateTimer(StartNextTransactionInGroup(rest, txn.groupId))
               ELSE rest

\* Mutant: every transaction is started at once.
AddTransactionAlwaysStart(s, app) ==
  LET id == s.mNextTransactionId
      n == Len(s.mTransactions) + 1
      added == [CheckNotInCallback(s) EXCEPT
                  !.mNextTransactionId = @ + 1,
                  !.mTransactions = Append(@, [id |-> id, groupId |-> app,
                                               attemptCount |-> 0,
                                               timeout |-> Never])]
      started == StartTransaction(added, n)
  IN  IF n = 1 THEN SetTimer(started, started.mTransactions[1].timeout)
               ELSE started

\* TransactionManager::add, when there is room.
AddTransaction(s, app) ==
  LET id == s.mNextTransactionId
      n == Len(s.mTransactions) + 1
      added == [CheckNotInCallback(s) EXCEPT
                  !.mNextTransactionId = @ + 1,
                  !.mTransactions = Append(@, [id |-> id, groupId |-> app,
                                               attemptCount |-> 0,
                                               timeout |-> Never])]
      started == IF InGroup(s, app) = {} THEN StartTransaction(added, n)
                                         ELSE added
  IN  IF n = 1 THEN SetTimer(started, started.mTransactions[1].timeout)
               ELSE started

-----------------------------------------------------------------------------
(* HostCommsManager.                                                       *)

CanSend(s, app) ==
  /\ app \in loaded /\ app # stopping
  /\ s.mNextTransactionId < MaxMessages
  /\ s.freeBlocks # <<>>
  /\ Len(s.mTransactions) < kMaxOutstandingMessages

\* sendMessageToHostFromNanoapp, when it is accepted.  A message that is
\* refused changes nothing (its block goes back to the head of the list).
SendMessageToHost(s, app, hasFree) ==
  LET b == Head(s.freeBlocks)
      seq == s.mNextTransactionId
      message == [seq |-> seq, appId |-> app]
  IN  AddTransaction([s EXCEPT !.freeBlocks = Tail(@), !.block[b] = message,
                               !.sender[seq] = app, !.hasFree[seq] = hasFree],
                     app)

\* freeMessageToHost: the nanoapp's callback, then the transaction, then the
\* memory.
FreeMessageToHost(s, b) ==
  LET seq == s.block[b].seq
  IN  Deallocate(RemoveTransaction([s EXCEPT !.log[seq].freed = @ + 1],
                                   seq), b)

\* onMessageToHostCompleteInternal, in the event loop of the nanoapp.
OnMessageToHostCompleteInternal(s, b) ==
  IF s.hasFree[s.block[b].seq] THEN FreeMessageToHost(s, b)
                               ELSE Deallocate(s, b)

HandleMessageDeliveryStatusSync(s, seq, error) ==
  IF \E b \in BlocksOf(s, seq) : s.block[b].appId \in loaded
  THEN LET b == CHOOSE x \in BlocksOf(s, seq) : TRUE
       IN  [OnMessageToHostCompleteInternal(s, b) EXCEPT
              !.log[seq].results = Append(@, error)]
  ELSE s

\* The order in which MemoryPool::find visits the blocks.
BlockOrder == [i \in 1..kMaxOutstandingMessages |-> i - 1]

\* removeAllTransactionsFromNanoapp: find() is used as a loop over the
\* messages, with the pool's mutex held.
RemoveAllTransactionsFromNanoapp(s, app) ==
  LET visit(t, b) == IF b \in BlocksFrom(t, app)
                     THEN RemoveTransaction(t, t.block[b].seq) ELSE t
  IN  [FoldLeft(visit, [s EXCEPT !.poolLocked = TRUE], BlockOrder) EXCEPT
         !.poolLocked = FALSE]

FreeAllReliableMessagesFromNanoapp(s, app) ==
  LET visit(t, b) == IF b \in BlocksFrom(t, app)
                     THEN OnMessageToHostCompleteInternal(t, b) ELSE t
  IN  FoldLeft(visit, s, BlockOrder)

-----------------------------------------------------------------------------
(* Steps of the event loop's thread.                                       *)

\* A thread that re-locks a mutex it holds never goes on.
Blocked == hcm.relocked /\ ~RecursiveMutex
Idle == ~Blocked /\ scan = 0

\* chreSendReliableMessageAsync, from any handler of a nanoapp.
Send(app, hasFree) ==
  /\ Idle
  /\ CanSend(hcm, app)
  /\ hcm' = SendMessageToHost(hcm, app, hasFree)
  /\ UNCHANGED <<queue, scan, loaded, stopping, host>>

\* The deferred callback of completeTransaction.
RunStatusCallback ==
  /\ Idle
  /\ queue # <<>> /\ Head(queue).type = "ReliableMessageEvent"
  /\ queue' = Tail(queue)
  /\ UNCHANGED <<scan, loaded, stopping, host>>
  /\ hcm' = HandleMessageDeliveryStatusSync(hcm, Head(queue).seq, "NONE")

\* handleTimerExpiry up to its loop.
RunTimerCallback ==
  /\ Idle
  /\ queue # <<>> /\ Head(queue) = TimerCallback
  /\ queue' = Tail(queue)
  /\ hcm' = [hcm EXCEPT !.mTimerHandle = CHRE_TIMER_INVALID]
  /\ scan' = IF hcm.mTransactions = <<>> THEN 0 ELSE 1
  /\ UNCHANGED <<loaded, stopping, host>>

\* onTransactionFailure; the nanoapp may send another message when it is told.
OnTransactionFailure(s, txn, resend) ==
  LET failed == HandleMessageDeliveryStatusSync([s EXCEPT !.mInCallback = TRUE],
                                                txn.id, "TIMEOUT")
      told == Len(failed.log[txn.id].results) > Len(s.log[txn.id].results)
      resent == IF resend /\ told /\ CanSend(failed, txn.groupId)
                THEN SendMessageToHost(failed, txn.groupId, TRUE)
                ELSE failed
  IN  [resent EXCEPT !.mInCallback = FALSE]

\* One iteration of handleTimerExpiry for a transaction that is due: fail it
\* after the last attempt and start the next of its group, or try again.
ScanDue(resend) ==
  LET txn == hcm.mTransactions[scan]
  IN  /\ ~Blocked
      /\ scan \in DOMAIN hcm.mTransactions
      /\ txn.timeout = 0
      /\ UNCHANGED <<queue, loaded, stopping, host>>
      /\ IF txn.attemptCount + 1 > kMaxAttempts
         THEN LET gone == [hcm EXCEPT !.mTransactions = RemoveAt(@, scan)]
              IN  /\ UNCHANGED scan
                  /\ \E failed \in {OnTransactionFailure(gone, txn, resend)} :
                       hcm' = StartNextTransactionInGroup(failed, txn.groupId)
         ELSE /\ scan' = scan + 1
              /\ hcm' = OnTransactionAttempt(
                          [hcm EXCEPT !.mTransactions[scan].attemptCount = @ + 1,
                                      !.mTransactions[scan].timeout = kTimeout],
                          txn)

ScanNotDue ==
  /\ ~Blocked
  /\ scan \in DOMAIN hcm.mTransactions
  /\ hcm.mTransactions[scan].timeout > 0
  /\ scan' = scan + 1
  /\ UNCHANGED <<hcm, queue, loaded, stopping, host>>

\* The end of handleTimerExpiry.
ScanEnds ==
  /\ ~Blocked
  /\ scan > Len(hcm.mTransactions)
  /\ scan' = 0
  /\ UNCHANGED <<queue, loaded, stopping, host>>
  /\ hcm' = IF hcm.mTransactions = <<>> THEN hcm
            ELSE SetTimer(hcm, NextTimeout(hcm))

\* flushNanoappMessages, when the nanoapp is unloaded.
FlushNanoappMessages(app) ==
  LET removed == RemoveAllTransactionsFromNanoapp(hcm, app)
  IN  /\ Idle
      /\ app \in loaded /\ stopping = Nobody
      /\ IF removed.relocked /\ ~RecursiveMutex
         THEN hcm' = [hcm EXCEPT !.relocked = TRUE] /\ UNCHANGED stopping
         ELSE /\ hcm' = FreeAllReliableMessagesFromNanoapp(removed, app)
              /\ stopping' = app
      /\ UNCHANGED <<queue, scan, loaded, host>>

\* The rest of the unload, once flushInboundEventQueue has emptied the queue.
FinishUnload ==
  /\ Idle
  /\ stopping # Nobody
  /\ queue = <<>>
  /\ loaded' = loaded \ {stopping}
  /\ stopping' = Nobody
  /\ UNCHANGED <<hcm, queue, scan, host>>

-----------------------------------------------------------------------------
(* The surroundings.                                                       *)

\* A copy that reached the host may be answered, late or never; the link's
\* thread runs completeTransaction, which drops the status of a message that
\* is no longer there.
CompleteTransaction(seq) ==
  /\ ~Blocked
  /\ host[seq] < hcm.log[seq].tried
  /\ host' = [host EXCEPT ![seq] = @ + 1]
  /\ queue' = IF BlocksOf(hcm, seq) = {} THEN queue
              ELSE Append(queue, StatusCallback(seq))
  /\ UNCHANGED <<hcm, scan, loaded, stopping>>

\* The timer pool defers the callback of a system timer and forgets the timer.
TimerFires ==
  /\ \E t \in hcm.timers :
       /\ t.left = 0
       /\ hcm' = [hcm EXCEPT !.timers = @ \ {t}]
       /\ queue' = Append(queue, TimerCallback)
  /\ UNCHANGED <<scan, loaded, stopping, host>>

Closer(d) == IF d = 0 \/ d = Never THEN d ELSE d - 1

\* Time passes; handleTimerExpiry reads the clock once, before its loop.
Tick ==
  /\ scan = 0
  /\ \E t \in hcm.timers : t.left > 0
  /\ hcm' = [hcm EXCEPT
       !.timers = {[t EXCEPT !.left = Closer(@)] : t \in @},
       !.mTransactions = [i \in DOMAIN @ |->
                            [@[i] EXCEPT !.timeout = Closer(@)]]]
  /\ UNCHANGED <<queue, scan, loaded, stopping, host>>

LoopStep ==
  \/ RunStatusCallback
  \/ RunTimerCallback
  \/ \E resend \in {FALSE, ResendOnFailure} : ScanDue(resend)
  \/ ScanNotDue
  \/ ScanEnds
  \/ FinishUnload

Next ==
  \/ \E app \in Nanoapps, hasFree \in FreeCallbacks :
       Send(app, hasFree)
  \/ \E app \in Nanoapps : FlushNanoappMessages(app)
  \/ \E seq \in Seqs : CompleteTransaction(seq)
  \/ TimerFires
  \/ Tick
  \/ LoopStep

Spec == Init /\ [][Next]_vars

\* The loop runs what is queued and the scan it has begun, and time passes; the
\* host may stay silent.
FairStep == LoopStep \/ TimerFires \/ Tick

FairSpec == Spec /\ WF_vars(FairStep)

-----------------------------------------------------------------------------
(* Properties.                                                             *)

Accepted == 0..(hcm.mNextTransactionId - 1)
InPool(q) == BlocksOf(hcm, q) # {}
TransactionIds == {hcm.mTransactions[i].id : i \in DOMAIN hcm.mTransactions}

ToHostTypeOK ==
  /\ scan \in 0..kMaxOutstandingMessages + 1
  /\ loaded \subseteq Nanoapps
  /\ stopping \in loaded \cup {Nobody}
  /\ Len(hcm.mTransactions) <= kMaxOutstandingMessages
  /\ \A i \in DOMAIN hcm.mTransactions :
       hcm.mTransactions[i] \in [id : Accepted, groupId : Nanoapps,
                                 attemptCount : 0..kMaxAttempts,
                                 timeout : 0..Never]

\* Whatever retries, late statuses and duplicates of statuses occur, a nanoapp
\* gets at most one result per message, after the free callback, and no message
\* is freed twice or resurrected.
OneResult ==
  \A q \in Accepted :
    /\ Len(hcm.log[q].results) <= 1
    /\ hcm.log[q].freed <= 1
    /\ hcm.log[q].results # <<>> =>
         /\ ~InPool(q)
         /\ hcm.hasFree[q] => hcm.log[q].freed = 1

\* Only one transaction of a nanoapp is outstanding, the oldest, and there is
\* always one: no message waits behind nothing.
GroupSerialised ==
  \A i \in DOMAIN hcm.mTransactions :
    (hcm.mTransactions[i].attemptCount > 0)
      <=> (i = Least(InGroup(hcm, hcm.mTransactions[i].groupId)))

\* Whenever a transaction waits, a timer will expire no later than its timeout,
\* or its callback is already queued: no retry is forgotten.
TimerCoversTransactions ==
  \A i \in DOMAIN hcm.mTransactions :
    scan = 0 /\ hcm.mTransactions[i].timeout # Never =>
      \/ \E t \in hcm.timers : t.left <= hcm.mTransactions[i].timeout
      \/ TimerCallback \in Range(queue)

\* Every message of the pool has its transaction, so none is abandoned; and a
\* message with a free callback loses its transaction with its memory, so it is
\* not retried after its answer.
TransactionsMatchMessages ==
  scan = 0 /\ ~Blocked =>
    \A q \in Accepted :
      /\ InPool(q) => q \in TransactionIds
      /\ q \in TransactionIds /\ hcm.hasFree[q] => InPool(q)

\* At most kMaxAttempts deliveries of a message are tried, and a timeout is
\* reported only after that many.
AttemptsBounded ==
  \A q \in Accepted :
    /\ hcm.log[q].tried <= kMaxAttempts
    /\ hcm.log[q].results = <<"TIMEOUT">> => hcm.log[q].tried = kMaxAttempts

\* flushNanoappMessages leaves no message of the nanoapp behind, and runs the
\* free callback of each.
UnloadFreesMessages ==
  \A q \in Accepted :
    hcm.sender[q] \notin loaded \/ hcm.sender[q] = stopping =>
      /\ ~InPool(q)
      /\ hcm.hasFree[q] => /\ hcm.log[q].freed = 1
                           /\ q \notin TransactionIds

\* add() and remove() are never called from within a callback of the
\* TransactionManager.
NoCallFromCallback == ~hcm.misused

\* The pool's mutex is never locked by the thread that holds it.
PoolMutexNotRelocked == ~hcm.relocked

\* A message pending when its nanoapp is unloaded has been tried once.
TriedBeforeUnload ==
  \A q \in Accepted : hcm.sender[q] \notin loaded => hcm.log[q].tried > 0

\* When no timer is known to the manager, none is running.
NoStrayTimer ==
  hcm.mTimerHandle = CHRE_TIMER_INVALID => hcm.timers = {}

NoMessageUnanswered ==
  \A q \in Accepted :
    \/ hcm.log[q].results # <<>>
    \/ hcm.sender[q] \notin loaded \/ hcm.sender[q] = stopping

\* Every accepted message gets its result, or its nanoapp is unloaded.
EveryMessageAnswered == []<>NoMessageUnanswered

Service ==
  INSTANCE ReliableService WITH
    sender <- hcm.sender,
    copies <- [q \in Seqs |-> hcm.log[q].tried],
    status <- [q \in Seqs |->
      IF q >= hcm.mNextTransactionId THEN "none"
      ELSE IF hcm.log[q].results # <<>> THEN Head(hcm.log[q].results)
      ELSE IF hcm.sender[q] \notin loaded \/ hcm.sender[q] = stopping
           THEN "dropped" ELSE "pending"]

ServiceStep == [Service!Next]_(Service!vars)

\* What a nanoapp sees of its messages is what ReliableService allows.
ImplementsService == Service!Spec
=============================================================================
