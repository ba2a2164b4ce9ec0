------------------------------- MODULE ChppApp -------------------------------
(***************************************************************************)
(* The application layer of CHPP (chpp/app.c, clients.c) with the WWAN     *)
(* client and service as its users: discovery, the opening of the service, *)
(* requests with their time-outs, and what a reset of the link does to     *)
(* them.                                                                   *)
(*                                                                         *)
(* Two threads work on the client's state.  "api" is the thread of CHRE    *)
(* that calls the PAL functions of clients/wwan.c, one at a time.  "work"  *)
(* is the transport's, which receives datagrams, handles time-outs and     *)
(* resets, and opens the service again after one.  A request passes        *)
(* through the steps between which the code holds no lock: allocated       *)
(* ("request"), found ready ("ready"), timestamped ("stamped"), queued,    *)
(* and for a blocking one awaited ("waiting"), until the caller acts on    *)
(* the result ("done").                                                    *)
(*                                                                         *)
(* The transport is what ChppTransport shows it to be: each direction is   *)
(* a sequence that arrives in order, except that a reset empties both.     *)
(* Resets of both ends at once are the subject of that module.  Times are  *)
(* relative to now and are counted in ticks.                               *)
(***************************************************************************)
EXTENDS Integers, Sequences, FiniteSets, FiniteSetsExt, SequencesExt

CONSTANTS
  CHPP_REQUEST_TIMEOUT_DEFAULT,  \* in ticks
  CHPP_TIME_MAX,                 \* the time that never comes
  CHPP_TX_DATAGRAM_QUEUE_LEN,    \* requests the link holds
  MaxRequests,                   \* bound: requests allocated
  MaxResets                      \* bound: resets the service starts

VARIABLES
  client,   \* the ChppEndpointState and the ChppAppState of the client's side,
            \*   with gCallbacks and capabilitiesValid of clients/wwan.c and,
            \*   as history, the cell info requests accepted and answered
  call,     \* what each thread is at
  link,     \* datagrams up and down, the state of a reset, a pending
            \*   CHPP_TRANSPORT_SIGNAL_FORCE_RESET
  service,  \* the WWAN service: open, the transaction of getCellInfoAsync,
            \*   whether its PAL owes a result
  resets    \* resets the service has started

vars == <<client, call, link, service, resets>>

Threads == {"api", "work"}
Commands == <<"OPEN", "CLOSE", "GET_CAPABILITIES", "GET_CELLINFO_ASYNC">>
CommandSet == Range(Commands)
OpenStates == {"closed", "opening", "waiting to open", "opened"}

NoRequest == [sent |-> FALSE, id |-> 0, left |-> CHPP_TIME_MAX]
Idle == [pc |-> "idle"]

\* chppWorkThreadStart has sent the first reset.
Init ==
  /\ client = [initialized |-> FALSE, discovered |-> FALSE, open |-> "closed",
               pseudoOpen |-> FALSE, callbacks |-> FALSE,
               capabilities |-> FALSE, transaction |-> 1, ready |-> FALSE,
               next |-> CHPP_TIME_MAX, asked |-> {}, told |-> <<>>,
               req |-> [c \in CommandSet |-> NoRequest]]
  /\ call = [t \in Threads |-> Idle]
  /\ link = [up |-> <<>>, down |-> <<>>, reset |-> "client asked",
             forced |-> FALSE]
  /\ service = [open |-> FALSE, cell |-> 0, pal |-> FALSE]
  /\ resets = 0

-----------------------------------------------------------------------------
(* Requests of the client.                                                 *)

\* chppRecalculateNextTimeout, what it computes.
RecalculateNextTimeout(c) ==
  Min({CHPP_TIME_MAX} \cup {c.req[m].left : m \in {n \in CommandSet :
                                                     c.req[n].sent}})

\* chppAllocClientRequestCommand for `cmd' on thread t; `blocking' tells
\* whether chppClientSendTimestampedRequestAndWait sends it.
Alloc(t, cmd, blocking, c) ==
  /\ client' = [c EXCEPT !.transaction = @ + 1]
  /\ call' = [call EXCEPT ![t] = [pc |-> "request", cmd |-> cmd,
                                  id |-> c.transaction,
                                  blocking |-> blocking]]

\* chppClientSendOpenRequest up to the sending of the request.
SendOpenRequest(t, blocking, c) ==
  Alloc(t, "OPEN", blocking, [c EXCEPT !.open = "opening"])

At(t, pc) == call[t].pc = pc

\* CHRE may call a function of the PAL.
ApiIdle == At("api", "idle") /\ client.transaction <= MaxRequests

\* chppWwanClientOpen, until it waits for discovery.  CHRE opens a PAL once.
Open ==
  /\ ApiIdle
  /\ ~client.callbacks /\ ~client.pseudoOpen
  /\ client' = [client EXCEPT !.callbacks = TRUE]
  /\ call' = [call EXCEPT !["api"] = [pc |-> "discovering"]]
  /\ UNCHANGED <<link, service, resets>>

\* chppWaitForDiscoveryComplete returns.
DiscoveryWaited ==
  /\ At("api", "discovering")
  /\ IF client.discovered
     THEN SendOpenRequest("api", TRUE, client)
     ELSE /\ call' = [call EXCEPT !["api"] = [pc |-> "discovery missed"]]
          /\ UNCHANGED client
  /\ UNCHANGED <<link, service, resets>>

\* chppClientPseudoOpen without discovery.
PseudoOpen ==
  /\ At("api", "discovery missed")
  /\ client' = [client EXCEPT !.pseudoOpen = TRUE]
  /\ call' = [call EXCEPT !["api"] = Idle]
  /\ UNCHANGED <<link, service, resets>>

\* chppWwanClientClose, until its request is sent.
Close ==
  /\ ApiIdle
  /\ client.callbacks
  /\ Alloc("api", "CLOSE", TRUE, [client EXCEPT !.callbacks = FALSE])
  /\ UNCHANGED <<link, service, resets>>

\* chppWwanClientGetCapabilities, if the result is not cached.
GetCapabilities ==
  /\ ApiIdle
  /\ client.callbacks
  /\ ~client.capabilities
  /\ Alloc("api", "GET_CAPABILITIES", TRUE, client)
  /\ UNCHANGED <<link, service, resets>>

\* Cell info requests that were accepted and have had no result.
Unanswered == client.asked \ Range(client.told)

\* chppWwanClientGetCellInfoAsync.  CHRE has one request at a time.
GetCellInfoAsync ==
  /\ ApiIdle
  /\ client.callbacks
  /\ Unanswered = {}
  /\ Alloc("api", "GET_CELLINFO_ASYNC", FALSE, client)
  /\ UNCHANGED <<link, service, resets>>

Goto(t, pc) == [call EXCEPT ![t].pc = pc]
Done(t, result) ==
  [call EXCEPT ![t] = [pc |-> "done", cmd |-> call[t].cmd,
                        id |-> call[t].id, result |-> result]]

\* chppClientSendTimestampedRequestOrFail asks chppIsClientApiReady; a client
\* found closed has the link reset.
IsClientApiReady(t) ==
  /\ At(t, "request")
  /\ \/ /\ client.initialized
        /\ client.open \in {"opened", "opening"}
        /\ client' = [client EXCEPT !.open = IF @ = "opening"
                                             THEN "waiting to open" ELSE @]
        /\ call' = Goto(t, "ready")
        /\ UNCHANGED link
     \/ /\ ~client.initialized \/ client.open \in {"closed", "waiting to open"}
        /\ link' = [link EXCEPT !.forced =
                      @ \/ (client.initialized /\ client.open = "closed")]
        /\ call' = Done(t, FALSE)
        /\ UNCHANGED client
  /\ UNCHANGED <<service, resets>>

\* chppTimestampOutgoingRequest, under the transport's mutex, and the reset of
\* syncResponse.ready.  A request that is still there is forgotten first.
TimestampOutgoingRequest(t) ==
  /\ At(t, "ready")
  /\ LET cmd == call[t].cmd
         forgotten == [client EXCEPT !.req[cmd].left = CHPP_TIME_MAX]
         next == IF client.req[cmd].sent THEN RecalculateNextTimeout(forgotten)
                 ELSE client.next
         left == IF call[t].blocking THEN CHPP_TIME_MAX
                 ELSE CHPP_REQUEST_TIMEOUT_DEFAULT
     IN client' = [client EXCEPT
          !.req[cmd] = [sent |-> TRUE, id |-> call[t].id, left |-> left],
          !.next = Min({next, left}),
          !.ready = FALSE]
  /\ call' = Goto(t, "stamped")
  /\ UNCHANGED <<link, service, resets>>

\* chppEnqueueTxDatagramOrFail on the client's side, which is resetting from
\* the sending of a reset to the reception of its acknowledgement.
CanEnqueue ==
  /\ link.reset \notin {"client asked", "service answered"}
  /\ Len(link.up) < CHPP_TX_DATAGRAM_QUEUE_LEN

\* The end of chppSendTimestampedRequestOrFail.
EnqueueRequest(t) ==
  /\ At(t, "stamped")
  /\ IF CanEnqueue
     THEN /\ link' = [link EXCEPT !.up = Append(@,
                        [cmd |-> call[t].cmd, id |-> call[t].id])]
          /\ call' = IF call[t].blocking
                     THEN [call EXCEPT ![t] = [pc |-> "waiting",
                             cmd |-> call[t].cmd, id |-> call[t].id,
                             left |-> CHPP_REQUEST_TIMEOUT_DEFAULT]]
                     ELSE Done(t, TRUE)
          /\ UNCHANGED client
     ELSE /\ client' = [client EXCEPT !.req[call[t].cmd] = NoRequest]
          /\ call' = Done(t, FALSE)
          /\ UNCHANGED link
  /\ UNCHANGED <<service, resets>>

\* chppWaitForResponseWithTimeout returns.  If the time is up as the response
\* comes, it may still return false.
WaitForResponse ==
  /\ At("api", "waiting")
  /\ \/ /\ client.ready
        /\ \E result \in {TRUE} \cup {r \in {FALSE} : call["api"].left <= 0} :
             call' = Done("api", result)
        /\ UNCHANGED client
     \/ /\ ~client.ready
        /\ call["api"].left <= 0
        /\ client' = [client EXCEPT !.req[call["api"].cmd] = NoRequest]
        /\ call' = Done("api", FALSE)
  /\ UNCHANGED <<link, service, resets>>

\* What the caller does with the result: the end of chppClientSendOpenRequest,
\* of chppWwanClientOpen and of chppWwanClientClose.
RequestDone(t) ==
  /\ At(t, "done")
  /\ LET cmd == call[t].cmd
         result == call[t].result
         cleared == [client EXCEPT !.open = "closed", !.capabilities = FALSE,
                                   !.req = [c \in CommandSet |-> NoRequest]]
     IN client' =
          IF cmd = "OPEN"
          THEN [client EXCEPT !.open = IF result THEN @ ELSE "closed",
                              !.pseudoOpen = @ \/ t = "api"]
          ELSE IF cmd = "CLOSE" /\ result
          THEN [cleared EXCEPT
                  !.next = IF \E c \in CommandSet : client.req[c].sent
                           THEN CHPP_TIME_MAX ELSE @]
          ELSE IF cmd = "GET_CELLINFO_ASYNC" /\ result
          THEN [client EXCEPT !.asked = @ \cup {call[t].id}]
          ELSE client
  /\ call' = [call EXCEPT ![t] = Idle]
  /\ UNCHANGED <<link, service, resets>>

-----------------------------------------------------------------------------
(* Responses, time-outs and resets, on the work thread.                    *)

\* chppProcessNegotiatedHandleDatagram finds the client open and
\* chppDispatchWwanResponse accepts the response: there are callbacks, and
\* chppTimestampIncomingResponse knows the request.
Accepts(c, m) ==
  /\ c.open # "closed"
  /\ c.callbacks
  /\ c.req[m.cmd].sent
  /\ c.req[m.cmd].id = m.id

Ended(c, cmd) == [c EXCEPT !.req[cmd] = NoRequest]

\* The time that chppTimestampIncomingResponse leaves in
\* nextClientRequestTimeoutNs: computed anew if this request was the next.
NextAfter(c, cmd) ==
  IF c.req[cmd].left = c.next THEN RecalculateNextTimeout(Ended(c, cmd))
  ELSE c.next

\* chppClientProcessOpenResponse, chppWwanGetCapabilitiesResult,
\* chppWwanGetCellInfoAsyncResult and the notification of a waiting caller.
Result(c, m) ==
  [c EXCEPT
     !.open = IF m.cmd # "OPEN" THEN @ ELSE IF m.ok THEN "opened" ELSE "closed",
     !.capabilities = @ \/ (m.cmd = "GET_CAPABILITIES" /\ m.ok),
     !.told = IF m.cmd = "GET_CELLINFO_ASYNC" /\ c.callbacks
              THEN Append(@, m.id) ELSE @,
     !.ready = TRUE]

\* chppAppProcessRxDatagram for a response, the work thread being free.  No
\* lock is held: chppTimestampIncomingResponse reads the requests to compute
\* the next time-out in this step, and writes it in the next.
ProcessResponse(m) ==
  IF Accepts(client, m)
  THEN /\ client' = Ended(client, m.cmd)
       /\ call' = [call EXCEPT !["work"] =
                     [pc |-> "response", m |-> m,
                      recalculated |-> client.req[m.cmd].left = client.next,
                      next |-> NextAfter(client, m.cmd)]]
  ELSE UNCHANGED <<client, call>>

ResponseProcessed ==
  /\ At("work", "response")
  /\ LET w == call["work"]
     IN client' = [Result(client, w.m) EXCEPT
                     !.next = IF w.recalculated THEN w.next ELSE @]
  /\ call' = [call EXCEPT !["work"] = Idle]
  /\ UNCHANGED <<link, service, resets>>

\* A response arrives.
ReceiveResponse ==
  /\ At("work", "idle")
  /\ link.reset = "none"
  /\ link.down # <<>>
  /\ Head(link.down).cmd # "DISCOVER_ALL"
  /\ link' = [link EXCEPT !.down = Tail(@)]
  /\ ProcessResponse(Head(link.down))
  /\ UNCHANGED <<service, resets>>

\* chppWorkHandleTimeout and chppTransportGetRequestTimeoutResponse: the first
\* of the requests that have a time-out is answered with an error.
RequestTimeout ==
  /\ At("work", "idle")
  /\ client.next <= 0
  /\ LET waiting == {c \in CommandSet : /\ client.req[c].sent
                                        /\ client.req[c].left < CHPP_TIME_MAX}
         first == {c \in waiting : \A d \in waiting :
                                     client.req[c].left <= client.req[d].left}
     IN IF waiting = {}
        THEN /\ client' = [client EXCEPT !.next = RecalculateNextTimeout(client)]
             /\ UNCHANGED call
        ELSE LET cmd == Head(SelectSeq(Commands, LAMBDA c : c \in first))
             IN ProcessResponse([cmd |-> cmd, id |-> client.req[cmd].id,
                                 ok |-> FALSE])
  /\ UNCHANGED <<link, service, resets>>

\* chppProcessDiscoverAllResponse, until the clients are told of the match.
ReceiveDiscovery ==
  /\ At("work", "idle")
  /\ link.reset = "none"
  /\ link.down # <<>>
  /\ Head(link.down).cmd = "DISCOVER_ALL"
  /\ link' = [link EXCEPT !.down = Tail(@)]
  /\ IF client.discovered
     THEN UNCHANGED <<client, call>>
     ELSE /\ client' = [client EXCEPT !.initialized = TRUE, !.discovered = TRUE]
          /\ call' = [call EXCEPT !["work"] = [pc |-> "matched"]]
  /\ UNCHANGED <<service, resets>>

\* chppWwanClientNotifyMatch
NotifyMatch ==
  /\ At("work", "matched")
  /\ IF client.pseudoOpen
     THEN SendOpenRequest("work", FALSE, client)
     ELSE /\ call' = [call EXCEPT !["work"] = Idle]
          /\ UNCHANGED client
  /\ UNCHANGED <<link, service, resets>>

\* chppCloseOpenRequests with a response for each open request, in the order
\* of the commands: one that closes the client has the later ones refused.
\* The other thread has one request at most, so the loop is one step.
CloseOpenRequests(c) ==
  FoldLeft(LAMBDA d, cmd :
             LET m == [cmd |-> cmd, id |-> d.req[cmd].id, ok |-> FALSE]
             IN IF d.req[cmd].sent /\ Accepts(d, m)
                THEN Result([Ended(d, cmd) EXCEPT !.next = NextAfter(d, cmd)], m)
                ELSE d,
           c, Commands)

\* chppAppProcessReset on the client's side: discovery, or
\* chppWwanClientNotifyReset, whose last recalculation is written in a step of
\* its own.  `l' is the link after the reset.
ProcessReset(l) ==
  IF ~client.discovered
  THEN /\ link' = [l EXCEPT !.up = Append(@, [cmd |-> "DISCOVER_ALL", id |-> 0])]
       /\ UNCHANGED <<client, call>>
  ELSE /\ link' = l
       /\ client' = CloseOpenRequests(client)
       /\ call' = [call EXCEPT !["work"] =
                     [pc |-> "closed",
                      recalculated |-> \E c \in CommandSet : client.req[c].sent,
                      next |-> RecalculateNextTimeout(client')]]

\* chppWwanClientNotifyReset opens the service again.
Reopen ==
  /\ At("work", "closed")
  /\ LET w == call["work"]
     IN SendOpenRequest("work", FALSE,
          [client EXCEPT !.next = IF w.recalculated THEN w.next ELSE @])
  /\ UNCHANGED <<link, service, resets>>

-----------------------------------------------------------------------------
(* The link and the service.                                               *)

\* chppReset at the client, as chppTransportForceReset asked.
ForceReset ==
  /\ At("work", "idle")
  /\ link.forced
  /\ link.reset \in {"none", "client asked"}
  /\ link' = [up |-> <<>>, down |-> <<>>, reset |-> "client asked",
              forced |-> FALSE]
  /\ UNCHANGED <<client, call, service, resets>>

Closed == [service EXCEPT !.open = FALSE, !.pal = FALSE]

\* The service answers the client's reset: chppWwanServiceNotifyReset.
ServiceResets ==
  /\ link.reset = "client asked"
  /\ link' = [link EXCEPT !.reset = "service answered"]
  /\ service' = Closed
  /\ UNCHANGED <<client, call, resets>>

\* chppProcessResetAck at the client.
ReceiveResetAck ==
  /\ At("work", "idle")
  /\ link.reset = "service answered"
  /\ ProcessReset([link EXCEPT !.reset = "none"])
  /\ UNCHANGED <<service, resets>>

\* The service's end resets the link.
ServiceAsksReset ==
  /\ link.reset = "none"
  /\ resets < MaxResets
  /\ resets' = resets + 1
  /\ link' = [link EXCEPT !.reset = "service asked", !.down = <<>>]
  /\ UNCHANGED <<client, call, service>>

\* chppReset at the client, which acknowledges: what it had queued is lost.
ReceiveReset ==
  /\ At("work", "idle")
  /\ link.reset = "service asked"
  /\ ProcessReset([link EXCEPT !.reset = "client answered", !.up = <<>>])
  /\ UNCHANGED <<service, resets>>

\* The service's end has the acknowledgement.
ServiceHasAck ==
  /\ link.reset = "client answered"
  /\ link' = [link EXCEPT !.reset = "none"]
  /\ service' = Closed
  /\ UNCHANGED <<client, call, resets>>

\* What the service sends while the link resets, or more than its queue holds,
\* does not arrive.
Sent(m, ok) ==
  IF \/ link.reset \in {"client asked", "service asked", "client answered"}
     \/ Len(link.down) >= CHPP_TX_DATAGRAM_QUEUE_LEN
  THEN link
  ELSE [link EXCEPT !.down = Append(@, [cmd |-> m.cmd, id |-> m.id, ok |-> ok])]

\* chppDispatchWwanRequest and the discovery service.  The PAL may refuse to
\* open or to ask for cell info, and does if it is closed or busy.
ServiceReceives ==
  /\ link.reset = "none"
  /\ link.up # <<>>
  /\ LET m == Head(link.up)
         Reply(ok) == link' = [Sent(m, ok) EXCEPT !.up = Tail(@)]
     IN \/ m.cmd \in {"DISCOVER_ALL", "GET_CAPABILITIES"}
           /\ Reply(TRUE) /\ UNCHANGED service
        \/ m.cmd = "OPEN" /\ Reply(FALSE) /\ UNCHANGED service
        \/ m.cmd = "OPEN" /\ ~service.open /\ Reply(TRUE)
           /\ service' = [service EXCEPT !.open = TRUE]
        \/ m.cmd = "CLOSE" /\ Reply(TRUE) /\ service' = Closed
        \/ m.cmd = "GET_CELLINFO_ASYNC" /\ service.open /\ ~service.pal
           /\ link' = [link EXCEPT !.up = Tail(@)]
           /\ service' = [service EXCEPT !.cell = m.id, !.pal = TRUE]
        \/ m.cmd = "GET_CELLINFO_ASYNC" /\ Reply(FALSE)
           /\ service' = [service EXCEPT !.cell = m.id]
  /\ UNCHANGED <<client, call, resets>>

\* chppWwanServiceCellInfoResultCallback: the response has the transaction of
\* the latest request.
PalAnswers ==
  /\ service.pal
  /\ service' = [service EXCEPT !.pal = FALSE]
  /\ link' = Sent([cmd |-> "GET_CELLINFO_ASYNC", id |-> service.cell], TRUE)
  /\ UNCHANGED <<client, call, resets>>

\* Time passes, as long as there is something that it brings nearer.
Left(n) == IF n = CHPP_TIME_MAX THEN n ELSE n - 1
Pending(n) == n > 0 /\ n < CHPP_TIME_MAX

Tick ==
  /\ \/ Pending(client.next)
     \/ \E c \in CommandSet : Pending(client.req[c].left)
     \/ At("api", "waiting") /\ Pending(call["api"].left)
  /\ client' = [client EXCEPT
       !.next = Left(@),
       !.req = [c \in CommandSet |-> [@[c] EXCEPT !.left = Left(@)]]]
  /\ call' = [t \in Threads |->
       IF At(t, "waiting") THEN [call[t] EXCEPT !.left = @ - 1]
       ELSE IF At(t, "response") \/ At(t, "closed")
       THEN [call[t] EXCEPT !.next = Left(@)] ELSE call[t]]
  /\ UNCHANGED <<link, service, resets>>

-----------------------------------------------------------------------------
Api ==
  Open \/ DiscoveryWaited \/ PseudoOpen \/ Close \/ GetCapabilities
    \/ GetCellInfoAsync \/ WaitForResponse

Work ==
  \/ ReceiveResponse \/ ResponseProcessed \/ RequestTimeout
  \/ ReceiveDiscovery \/ NotifyMatch \/ Reopen
  \/ ForceReset \/ ReceiveResetAck \/ ReceiveReset

Requests ==
  \E t \in Threads : \/ IsClientApiReady(t) \/ TimestampOutgoingRequest(t)
                     \/ EnqueueRequest(t) \/ RequestDone(t)

Service ==
  ServiceResets \/ ServiceHasAck \/ ServiceReceives \/ PalAnswers

Next == Api \/ Work \/ Requests \/ Service \/ ServiceAsksReset \/ Tick

Spec == Init /\ [][Next]_vars

\* What CHRE does not decide: both threads go on with what they began, the
\* link and the service's PAL answer, and time passes.
FairStep ==
  \/ DiscoveryWaited \/ PseudoOpen \/ WaitForResponse
  \/ Work \/ Requests \/ Service \/ Tick

FairSpec == Spec /\ WF_vars(FairStep)

-----------------------------------------------------------------------------
(* Properties.                                                             *)

RequestType == [sent : BOOLEAN, id : Nat, left : Int]

\* Type correctness of the request table, the times and the reset handshake.
ChppAppTypeOK ==
  /\ client.open \in OpenStates
  /\ \A c \in CommandSet : client.req[c] \in RequestType
  /\ client.next \in Int
  /\ service.cell \in Nat
  /\ link.reset \in {"none", "client asked", "service answered",
                     "service asked", "client answered"}

\* chppWwanGetCellInfoAsyncResult gives the callback of CHRE at most one result
\* for each request, although a response, its time-out and a reset may all
\* answer it: chppTimestampIncomingResponse lets the first one through.
CellInfoToldOnce ==
  \A i, j \in DOMAIN client.told : client.told[i] = client.told[j] => i = j

\* A client that chppClientProcessOpenResponse has opened has an open service:
\* no response from before a reset opens a client whose service the reset has
\* closed.  While a call, an OPEN or a reset is under way they may differ.
OpenedTogether ==
  (/\ client.open = "opened"
   /\ client.callbacks
   /\ \A t \in Threads : At(t, "idle")
   /\ ~client.req["OPEN"].sent
   /\ link.reset = "none")
  => service.open

\* No cell info request waits, unless its client was closed meanwhile (by a
\* failed opening or by chppWwanClientClose): nothing answers it then.
NoCellInfoWaits ==
  Unanswered # {} => client.open = "closed" \/ ~client.callbacks

\* The client is not about to be opened.
NoOpeningWaits ==
  client.callbacks => client.open \notin {"opening", "waiting to open"}

\* Every cell info request that GetCellInfoAsync accepted is answered, by the
\* service, a time-out or a reset, or its client is closed.
EveryCellInfoComes == []<>NoCellInfoWaits

\* Every opening succeeds or fails, and no client is left half open, whatever
\* requests of CHRE and resets cross the reopening on the work thread.
EveryOpeningEnds == []<>NoOpeningWaits

\* nextClientRequestTimeoutNs is not later than the time-out of any request.
\* Not so: the work thread computes it without the mutex under which
\* chppTimestampOutgoingRequest lowers it, and may overwrite the lower value.
NextTimeoutIsFirst ==
  (~At("work", "response") /\ ~At("work", "closed"))
    => \A c \in CommandSet :
         client.req[c].sent => client.next <= client.req[c].left
==============================================================================
