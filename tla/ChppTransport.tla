---------------------------- MODULE ChppTransport ----------------------------
(***************************************************************************)
(* chpp/transport.c: two endpoints exchange datagrams, cut into packets,   *)
(* over a link that may lose or corrupt packets.  At most one payload is   *)
(* outstanding per direction; resets re-synchronise the endpoints.         *)
(*                                                                         *)
(* ctx[n] is the ChppTransportState of the endpoint n, and the functions   *)
(* of the code are operators from contexts to contexts.  At an endpoint    *)
(* run the link's receive callback, the work thread and the app layer's    *)
(* threads; the context's mutex makes each of their steps atomic, and it   *)
(* is released while the app layer processes a received datagram.          *)
(***************************************************************************)
EXTENDS Integers, Sequences, FiniteSets, SequencesExt

CONSTANTS
  Endpoints,
  SeqNumbers,                    \* number of sequence numbers (256)
  CHPP_TRANSPORT_MAX_RETX, CHPP_TRANSPORT_MAX_RESET,
  CHPP_TX_DATAGRAM_QUEUE_LEN,
  Lengths,                   \* datagram lengths per endpoint, in MTUs
  DiscoveryClients,          \* endpoints built with the discovery client
  ShortOfMemory,             \* endpoints whose allocations may fail
  ResetDuringRx,             \* whether the work thread may reset while the
                             \* app layer processes a datagram
  TroubleDuringReset,        \* whether trouble may hit a reset
  MaxDatagrams,              \* bound: datagrams sent, per endpoint
  MaxWire,                   \* bound: packets in flight to an endpoint
  MaxTroubles,               \* bound: packets lost or damaged, restarts,
                             \* forced resets, failing allocations, errors of
                             \* the app layer
  Null

Peer(n) == CHOOSE m \in Endpoints : m # n

ASSUME TransportAssumption ==
  /\ Cardinality(Endpoints) = 2
  /\ SeqNumbers \in Nat /\ SeqNumbers > 1
  /\ CHPP_TRANSPORT_MAX_RETX \in Nat
  /\ CHPP_TRANSPORT_MAX_RESET \in Nat \ {0}
  /\ CHPP_TX_DATAGRAM_QUEUE_LEN \in Nat \ {0}
  /\ \A n \in Endpoints : Lengths[n] \subseteq Nat \ {0}
  /\ DiscoveryClients \union ShortOfMemory \subseteq Endpoints
  /\ {ResetDuringRx, TroubleDuringReset} \subseteq BOOLEAN

VARIABLES
  ctx,
  wire,                      \* the packets travelling to each endpoint
  troubles,                  \* how many have happened
  sent,                      \* datagrams accepted so far, per endpoint
  delivered,                 \* ghost: what each app layer received
  acked                      \* ghost: the datagrams dequeued after an ACK

vars == <<ctx, wire, troubles, sent, delivered, acked>>

Seqs == 0..SeqNumbers - 1

\* uint8_t arithmetic.
Inc(s) == (s + 1) % SeqNumbers
Dec(s) == (s - 1) % SeqNumbers

\* A packet code: the attribute, and whether an error is reported.
Code(attr, error) == [attr |-> attr, error |-> error]
NoCode == Code("NONE", FALSE)

Datagram(id, length) == [id |-> id, length |-> length]

\* The ChppTransportConfiguration that resets carry.
Config == Datagram(0, 1)

\* The discovery request fits in a packet.
DiscoveryRequest(id) == Datagram(id, 1)

\* The k-th packet's worth of a datagram.
Fragment(d, k) == [id |-> d.id, k |-> k, last |-> k = d.length]

Packet(attr, seq, ackSeq, payload) ==
  [attr |-> attr, seq |-> seq, ackSeq |-> ackSeq, payload |-> payload]

-----------------------------------------------------------------------------
(* Functions of the code on a context.                                     *)

EnqueueTxPacket(c, code) ==
  [c EXCEPT !.packetCodeToSend = code, !.signalEvent = TRUE]

HavePendingTxPayload(c) == c.txDatagramQueue # <<>>

EnqueueTxDatagram(c, code, d) ==
  IF Len(c.txDatagramQueue) >= CHPP_TX_DATAGRAM_QUEUE_LEN
  THEN c
  ELSE LET new == [c EXCEPT !.txDatagramQueue = Append(@, d)]
       IN  IF HavePendingTxPayload(c) THEN new ELSE EnqueueTxPacket(new, code)

\* Mutant: the reset is never marked complete.
SetResetCompleteNot(c) == [c EXCEPT !.resetCount = 0]

SetResetComplete(c) == [c EXCEPT !.resetState = "NONE", !.resetCount = 0]

\* Without memory for the configuration it does nothing.
SendReset(c, type, error) ==
  IF c.outOfMemory
  THEN [c EXCEPT !.outOfMemory = FALSE]
  ELSE EnqueueTxDatagram(IF type = "RESET_ACK" THEN SetResetComplete(c) ELSE c,
                         Code(type, error), Config)

\* chppAppProcessReset: if discovery is not complete, it is time to send the
\* discovery request (InitiateDiscovery).  The app layer's clients and services
\* may send datagrams from their notifiers (EnqueueTxDatagramOrFail).
AppProcessReset(c) ==
  [c EXCEPT !.discovery = IF @ = "incomplete" THEN "due" ELSE @]

\* A zeroed context that keeps what chppResetTransportContext keeps.
ResetTransportContext(c) ==
  [c EXCEPT !.resetState = "RESETTING", !.expectedSeq = 0,
            !.receivedAckSeq = 0, !.rxDatagram = <<>>, !.sentAckSeq = 0,
            !.packetCodeToSend = NoCode, !.txAttempts = 0,
            !.ackedLocInDatagram = 0, !.linkBusy = FALSE,
            !.txDatagramQueue = <<>>]

\* Mutant: the receive sequence number is not restored after the wipe.
ResetNoSeq(c, type, error) ==
  LET new == SendReset(ResetTransportContext(c), type, error)
  IN  IF type = "RESET_ACK" THEN AppProcessReset(new) ELSE new

Reset(c, type, error) ==
  LET new == SendReset(
               [ResetTransportContext(c) EXCEPT !.expectedSeq = Inc(c.rxSeq)],
               type, error)
  IN  IF type = "RESET_ACK" THEN AppProcessReset(new) ELSE new

\* chppTransportInit, and the reset with which chppWorkThreadStart begins.  An
\* endpoint without the discovery client behaves as if discovery was complete.
Started(n, outOfMemory) ==
  SendReset([resetState |-> "RESETTING", resetCount |-> 0, rxSeq |-> 0,
             expectedSeq |-> 0, receivedAckSeq |-> 0, rxDatagram |-> <<>>,
             sentAckSeq |-> 0, packetCodeToSend |-> NoCode, txAttempts |-> 0,
             ackedLocInDatagram |-> 0, linkBusy |-> FALSE,
             txDatagramQueue |-> <<>>, signalEvent |-> FALSE,
             signalForceReset |-> FALSE, inApp |-> FALSE,
             discovery |-> IF n \in DiscoveryClients
                           THEN "incomplete" ELSE "complete",
             outOfMemory |-> outOfMemory],
            "RESET", FALSE)

\* Mutant: any other ACK will do.
GotExpectedAckAny(c, ackSeq) == ackSeq # c.receivedAckSeq

GotExpectedAck(c, ackSeq) == ackSeq = Inc(c.receivedAckSeq)

\* The ACK completes the datagram at the front (an empty queue has length 0).
AckCompletes(c) ==
  HavePendingTxPayload(c)
    => c.ackedLocInDatagram + 1 >= Head(c.txDatagramQueue).length

RegisterRxAck(c, ackSeq) ==
  IF ~GotExpectedAck(c, ackSeq)
  THEN c
  ELSE LET new == [c EXCEPT !.receivedAckSeq = ackSeq, !.txAttempts = 0]
       IN  IF AckCompletes(c)
           THEN [new EXCEPT !.ackedLocInDatagram = 0,
                   !.txDatagramQueue =
                     IF HavePendingTxPayload(c) THEN Tail(@) ELSE @]
           ELSE [new EXCEPT !.ackedLocInDatagram = @ + 1]

ShouldAttachPayload(c, resendPayload) ==
  HavePendingTxPayload(c) /\ (c.txAttempts = 0 \/ resendPayload)

ShouldSendPossiblyEmptyPacket(c) ==
  c.expectedSeq # c.sentAckSeq \/ c.packetCodeToSend # NoCode

\* What a step of the work thread makes of a context, and what it sends.
Result(c, packets) == [ctx |-> c, packets |-> packets]

\* AddHeader clears the error of packetCodeToSend and keeps its attribute.
AddHeader(c) ==
  [c EXCEPT !.packetCodeToSend.error = FALSE, !.sentAckSeq = c.expectedSeq]

\* Mutant: retransmits without limit.
TransportDoWorkNoLimit(c, resendPayload) ==
  LET sendPayload == ShouldAttachPayload(c, resendPayload)
      busy        == [AddHeader(c) EXCEPT !.linkBusy = TRUE]
      packet(seq, payload) ==
        <<Packet(c.packetCodeToSend.attr, seq, c.expectedSeq, payload)>>
  IN  IF c.linkBusy \/ ~(sendPayload \/ ShouldSendPossiblyEmptyPacket(c))
      THEN Result(c, <<>>)
      ELSE IF ~sendPayload
      THEN Result(busy, packet(0, Null))
      ELSE Result([busy EXCEPT !.txAttempts =
                     IF @ > CHPP_TRANSPORT_MAX_RETX THEN @ ELSE @ + 1],
                  packet(c.receivedAckSeq,
                         Fragment(Head(c.txDatagramQueue),
                                  c.ackedLocInDatagram + 1)))

TransportDoWork(c, resendPayload) ==
  LET sendPayload == ShouldAttachPayload(c, resendPayload)
      busy        == [AddHeader(c) EXCEPT !.linkBusy = TRUE]
      packet(seq, payload) ==
        <<Packet(c.packetCodeToSend.attr, seq, c.expectedSeq, payload)>>
  IN  IF c.linkBusy \/ ~(sendPayload \/ ShouldSendPossiblyEmptyPacket(c))
      THEN Result(c, <<>>)
      ELSE IF ~sendPayload
      THEN Result(busy, packet(0, Null))
      ELSE IF /\ c.txAttempts > CHPP_TRANSPORT_MAX_RETX
              /\ c.resetState # "RESETTING"
      THEN Result(Reset(c, "RESET", TRUE), <<>>)
      ELSE Result([busy EXCEPT !.txAttempts = @ + 1],
                  packet(c.receivedAckSeq,
                         Fragment(Head(c.txDatagramQueue),
                                  c.ackedLocInDatagram + 1)))

\* Mutant: one attempt too many.
ResetTimeoutOneMore(c) ==
  IF c.resetCount < CHPP_TRANSPORT_MAX_RESET
  THEN Reset([c EXCEPT !.resetCount = @ + 1], "RESET", TRUE)
  ELSE [c EXCEPT !.txAttempts = 0, !.resetState = "PERMANENT_FAILURE",
                 !.txDatagramQueue = <<>>, !.packetCodeToSend = NoCode]

ResetTimeout(c) ==
  IF c.resetCount + 1 < CHPP_TRANSPORT_MAX_RESET
  THEN Reset([c EXCEPT !.resetCount = @ + 1], "RESET", TRUE)
  ELSE [c EXCEPT !.txAttempts = 0, !.resetState = "PERMANENT_FAILURE",
                 !.txDatagramQueue = <<>>, !.packetCodeToSend = NoCode]

ProcessResetAck(c, p) ==
  IF c.resetState = "NONE"
  THEN [c EXCEPT !.rxDatagram = <<>>]
  ELSE LET new == RegisterRxAck(
                    [SetResetComplete(c) EXCEPT !.expectedSeq = Inc(p.seq),
                                                !.rxDatagram = <<>>],
                    p.ackSeq)
       IN  AppProcessReset(IF c.discovery = "complete"
                           THEN EnqueueTxPacket(new, NoCode) ELSE new)

\* The comparison that finds a duplicate is on ints, without wrap-around.
IsDuplicate(c, p) == p.payload # Null /\ p.seq = c.expectedSeq - 1

\* Mutant: a retransmission counts as in order.
IsOutOfOrderNotDuplicate(c, p) ==
  p.payload # Null /\ p.seq # c.expectedSeq /\ ~IsDuplicate(c, p)

IsOutOfOrder(c, p) == p.payload # Null /\ p.seq # c.expectedSeq

\* The payload of an accepted packet; the end of a datagram goes to the app
\* layer, and only then is the ACK enqueued (RxDatagramProcessed).
ProcessRxPayload(c, p) ==
  LET new == [c EXCEPT !.expectedSeq = Inc(@),
                       !.rxDatagram = Append(@, p.payload)]
  IN  IF p.payload.last
      THEN [new EXCEPT !.inApp = TRUE]
      ELSE EnqueueTxPacket(new, NoCode)

ProcessRxPacket(c, p) ==
  LET registered == RegisterRxAck(c, p.ackSeq)
      answers == \/ GotExpectedAck(c, p.ackSeq)
                    /\ HavePendingTxPayload(registered)
                 \/ IsOutOfOrder(c, p)
      answered ==
        EnqueueTxPacket(
          IF IsDuplicate(c, p)
          THEN [registered EXCEPT !.sentAckSeq = Dec(@)] ELSE registered,
          Code("NONE", IsOutOfOrder(c, p) /\ ~IsDuplicate(c, p)))
      processed == IF answers THEN answered ELSE registered
  IN  IF p.payload = Null \/ IsOutOfOrder(c, p)
      THEN processed
      ELSE ProcessRxPayload(processed, p)

\* A packet with a correct checksum.
ConsumeFooter(c, p) ==
  IF p.attr = "RESET" THEN Reset(c, "RESET_ACK", FALSE)
  ELSE IF c.resetState = "PERMANENT_FAILURE" THEN c
  ELSE IF p.attr = "RESET_ACK" THEN ProcessResetAck(c, p)
  ELSE IF c.resetState = "RESETTING" THEN c
  ELSE ProcessRxPacket(c, p)

-----------------------------------------------------------------------------
Init ==
  /\ \E failing \in {S \in SUBSET ShortOfMemory : Cardinality(S) <= MaxTroubles} :
       /\ ctx = [n \in Endpoints |-> Started(n, n \in failing)]
       /\ troubles = Cardinality(failing)
  /\ wire = [n \in Endpoints |-> <<>>]
  /\ sent = [n \in Endpoints |-> 0]
  /\ delivered = [n \in Endpoints |-> <<>>]
  /\ acked = [n \in Endpoints |-> {}]

\* The id of a reassembled datagram; -1 if its pieces do not fit together.
Reassembled(fragments) ==
  IF \A k \in DOMAIN fragments :
       fragments[k] = [id |-> fragments[1].id, k |-> k,
                       last |-> k = Len(fragments)]
  THEN fragments[1].id
  ELSE -1

\* The receive callback is not in the app layer.
ReceiverFree(n) == ~ctx[n].inApp /\ ctx[n].discovery # "due"

\* The receive callback takes the next packet.
Receive(n) ==
  LET p   == Head(wire[n])
      old == [ctx[n] EXCEPT !.rxSeq = p.seq]
      new == ConsumeFooter(old, p)
  IN  /\ wire[n] # <<>> /\ ReceiverFree(n)
      /\ wire' = [wire EXCEPT ![n] = Tail(@)]
      /\ ctx' = [ctx EXCEPT ![n] = new]
      /\ delivered' = IF new.inApp
                      THEN [delivered EXCEPT
                              ![n] = Append(@, Reassembled(new.rxDatagram))]
                      ELSE delivered
      /\ acked' = IF /\ p.attr # "RESET" /\ HavePendingTxPayload(old)
                     /\ ctx[Peer(n)].resetState = "NONE"
                     /\ new.txDatagramQueue = Tail(old.txDatagramQueue)
                  THEN [acked EXCEPT
                          ![n] = @ \union {Head(old.txDatagramQueue).id}]
                  ELSE acked
      /\ UNCHANGED <<troubles, sent>>

\* The app layer has processed the datagram it was given.  The first one is the
\* answer to the discovery request.
RxDatagramProcessed(n) ==
  /\ ctx[n].inApp
  /\ ctx' = [ctx EXCEPT
       ![n] = EnqueueTxPacket([@ EXCEPT !.inApp = FALSE, !.rxDatagram = <<>>,
                                        !.discovery = "complete"],
                              NoCode)]
  /\ UNCHANGED <<wire, troubles, sent, delivered, acked>>

\* chppInitiateDiscovery sends the request, unless another reset has begun.
InitiateDiscovery(n) ==
  LET c      == [ctx[n] EXCEPT !.discovery = "incomplete"]
      refuse == \/ c.resetState = "RESETTING"
                \/ Len(c.txDatagramQueue) >= CHPP_TX_DATAGRAM_QUEUE_LEN
  IN  /\ ctx[n].discovery = "due"
      /\ refuse \/ sent[n] < MaxDatagrams[n]
      /\ ctx' = [ctx EXCEPT ![n] =
           IF refuse THEN c
           ELSE EnqueueTxDatagram(c, NoCode, DiscoveryRequest(sent[n] + 1))]
      /\ sent' = IF refuse THEN sent ELSE [sent EXCEPT ![n] = @ + 1]
      /\ UNCHANGED <<wire, troubles, delivered, acked>>

\* The link loses a packet.
Lose(n) ==
  /\ wire[n] # <<>> /\ troubles < MaxTroubles
  /\ wire' = [wire EXCEPT ![n] = Tail(@)]
  /\ troubles' = troubles + 1
  /\ UNCHANGED <<ctx, sent, delivered, acked>>

\* The reset or reset-ACK that the endpoint sends is not acknowledged yet.
ResetUnderway(c) ==
  HavePendingTxPayload(c) /\ Head(c.txDatagramQueue) = Config

\* No reset is underway, and no packet of an earlier one is in flight.
ResetsSettled ==
  \A n \in Endpoints :
    /\ ~ResetUnderway(ctx[n])
    /\ ctx[n].signalEvent => ctx[n].packetCodeToSend.attr = "NONE"
    /\ \A i \in DOMAIN wire[n] : wire[n][i].attr = "NONE"

\* A packet arrives damaged (checksum, length, truncation, a gap longer than
\* the receive timeout) or cannot be stored, and is answered by a NACK.
ReceiveDamaged(n) ==
  /\ wire[n] # <<>> /\ ReceiverFree(n) /\ troubles < MaxTroubles
  /\ ResetsSettled \/ TroubleDuringReset
  /\ wire' = [wire EXCEPT ![n] = Tail(@)]
  /\ \E seq \in Seqs :
       ctx' = [ctx EXCEPT ![n] = EnqueueTxPacket([@ EXCEPT !.rxSeq = seq],
                                                 Code("NONE", TRUE))]
  /\ troubles' = troubles + 1
  /\ UNCHANGED <<sent, delivered, acked>>

LinkQuiet == \A n \in Endpoints : wire[n] = <<>>

\* The work thread's step leaves the context result.ctx and sends the packets.
\* A datagram is only processed outside of resets, so RESETTING means here that
\* a reset started meanwhile.
Sends(n, result) ==
  /\ ctx[n].inApp /\ result.ctx.resetState = "RESETTING" => ResetDuringRx
  /\ Len(wire[Peer(n)]) + Len(result.packets) <= MaxWire
  /\ ctx' = [ctx EXCEPT ![n] = result.ctx]
  /\ wire' = [wire EXCEPT ![Peer(n)] = @ \o result.packets]

\* chppWorkThreadHandleSignal with a signal.
WorkHandleSignal(n) ==
  LET c     == ctx[n]
      taken == [c EXCEPT !.signalEvent = FALSE, !.signalForceReset = FALSE]
      reset == IF c.signalForceReset THEN Reset(taken, "RESET", TRUE)
               ELSE taken
  IN  /\ c.signalEvent \/ c.signalForceReset
      /\ Sends(n, IF c.signalEvent THEN TransportDoWork(reset, FALSE)
                  ELSE Result(reset, <<>>))
      /\ UNCHANGED <<troubles, sent, delivered, acked>>

\* chppWorkThreadHandleSignal without one: some timeouts have expired.  The
\* reset timeout is CHPP_TRANSPORT_MAX_RETX + 1 transmit timeouts, and a packet
\* travels for less than one: nothing is in flight when they expire.  (A packet
\* sent since the endpoint's last transmission may be, but then the timeout and
\* the sending could have happened in the other order.)
WorkHandleTimeout(n) ==
  LET c == ctx[n] IN
  /\ ~c.signalEvent /\ ~c.signalForceReset
  /\ LinkQuiet
  /\ \E isTxTimeout, isResetTimeout \in BOOLEAN :
       /\ isTxTimeout \/ isResetTimeout
       /\ isTxTimeout => HavePendingTxPayload(c)
       /\ isResetTimeout => c.resetState = "RESETTING"
       /\ isTxTimeout /\ c.resetState = "RESETTING" /\ ~isResetTimeout
            => c.txAttempts <= CHPP_TRANSPORT_MAX_RETX
       /\ LET work == IF isTxTimeout THEN TransportDoWork(c, TRUE)
                      ELSE Result(c, <<>>)
          IN  Sends(n, IF isResetTimeout
                       THEN Result(ResetTimeout(work.ctx), work.packets)
                       ELSE work)
  /\ UNCHANGED <<troubles, sent, delivered, acked>>

\* The link has sent the packet it was given.
LinkSendDoneCb(n) ==
  /\ ctx[n].linkBusy
  /\ ctx' = [ctx EXCEPT ![n].linkBusy = FALSE]
  /\ UNCHANGED <<wire, troubles, sent, delivered, acked>>

\* The app layer sends a datagram: refused while resetting or with a full
\* queue (no change then).
EnqueueTxDatagramOrFail(n) ==
  /\ sent[n] < MaxDatagrams[n]
  /\ ctx[n].resetState # "RESETTING"
  /\ Len(ctx[n].txDatagramQueue) < CHPP_TX_DATAGRAM_QUEUE_LEN
  /\ sent' = [sent EXCEPT ![n] = @ + 1]
  /\ \E length \in Lengths[n] :
       ctx' = [ctx EXCEPT ![n] = EnqueueTxDatagram(@, NoCode,
                                   Datagram(sent[n] + 1, length))]
  /\ UNCHANGED <<wire, troubles, delivered, acked>>

\* The app layer reports an error to the peer.
EnqueueTxErrorDatagram(n) ==
  /\ troubles < MaxTroubles
  /\ ResetsSettled \/ TroubleDuringReset
  /\ ctx[n].resetState # "RESETTING"
  /\ ctx' = [ctx EXCEPT ![n] = EnqueueTxPacket(@, Code("NONE", TRUE))]
  /\ troubles' = troubles + 1
  /\ UNCHANGED <<wire, sent, delivered, acked>>

ForceReset(n) ==
  /\ troubles < MaxTroubles
  /\ ResetsSettled \/ TroubleDuringReset
  /\ ctx' = [ctx EXCEPT ![n].signalForceReset = TRUE]
  /\ troubles' = troubles + 1
  /\ UNCHANGED <<wire, sent, delivered, acked>>

\* The endpoint's processor restarts and calls chppTransportInit again; by
\* then the peer has sent what it had to send, and the link has lost it.
Restart(n) ==
  /\ troubles < MaxTroubles
  /\ LinkQuiet /\ ~ctx[Peer(n)].signalEvent
  /\ ctx' = [ctx EXCEPT ![n] = Started(n, FALSE)]
  /\ troubles' = troubles + 1
  /\ UNCHANGED <<wire, sent, delivered, acked>>

\* The endpoint will have no memory for the next reset's configuration.
MemoryRunsOut(n) ==
  /\ n \in ShortOfMemory /\ troubles < MaxTroubles
  /\ ctx' = [ctx EXCEPT ![n].outOfMemory = TRUE]
  /\ troubles' = troubles + 1
  /\ UNCHANGED <<wire, sent, delivered, acked>>

Next ==
  \E n \in Endpoints :
    \/ Receive(n) \/ RxDatagramProcessed(n) \/ InitiateDiscovery(n)
    \/ Lose(n) \/ ReceiveDamaged(n)
    \/ WorkHandleSignal(n) \/ WorkHandleTimeout(n) \/ LinkSendDoneCb(n)
    \/ EnqueueTxDatagramOrFail(n) \/ EnqueueTxErrorDatagram(n)
    \/ ForceReset(n) \/ Restart(n) \/ MemoryRunsOut(n)

Spec == Init /\ [][Next]_vars

\* The threads run, the link delivers what it does not lose, timeouts expire.
FairStep ==
  \E n \in Endpoints :
    \/ Receive(n) \/ RxDatagramProcessed(n) \/ InitiateDiscovery(n)
    \/ WorkHandleSignal(n) \/ WorkHandleTimeout(n) \/ LinkSendDoneCb(n)

FairSpec == Spec /\ WF_vars(FairStep)

-----------------------------------------------------------------------------
Datagrams == {Config} \union
  {Datagram(id, length) : id \in 1..Max({MaxDatagrams[n] : n \in Endpoints}),
                          length \in {1} \union UNION Range(Lengths)}

Fragments == UNION {{Fragment(d, k) : k \in 1..d.length} : d \in Datagrams}

Codes == {Code(attr, error) : attr \in {"NONE", "RESET", "RESET_ACK"},
                              error \in BOOLEAN}

Contexts ==
  [resetState : {"NONE", "RESETTING", "PERMANENT_FAILURE"},
   resetCount : 0..CHPP_TRANSPORT_MAX_RESET - 1,
   rxSeq : Seqs, expectedSeq : Seqs, receivedAckSeq : Seqs, sentAckSeq : Seqs,
   rxDatagram : Seq(Fragments),
   packetCodeToSend : Codes,
   txAttempts : 0..CHPP_TRANSPORT_MAX_RETX + 1,
   ackedLocInDatagram : 0..Max({d.length : d \in Datagrams}) - 1,
   txDatagramQueue : Seq(Datagrams),
   linkBusy : BOOLEAN, signalEvent : BOOLEAN, signalForceReset : BOOLEAN,
   inApp : BOOLEAN, outOfMemory : BOOLEAN,
   discovery : {"incomplete", "due", "complete"}]

Packets == [attr : {"NONE", "RESET", "RESET_ACK"}, seq : Seqs, ackSeq : Seqs,
            payload : Fragments \union {Null}]

\* Every field has its type: resetCount and txAttempts stay below the limits
\* that end in PERMANENT_FAILURE and in a reset, and the queue in its array.
TypeOK ==
  /\ ctx \in [Endpoints -> Contexts]
  /\ wire \in [Endpoints -> Seq(Packets)]
  /\ troubles \in 0..MaxTroubles
  /\ \A n \in Endpoints :
       /\ Len(ctx[n].txDatagramQueue) <= CHPP_TX_DATAGRAM_QUEUE_LEN
       /\ Len(wire[n]) <= MaxWire
       /\ sent[n] \in 0..MaxDatagrams[n]

\* The app layer receives the datagrams of its peer whole, each at most once
\* and in the order in which they were sent, whatever is lost, retransmitted
\* or dropped by a reset; and it never receives a reset's configuration.
InOrderDelivery ==
  \A n \in Endpoints :
    /\ ToSet(delivered[n]) \subseteq 1..sent[Peer(n)]
    /\ \A i, j \in DOMAIN delivered[n] :
         i < j => delivered[n][i] < delivered[n][j]

\* A datagram that chppRegisterRxAck dequeues has reached the app layer of the
\* peer, if the peer is in operation when its ACK arrives.
AckedWasDelivered ==
  \A n \in Endpoints : acked[n] \ {0} \subseteq ToSet(delivered[Peer(n)])

\* Once their resets have settled, the endpoints agree on the next sequence
\* number in each direction: the receiver expects the one the sender uses, or
\* is one ahead because the ACK of an outstanding payload is on its way.
SequenceNumbersAgree ==
  (\A n \in Endpoints : ctx[n].resetState = "NONE") /\ ResetsSettled =>
    \A n \in Endpoints :
      \/ ctx[Peer(n)].expectedSeq = ctx[n].receivedAckSeq
      \/ /\ ctx[Peer(n)].expectedSeq = Inc(ctx[n].receivedAckSeq)
         /\ HavePendingTxPayload(ctx[n]) /\ ctx[n].txAttempts > 0

\* "sends out a reset or reset-ack packet over the link in order to reset the
\* remote side" (chppReset): what a reset sends is marked as a reset.
ResetTravelsAsReset ==
  \A n \in Endpoints : \A p \in ToSet(wire[n]) :
    p.payload # Null /\ p.payload.id = Config.id => p.attr # "NONE"

Queued(n, id) ==
  \E d \in ToSet(ctx[n].txDatagramQueue) : d.id = id

\* No datagram stays in the queue for ever: retransmission gets it across, or
\* running out of attempts (or another reset) drops it.
EveryDatagramSettles ==
  \A n \in Endpoints : \A id \in 1..MaxDatagrams[n] :
    []<>~Queued(n, id)

Resetting(n) == ctx[n].resetState = "RESETTING"

\* No endpoint keeps resetting for ever: the reset completes or, after
\* CHPP_TRANSPORT_MAX_RESET reset timeouts, fails.
EveryResetEnds ==
  \A n \in Endpoints : []<>~Resetting(n)
=============================================================================
