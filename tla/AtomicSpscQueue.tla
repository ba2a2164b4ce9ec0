--------------------------- MODULE AtomicSpscQueue ---------------------------
(***************************************************************************)
(* The lock-free queue of one producer and one consumer of                 *)
(* util/system/atomic_spsc_queue.h. A step is one atomic access to mHead   *)
(* or mTail, or one access to the storage.                                 *)
(***************************************************************************)
EXTENDS Integers, Sequences

CONSTANTS
  kCapacity,
  UINT32_MAX,                \* the largest index, a few capacities
  Cycle,                     \* elements are numbered modulo this
  Destroyed                  \* storage without an element

VARIABLES
  mHead, mTail, mData,
  next,                      \* the number of the next element
  producer,                  \* [at, tail] of the producer's context
  consumer,                  \* [at, head, count, dest] of the consumer's
  taken                      \* what the consumer got last

vars == <<mHead, mTail, mData, next, producer, consumer, taken>>

Lesser(a, b) == IF a < b THEN a ELSE b

Init ==
  /\ mHead = 0 /\ mTail = 0
  /\ mData = [i \in 0 .. kCapacity - 1 |-> Destroyed]
  /\ next = 0
  /\ producer = [at |-> "idle", tail |-> 0]
  /\ consumer = [at |-> "idle", head |-> 0, count |-> 0, dest |-> <<>>]
  /\ taken = <<>>

\* The value of size() for a head and a tail that were read one after another.
Size(head, tail) == IF tail <= head THEN 0 ELSE tail - head

NearingOverflow == mTail > UINT32_MAX - kCapacity

\* The user's part, as the comments ask for it: push only if the queue is not
\* full and, near the overflow of the indices, only once it is empty.
CheckRoom ==
  /\ producer.at = "idle"
  /\ Size(mHead, mTail) # kCapacity
  /\ NearingOverflow => Size(mHead, mTail) = 0
  /\ producer' = [producer EXCEPT !.at = "room"]
  /\ UNCHANGED <<mHead, mTail, mData, next, consumer, taken>>

\* Mutant: the head is reset before the tail.
NextStorageHeadFirst ==
  /\ producer.at = "room"
  /\ IF mTail # 0 /\ mTail = mHead
     THEN /\ mHead' = 0
          /\ producer' = [at |-> "reset", tail |-> 0]
     ELSE /\ producer' = [at |-> "storage", tail |-> mTail]
          /\ UNCHANGED mHead
  /\ UNCHANGED <<mTail, mData, next, consumer, taken>>

\* nextStorage: an empty queue starts again at index 0, the tail first.
NextStorage ==
  /\ producer.at = "room"
  /\ IF mTail # 0 /\ mTail = mHead
     THEN /\ mTail' = 0
          /\ producer' = [at |-> "reset", tail |-> 0]
     ELSE /\ producer' = [at |-> "storage", tail |-> mTail]
          /\ UNCHANGED mTail
  /\ UNCHANGED <<mHead, mData, next, consumer, taken>>

ResetHead ==
  /\ producer.at = "reset"
  /\ mHead' = 0
  /\ producer' = [producer EXCEPT !.at = "storage"]
  /\ UNCHANGED <<mTail, mData, next, consumer, taken>>

Construct ==
  /\ producer.at = "storage"
  /\ mData' = [mData EXCEPT ![producer.tail % kCapacity] = next]
  /\ producer' = [producer EXCEPT !.at = "constructed"]
  /\ UNCHANGED <<mHead, mTail, next, consumer, taken>>

\* The end of emplace and push; the index is 32 bits wide.
StoreTail ==
  /\ producer.at = "constructed"
  /\ mTail' = (producer.tail + 1) % (UINT32_MAX + 1)
  /\ next' = (next + 1) % Cycle
  /\ producer' = [at |-> "idle", tail |-> 0]
  /\ UNCHANGED <<mHead, mData, consumer, taken>>

\* size() in the consumer's context, called by empty() and extract().
ReadHead ==
  /\ consumer.at = "idle"
  /\ consumer' = [consumer EXCEPT !.at = "size", !.head = mHead]
  /\ UNCHANGED <<mHead, mTail, mData, next, producer, taken>>

\* pop() and front() want one element, extract() up to as many as fit.
ReadTail ==
  /\ consumer.at = "size"
  /\ \E count \in 1 .. kCapacity :
       LET size == Size(consumer.head, mTail)
       IN  consumer' = IF size = 0
                       THEN [consumer EXCEPT !.at = "idle", !.head = 0]
                       ELSE [consumer EXCEPT !.at = "extract", !.head = 0,
                               !.count = Lesser(size, count)]
  /\ UNCHANGED <<mHead, mTail, mData, next, producer, taken>>

\* The elements are moved out and destroyed, in up to two stretches.
Extract ==
  /\ consumer.at = "extract"
  /\ LET at == [i \in 1 .. consumer.count |-> (mHead + i - 1) % kCapacity]
     IN  /\ consumer' = [consumer EXCEPT !.at = "extracted", !.head = mHead,
                           !.dest = [i \in 1 .. consumer.count |->
                                       mData[at[i]]]]
         /\ mData' = [j \in DOMAIN mData |->
                        IF \E i \in DOMAIN at : at[i] = j
                        THEN Destroyed ELSE mData[j]]
  /\ UNCHANGED <<mHead, mTail, next, producer, taken>>

StoreHead ==
  /\ consumer.at = "extracted"
  /\ mHead' = (consumer.head + consumer.count) % (UINT32_MAX + 1)
  /\ taken' = consumer.dest
  /\ consumer' = [at |-> "idle", head |-> 0, count |-> 0, dest |-> <<>>]
  /\ UNCHANGED <<mTail, mData, next, producer>>

Next ==
  \/ CheckRoom \/ NextStorage \/ ResetHead \/ Construct \/ StoreTail
  \/ ReadHead \/ ReadTail \/ Extract \/ StoreHead

Spec == Init /\ [][Next]_vars

-----------------------------------------------------------------------------
\* The indices stay in their range, and the assertion of nextStorage holds:
\* the tail never reaches the largest index without the queue being emptied.
SpscTypeOK ==
  /\ mHead \in 0 .. UINT32_MAX
  /\ mTail \in 0 .. UINT32_MAX
  /\ next \in 0 .. Cycle - 1
  /\ producer.at = "storage" => producer.tail < UINT32_MAX
  /\ producer.at \in {"idle", "room", "reset", "storage", "constructed"}
  /\ consumer.at \in {"idle", "size", "extract", "extracted"}

\* The elements between head and tail as the storage holds them; while the
\* consumer is moving elements out they are in the destination.
Content ==
  LET rest == IF consumer.at = "extracted" THEN consumer.count ELSE 0
  IN  consumer.dest \o
      [i \in 1 .. Size(mHead + rest, mTail) |->
         mData[(mHead + rest + i - 1) % kCapacity]]

\* What the two contexts see of the queue is a queue: elements are taken in
\* the order they were pushed, each once and none before it is constructed or
\* after it is destroyed, although head and tail are read at different moments
\* and both go back to 0 under the consumer (nextStorage, size, extract).
Queue == INSTANCE Fifo WITH queue <- Content, Capacity <- kCapacity

FifoStep == Queue!Next \/ UNCHANGED <<Content, next, taken>>

ImplementsFifo == Queue!Spec
=============================================================================
