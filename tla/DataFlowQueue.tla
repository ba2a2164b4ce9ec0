---------------------------- MODULE DataFlowQueue ----------------------------
(***************************************************************************)
(* The queue of a data flow in shared memory (data_flow/queue.cc): one     *)
(* producer and several consumers on other cores, without locks. Elements  *)
(* lie in a ring of blocks that grows while consumers are on their way     *)
(* through it: a new block goes in at a block boundary, or in the middle   *)
(* of a block, behind the producer's position, which then has a skip       *)
(* index. Elements are their own index: the n-th element pushed is n.      *)
(*                                                                         *)
(* A step of the producer is a look at the consumers or the writing of     *)
(* elements; one of a consumer is a look at its flags, the copying of      *)
(* elements or the recovery after having been overwritten. What the code   *)
(* protects with the epoch of the block list is one step. The targets of   *)
(* the block count are fixed, elements have one size, and consumers pop:   *)
(* peek, release and resync, and pruneConsumers, are left out.             *)
(***************************************************************************)
EXTENDS Integers, Sequences, FiniteSets, FiniteSetsExt

CONSTANTS
  kBlockCapacity,            \* elements in a block
  MinBlocks, MaxBlocks,      \* mMinBlockCountTarget, mMaxBlockCountTarget
  Consumers,
  Overwritables,             \* values of OverwritePolicy::kAllowed in use
  Features,                  \* what the producer does besides pushing
  Counts,                    \* the elements of one operation
  MaxWrites,                 \* bound on the elements pushed
  NoBlock                    \* kOffsetInvalid

VARIABLES
  blocks,                    \* the blocks allocated so far
  queue,                     \* [source, epoch, count]: the shared metadata
  producer,
  consumer,
  fatal                      \* an assertion failed

vars == <<blocks, queue, producer, consumer, fatal>>

Lesser(a, b) == IF a < b THEN a ELSE b
Greater(a, b) == IF a < b THEN b ELSE a

RingDiff(end, begin) ==
  IF end > begin THEN end - begin ELSE kBlockCapacity - begin + end

\* The longest contiguous stretch of up to count elements from the index on:
\* its length, the index after it and whether the block ends there.
AdvanceContiguous(base, skip, index, count) ==
  LET toSkip == CASE skip = kBlockCapacity -> kBlockCapacity
                  [] skip = index -> 0
                  [] OTHER -> RingDiff(skip, index)
      n == Min({count, RingDiff(base, index), toSkip, kBlockCapacity - index})
      to == (index + n) % kBlockCapacity
  IN  [n |-> n, index |-> to,
       leave |-> to = skip \/ (to = base /\ skip = kBlockCapacity)]

\* What entering the next block adds to the difference between the index of
\* an element and its place in the block.
CorrectionIncrement(from, base) ==
  RingDiff(base, IF from.skip = kBlockCapacity THEN from.base ELSE from.skip)

FreshBlock == [base |-> 0, skip |-> kBlockCapacity, next |-> NoBlock,
               writeIndex |-> 0, correction |-> 0,
               data |-> [i \in 0 .. kBlockCapacity - 1 |-> -1]]

\* n new blocks behind the block `after'.
Insert(b, after, n) ==
  [i \in 1 .. Len(b) + n |->
     CASE i > Len(b) -> [FreshBlock EXCEPT !.next =
                           IF i = Len(b) + n THEN b[after].next ELSE i + 1]
       [] i = after -> [b[i] EXCEPT !.next = Len(b) + 1]
       [] OTHER -> b[i]]

Capacity(p) == kBlockCapacity * p.count

-----------------------------------------------------------------------------
\* Producer. s is the state [b, p, q, room, ok] while an operation runs, room
\* being the blocks the allocator can still give; k a position [block, index,
\* correction, w] in the ring.

\* The skip index of a block becomes its base when the producer is back.
ConvertSkip(s, block) ==
  IF s.b[block].skip = kBlockCapacity THEN s
  ELSE [s EXCEPT !.p.unavailable = 0, !.q.epoch = @ + 2,
                 !.q.count = s.p.count,
                 !.b[block].base = s.b[block].skip,
                 !.b[block].skip = kBlockCapacity,
                 !.ok = @ /\ s.p.expansion = 0]

\* Leaving the block from: the fresh blocks of an expansion are counted down.
CountDown(s, from, convert) ==
  CASE from.skip # kBlockCapacity ->
         [s EXCEPT !.p.countdown = @ \/ convert]
    [] s.p.countdown ->
         [s EXCEPT !.p.expansion = @ - 1,
                   !.p.countdown = s.p.expansion # 1,
                   !.ok = @ /\ (s.p.expansion = 1 => s.p.free = 0)]
    [] OTHER -> s

PublishWriteIndex(s, k) == [s EXCEPT !.b[k.block].writeIndex = k.w]

Entered(s, k, from, mode) ==
  <<IF mode.publish /\ from.skip # kBlockCapacity
    THEN PublishWriteIndex(CountDown(s, from, mode.convert), k)
    ELSE CountDown(s, from, mode.convert),
    [k EXCEPT !.block = from.next, !.index = s.b[from.next].base,
              !.correction = @ + CorrectionIncrement(from, s.b[from.next].base)]>>

\* enterNextBlock; the block list is not updated at the boundary, for the
\* block count is never below its minimum.
EnterNextBlock(s, k, mode) ==
  LET from == s.b[k.block]
  IN  Entered(IF mode.convert THEN ConvertSkip(s, from.next) ELSE s,
              k, from, mode)

\* Where elements are copied into a block, skips are converted and the write
\* index is kept for consumers that follow.
Pushing == [data |-> TRUE, convert |-> TRUE, publish |-> TRUE]
Reserving == [data |-> TRUE, convert |-> TRUE, publish |-> FALSE]
Committing == [data |-> FALSE, convert |-> FALSE, publish |-> TRUE]
Seeking == [data |-> FALSE, convert |-> FALSE, publish |-> FALSE]

\* n elements are copied to the position k.
Copied(s, k, n) ==
  [s EXCEPT !.b[k.block].data =
     [i \in DOMAIN @ |-> IF i \in k.index .. k.index + n - 1
                         THEN k.w + i - k.index ELSE @[i]]]

Stepped(s, k, step, mode) ==
  [n |-> step.n,
   to |-> IF step.leave THEN EnterNextBlock(s, k, mode) ELSE <<s, k>>]

StretchBy(s, k, step, mode) ==
  Stepped(IF mode.data THEN Copied(s, k, step.n) ELSE s,
          [k EXCEPT !.index = step.index, !.w = @ + step.n], step, mode)

\* One contiguous stretch of at most count elements.
Stretch(s, k, count, mode) ==
  LET block == s.b[k.block]
  IN  StretchBy(s, k,
                AdvanceContiguous(block.base, block.skip, k.index, count), mode)

\* advanceBlockIndexWithData.
RECURSIVE Advance(_, _, _, _)
Advance(s, k, count, mode) ==
  IF count = 0 THEN <<s, k>>
  ELSE LET t == Stretch(s, k, count, mode)
       IN  Advance(t.to[1], t.to[2], count - t.n, mode)

TailPosition(s) ==
  LET d == s.b[s.p.desc]
  IN  [block |-> s.p.desc, w |-> d.writeIndex, correction |-> d.correction,
       index |-> (d.writeIndex + d.correction) % kBlockCapacity]

\* advanceWriteIndex and updateWriteIndex.
AdvanceWriteIndex(s, count, mode) ==
  LET r == Advance(s, TailPosition(s), count, mode)
      k == r[2]
  IN  IF k.block = s.p.desc
      THEN [r[1] EXCEPT !.b[k.block].writeIndex = k.w]
      ELSE [r[1] EXCEPT !.b[k.block].writeIndex = k.w,
                        !.b[k.block].correction = k.correction,
                        !.q.source = k.block, !.p.desc = k.block]

\* The place behind the producer where blocks can go in: the distance to the
\* end of its block, or the position of the consumer it must not overwrite.
RECURSIVE SeekBoundary(_, _, _)
SeekBoundary(block, index, distance) ==
  IF distance = 0 THEN [boundary |-> FALSE, index |-> index]
  ELSE LET step == AdvanceContiguous(block.base, block.skip, index, distance)
       IN  IF step.leave THEN [boundary |-> TRUE, index |-> step.index]
           ELSE SeekBoundary(block, step.index, distance - step.n)

\* allocateAndInsertBlocks.
AllocateAndInsert(s, count) ==
  LET block == s.b[s.p.curr]
      at == SeekBoundary(block, s.p.index, s.p.available)
      n == Lesser(count, s.room)
      s1 == IF at.boundary THEN s
            ELSE [s EXCEPT !.b[s.p.curr].skip = at.index,
                           !.p.free = s.p.available,
                           !.p.unavailable = RingDiff(block.base, at.index)]
  IN  IF n = 0 THEN s
      ELSE [s1 EXCEPT !.b = Insert(@, s.p.curr, n), !.room = @ - n,
                      !.p.count = @ + n, !.q.epoch = @ + 2,
                      !.q.count = s.p.count + n,
                      !.p.available = @ + n * kBlockCapacity,
                      !.p.free = @ + n * kBlockCapacity,
                      !.p.expansion = @ + n]

\* The flags of a descriptor hold a counter, by which the consumer says which
\* of them it has seen; acked stands for the comparison of the counters.
Effective(x) == IF x.acked THEN "none" ELSE x.flag

SetFlag(x, flag) == [x EXCEPT !.flag = flag, !.acked = FALSE, !.fresh = FALSE]

\* forAllConsumers: consumers that are done are erased and flags that were
\* acknowledged are cleared.
Visit(cs) ==
  [c \in DOMAIN cs |->
     CASE cs[c].linked /\ cs[c].done -> [cs[c] EXCEPT !.linked = FALSE]
       [] cs[c].linked /\ ~cs[c].done /\ cs[c].acked ->
            [cs[c] EXCEPT !.flag = "none"]
       [] OTHER -> cs[c]]

Considered(cs) ==
  {c \in DOMAIN cs : cs[c].linked /\ ~cs[c].done
     /\ Effective(cs[c]) \in {"none", "blocking", "pending", "overwrite"}}

\* updateAvailable, for a push or reservation of `more' elements.
UpdateAvailable(s, more) ==
  LET p == s.p
      capacity == Capacity(p)
      tail == s.b[p.desc].writeIndex + p.reserved
      limit == capacity - IF p.countdown THEN 0 ELSE p.unavailable
      diff == [c \in DOMAIN s.c |-> tail - s.c[c].readIndex]
      over == {c \in Considered(s.c) :
                 s.c[c].overwritable /\ diff[c] + more > limit}
      blocking == {c \in Considered(s.c) :
                     ~s.c[c].overwritable /\ diff[c] + more >= limit}
      room == Min({capacity - p.reserved} \cup
                  {Greater(capacity - diff[c] - p.unavailable, 0) :
                     c \in Considered(s.c) \ over})
      available == IF p.expansion > 0 THEN Greater(room, p.free) ELSE room
      visited == Visit(s.c)
  IN  [s EXCEPT
         !.c = [c \in DOMAIN s.c |->
                  CASE c \in over -> SetFlag(visited[c], "overwrite")
                    [] c \in blocking -> SetFlag(visited[c], "blocking")
                    [] OTHER -> visited[c]],
         !.p.available = available,
         !.ok = @ /\ available <= capacity
                  /\ \A c \in Considered(s.c) :
                       ~s.c[c].overwritable => diff[c] <= capacity]

Expanded(s, count) ==
  LET p == s.p
      maximum == kBlockCapacity * p.max - p.available
      needed == count - p.available
      request == IF needed >= maximum THEN p.max - p.count
                 ELSE (needed + kBlockCapacity - 1) \div kBlockCapacity
  IN  IF p.count < p.max /\ p.expansion = 0 /\ p.unavailable = 0
      THEN IF p.count + request > p.max THEN [s EXCEPT !.refused = TRUE]
           ELSE IF s.room = 0
                THEN [s EXCEPT !.refused = count > Capacity(p)]
                ELSE AllocateAndInsert(s, request)
      ELSE s

Lacks(s, count) == count > s.p.available /\ ~s.refused

Updated(s, count, more) == IF Lacks(s, count) THEN UpdateAvailable(s, more) ELSE s

Grown(s, count) == IF Lacks(s, count) THEN Expanded(s, count) ELSE s

Granted(s, count, allOrNothing) ==
  LET n == Lesser(count, s.p.available)
  IN  IF s.refused \/ (allOrNothing /\ n < count)
      THEN [s EXCEPT !.refused = TRUE]
      ELSE [s EXCEPT !.p.available = @ - n, !.granted = n,
                     !.p.free = Greater(@ - n, 0)]

\* checkAvailable: the space is taken and granted, or the request refused.
CheckAvailable(s, count, allOrNothing) ==
  IF count > kBlockCapacity * s.p.max THEN [s EXCEPT !.refused = TRUE]
  ELSE IF ~allOrNothing THEN Granted(Updated(s, count, 0), count, FALSE)
  ELSE Granted(Updated(Grown(Updated(s, count, 0), count), count, count),
               count, TRUE)

State(room) == [b |-> blocks, p |-> producer, q |-> queue, c |-> consumer,
                room |-> room, ok |-> TRUE, refused |-> FALSE, granted |-> 0]

Become(s) ==
  /\ blocks' = s.b /\ producer' = s.p /\ queue' = s.q /\ consumer' = s.c
  /\ fatal' = ~s.ok

Sync(s) == LET k == TailPosition(s)
           IN  [s EXCEPT !.p.curr = k.block, !.p.index = k.index]

\* The blocks that the allocator may give to an operation.
Rooms == {n \in 0 .. MaxBlocks - Len(blocks) :
            "memory runs out" \in Features \/ n = MaxBlocks - Len(blocks)}

Running == producer.state = "active" /\ producer.at = "idle" /\ ~fatal

Written == blocks[producer.desc].writeIndex + producer.reserved

\* push up to the writing.
Push(count, allOrNothing) ==
  /\ Running
  /\ producer.reserved = 0
  /\ Written + count <= MaxWrites
  /\ \E room \in Rooms :
       LET s == CheckAvailable(State(room), count, allOrNothing)
       IN  Become([s EXCEPT !.p.at = IF s.refused THEN "idle" ELSE "push",
                            !.p.granted = s.granted])

\* The rest of push, with the flags that DataNotifier::onWrite clears.
PushWrite ==
  /\ producer.at = "push"
  /\ ~fatal
  /\ \E room \in Rooms :
       LET s == Sync(AdvanceWriteIndex(State(room), producer.granted, Pushing))
       IN  Become([s EXCEPT !.p.at = "idle", !.p.granted = 0,
                            !.c = Visit(@)])

\* The stretch t of a ring is reserved.
TakeStretch(t) ==
  [t.to[1] EXCEPT !.p.curr = t.to[2].block, !.p.index = t.to[2].index,
                  !.p.reserved = @ + t.n]

Reserved(s, count) ==
  IF s.refused THEN s
  ELSE TakeStretch(Stretch(s, [block |-> s.p.curr, index |-> s.p.index,
                               correction |-> 0, w |-> Written],
                           count, Reserving))

\* reserve, with the elements that the user then writes into the span.
Reserve(count) ==
  /\ Running
  /\ "reserve" \in Features
  /\ Written + count <= MaxWrites
  /\ \E room \in Rooms :
       Become(Reserved(CheckAvailable(State(room), count, TRUE), count))

Truncate(size) ==
  /\ Running
  /\ size < producer.reserved
  /\ LET less == producer.reserved - size
         s == Sync([State(0) EXCEPT
                      !.p.available = @ + less,
                      !.p.free = @ + IF producer.expansion > 0
                                     THEN less ELSE 0,
                      !.p.reserved = size])
         r == Advance(s, TailPosition(s), size, Seeking)
     IN  Become([r[1] EXCEPT !.p.curr = r[2].block, !.p.index = r[2].index])

Commit(count) ==
  /\ Running
  /\ count <= producer.reserved
  /\ \E room \in Rooms :
       LET s == AdvanceWriteIndex(
                  [State(room) EXCEPT !.p.reserved = @ - count],
                  count, Committing)
       IN  Become([s EXCEPT !.c = Visit(@)])

\* addConsumer: the descriptor is in step with the producer.
AddConsumer(c, overwritable) ==
  /\ Running
  /\ consumer[c].at = "none"
  /\ LET d == blocks[producer.desc]
     IN  consumer' = [consumer EXCEPT
           ![c] = [@ EXCEPT !.at = "described", !.linked = TRUE,
                     !.overwritable = overwritable,
                     !.flag = "pending", !.readIndex = d.writeIndex,
                     !.correction = d.correction,
                     !.epoch = queue.epoch, !.count = queue.count,
                     !.head = [block |-> producer.desc]]]
  /\ UNCHANGED <<blocks, queue, producer, fatal>>

Stop ==
  /\ Running
  /\ "stop" \in Features
  /\ producer' = [producer EXCEPT !.state = "stopped"]
  /\ queue' = [queue EXCEPT !.source = NoBlock]
  /\ consumer' = [c \in Consumers |->
                    IF consumer[c].linked /\ ~consumer[c].done
                    THEN SetFlag(consumer[c], "finished")
                    ELSE Visit(consumer)[c]]
  /\ UNCHANGED <<blocks, fatal>>

-----------------------------------------------------------------------------
\* Consumers. x is the record of one; at tells where in an operation it is.

LoadBlockHeader(block) ==
  LET h == blocks[block]
  IN  [block |-> block, next |-> h.next, w |-> h.writeIndex, base |-> h.base,
       skip |-> h.skip, read |-> 0, reject |-> FALSE]

\* The epoch is taken over whenever a header is loaded.
Loaded(x) == [x EXCEPT !.epoch = queue.epoch, !.count = queue.count]

RECURSIVE Read(_, _, _, _, _)
Read(h, index, correction, count, got) ==
  IF count = 0 THEN [h |-> h, correction |-> correction, got |-> got]
  ELSE LET step == AdvanceContiguous(h.base, h.skip, index, count)
           more == got \o [i \in 1 .. step.n |->
                             blocks[h.block].data[index + i - 1]]
           to == LoadBlockHeader(h.next)
       IN  IF step.leave
           THEN Read(to, to.base,
                     correction + CorrectionIncrement(h, to.base),
                     count - step.n, more)
           ELSE Read([h EXCEPT !.read = @ + step.n], step.index, correction,
                     count - step.n, more)

\* Mutant: a consumer always follows the block's present header.
UpdateBlockHeaderDataPresent(h, index, readIndex) ==
  [LoadBlockHeader(h.block) EXCEPT !.read = h.read]

\* updateBlockHeaderData: whether a consumer at the index in the block of h
\* goes by the block's present header or by the one it knows.
UpdateBlockHeaderData(h, index, readIndex) ==
  LET new == [LoadBlockHeader(h.block) EXCEPT !.read = h.read]
  IN  CASE h.reject -> h
        [] ~h.reject /\ new.skip = h.skip /\ new.base = h.base ->
             IF new.next = h.next THEN new
             ELSE [h EXCEPT !.skip = new.base, !.next = new.next,
                            !.reject = TRUE]
        [] ~h.reject /\ new.base # h.base ->
             IF h.skip = kBlockCapacity
             THEN [h EXCEPT !.skip = new.base, !.next = new.next,
                            !.reject = TRUE]
             ELSE h
        [] ~h.reject /\ new.base = h.base /\ new.skip # h.skip ->
             IF h.skip # kBlockCapacity THEN h
             ELSE IF index # new.skip
                  THEN IF h.read + RingDiff(new.skip, index) >= kBlockCapacity
                       THEN h ELSE new
                  ELSE IF new.w = readIndex THEN new
                       ELSE [h EXCEPT !.reject = TRUE]

\* advanceReadIndex.
AdvanceReadIndex(x, count) ==
  LET index == (x.readIndex + x.correction) % kBlockCapacity
      h == UpdateBlockHeaderData(x.head, index, x.readIndex)
      r == Read(h, index, x.correction, count, <<>>)
  IN  [Loaded(x) EXCEPT !.head = r.h, !.correction = r.correction,
         !.readIndex = @ + count, !.got = r.got, !.from = x.readIndex]

SyncToProducer(x) ==
  LET d == blocks[queue.source]
      index == (d.writeIndex + d.correction) % kBlockCapacity
      h == LoadBlockHeader(queue.source)
  IN  [Loaded(x) EXCEPT !.readIndex = d.writeIndex,
         !.correction = d.correction,
         !.head = [h EXCEPT !.read = RingDiff(index, h.base)]]

\* A consumer that was not added yet.
Nobody == [at |-> "none", linked |-> FALSE, done |-> FALSE,
           overwritable |-> FALSE, flag |-> "none",
           acked |-> FALSE, fresh |-> FALSE, seen |-> "none", readIndex |-> 0,
           correction |-> 0, epoch |-> 0, count |-> 0,
           head |-> [block |-> 1], available |-> 0, want |-> 0, got |-> <<>>,
           from |-> 0, reset |-> 0]

\* disableAndNotify; the producer erases the descriptor at its next visit.
Disabled(x) == [Nobody EXCEPT !.at = "off", !.linked = x.linked, !.done = TRUE]

\* clearFlags: the counter seen by the last look at the flags is stored.
ClearFlags(x) == [x EXCEPT !.acked = x.fresh, !.seen = "none"]

Available(x) == blocks[queue.source].writeIndex - x.readIndex

\* handleOverwrite, and then clearFlags.
Recovered(x) ==
  LET capacity == kBlockCapacity * x.count
      offset == Lesser(x.reset, capacity \div 2)
      y == [x EXCEPT !.available = Available(x)]
  IN  IF queue.source = NoBlock THEN Disabled(x)
      ELSE ClearFlags([CASE queue.epoch # x.epoch -> SyncToProducer(x)
                         [] queue.epoch = x.epoch /\ y.available <= offset -> y
                         [] OTHER -> [AdvanceReadIndex(y, y.available - offset)
                                        EXCEPT !.available = offset]
                       EXCEPT !.at = "idle", !.got = <<>>, !.from = 0])

\* checkStateInternal; next is where the operation goes on if all is well.
CheckState(x, next) ==
  LET y == [x EXCEPT !.seen = x.flag, !.fresh = TRUE]
  IN  CASE Effective(x) = "finished" -> Disabled(y)
        [] Effective(x) \in {"disconnected", "pending"} ->
             [y EXCEPT !.at = "off"]
        [] Effective(x) = "overwrite" -> [y EXCEPT !.at = "recover"]
        [] OTHER -> [Loaded(y) EXCEPT !.at = next]

Update(c, x) ==
  /\ consumer' = [consumer EXCEPT ![c] = x]
  /\ UNCHANGED <<blocks, queue, producer, fatal>>

\* The consumer's object is made from the descriptor.
Initialize(c) ==
  LET x == consumer[c]
      h == LoadBlockHeader(x.head.block)
      index == (x.readIndex + x.correction) % kBlockCapacity
      y == [Loaded(x) EXCEPT !.seen = x.flag, !.fresh = TRUE,
              !.reset = (kBlockCapacity * x.count) \div 2,
              !.head = [h EXCEPT !.read = RingDiff(index, h.base)]]
      z == IF queue.epoch # x.epoch THEN SyncToProducer(y)
           ELSE IF Effective(x) = "overwrite" THEN Recovered(y) ELSE y
  IN  /\ x.at = "described"
      /\ ~fatal
      /\ Update(c, IF \/ queue.source = NoBlock
                      \/ Effective(x) \notin {"pending", "overwrite",
                                              "blocking"}
                   THEN Disabled(x) ELSE CheckState(ClearFlags(z), "idle"))

\* pop up to the copying.
Pop(c, count) ==
  LET x == consumer[c]
      y == CheckState(x, "copy")
      available == IF count > x.available THEN Available(x) ELSE x.available
  IN  /\ x.at = "idle"
      /\ ~fatal
      /\ Update(c, IF y.at # "copy" THEN y
                   ELSE IF count > kBlockCapacity * y.count
                        THEN [y EXCEPT !.at = "idle"]
                   ELSE IF count > x.available /\ queue.source = NoBlock
                        THEN Disabled(y)
                   ELSE IF count > available
                        THEN [y EXCEPT !.at = "idle", !.available = available]
                   ELSE [y EXCEPT !.available = available - count,
                                  !.want = count])

Copy(c) ==
  LET x == consumer[c]
  IN  /\ x.at = "copy"
      /\ ~fatal
      /\ Update(c, [AdvanceReadIndex(x, x.want) EXCEPT !.at = "verify",
                                                       !.want = 0])

\* The state is checked again; only then the elements are the user's, and a
\* producer that was blocked is notified.
Verify(c) ==
  LET y == CheckState(consumer[c], "idle")
      z == [y EXCEPT !.got = <<>>, !.from = 0]
  IN  /\ consumer[c].at = "verify"
      /\ ~fatal
      /\ Update(c, IF z.at = "idle" /\ z.seen = "blocking"
                   THEN ClearFlags(z) ELSE z)

Recover(c) ==
  /\ consumer[c].at = "recover"
  /\ ~fatal
  /\ Update(c, Recovered(consumer[c]))

Destroy(c) ==
  /\ "leave" \in Features
  /\ consumer[c].at = "idle"
  /\ ~fatal
  /\ Update(c, Disabled(consumer[c]))

-----------------------------------------------------------------------------
Init ==
  /\ blocks = [i \in 1 .. MinBlocks |->
                 [FreshBlock EXCEPT !.next = (i % MinBlocks) + 1]]
  /\ queue = [source |-> 1, epoch |-> 0, count |-> MinBlocks]
  /\ producer = [state |-> "active", at |-> "idle", desc |-> 1, curr |-> 1,
                 index |-> 0, max |-> MaxBlocks,
                 count |-> MinBlocks, reserved |-> 0, available |-> 0,
                 expansion |-> 0, free |-> 0, unavailable |-> 0,
                 countdown |-> FALSE, granted |-> 0]
  /\ consumer = [c \in Consumers |-> Nobody]
  /\ fatal = FALSE

Next ==
  \/ \E n \in Counts, allOrNothing \in BOOLEAN : Push(n, allOrNothing)
  \/ PushWrite
  \/ \E n \in Counts : Reserve(n)
  \/ \E n \in 0 .. MaxWrites : Truncate(n)
  \/ \E n \in 1 .. MaxWrites : Commit(n)
  \/ Stop
  \/ \E c \in Consumers :
       \/ (\E overwritable \in Overwritables : AddConsumer(c, overwritable))
       \/ Initialize(c) \/ Copy(c) \/ Verify(c)
       \/ Recover(c) \/ Destroy(c)
       \/ \E n \in Counts : Pop(c, n)

Spec == Init /\ [][Next]_vars

-----------------------------------------------------------------------------
\* The states of the two sides, the ring of blocks being closed: from any
\* block, following nextBlockOffsetBytes, every block is reached.
FlowTypeOK ==
  /\ Len(blocks) \in MinBlocks .. MaxBlocks /\ producer.count = Len(blocks)
  /\ {blocks[i].next : i \in DOMAIN blocks} = DOMAIN blocks
  /\ \A i \in DOMAIN blocks : /\ blocks[i].base \in 0 .. kBlockCapacity - 1
                               /\ blocks[i].skip \in 0 .. kBlockCapacity
  /\ queue.source \in {NoBlock, producer.desc}
  /\ producer.state \in {"active", "stopped"}
  /\ producer.at \in {"idle", "push"}
  /\ \A c \in Consumers :
       /\ consumer[c].at \in {"none", "described", "idle", "copy", "verify",
                              "recover", "off"}
       /\ consumer[c].flag \in {"none", "pending", "blocking", "overwrite",
                                "finished"}
       /\ consumer[c].head.block \in DOMAIN blocks

\* The elements of a pop that is about to succeed, the flags seen by the
\* check after the copying being good, are those of its indices.
PopIsExact(c) ==
  /\ consumer[c].at = "verify"
  /\ Effective(consumer[c]) \in {"none", "blocking"}
  => \A i \in DOMAIN consumer[c].got :
       consumer[c].got[i] = consumer[c].from + i - 1

\* A consumer that must not be overwritten pops exactly what was pushed, in
\* order, each element once, while the producer inserts blocks and moves skip
\* and base indices in the blocks ahead of it, under it and behind it
\* (updateBlockHeaderData, enterNextBlock, updateAvailable).
PopsWhatWasPushed ==
  \A c \in Consumers : ~consumer[c].overwritable => PopIsExact(c)

\* The producer's assertions hold: an expansion is over when the producer is
\* back at the block it skipped from and its free space is used up exactly in
\* the last fresh block (enterNextBlock), and no consumer that must not be
\* overwritten is ever more than the capacity behind (updateAvailable).
NeverFatal == ~fatal

\* No consumer is ahead of the elements that were committed, and what is
\* reserved or pushed never reaches a consumer that must not be overwritten,
\* whatever the producer has cached as available (checkAvailable).
ProducerKeepsOff ==
  \A c \in Consumers :
    LET x == consumer[c]
    IN  x.linked /\ ~x.done =>
          /\ x.readIndex <= blocks[producer.desc].writeIndex
          /\ ~x.overwritable => Written - x.readIndex <= Capacity(producer)

\* In a queue that does not grow a consumer that is overwritten while it
\* copies gets elements of later laps and never of earlier ones, even before
\* the check after the copying rejects them (advanceReadIndex).
PopsNothingOlder ==
  \A c \in Consumers :
    consumer[c].at = "verify" =>
      \A i \in DOMAIN consumer[c].got :
        consumer[c].got[i] \in
          {consumer[c].from + i - 1 + lap * kBlockCapacity * MinBlocks :
             lap \in 0 .. MaxWrites}

\* "EXPECT_EQ(result.value(), state.lastPopped + 1);" (queue_test.cc): a
\* consumer that may be overwritten is told so, and what it pops otherwise is
\* what was pushed. Not so: the available space that the producer has cached
\* was computed without a consumer that was overwritten (updateAvailable);
\* when the consumer has recovered, half the capacity behind, the producer
\* goes on to the end of that space, over elements the consumer has yet to
\* pop, without looking at it again, and flags nothing.
OverwrittenIsTold ==
  \A c \in Consumers : consumer[c].overwritable => PopIsExact(c)
=============================================================================
