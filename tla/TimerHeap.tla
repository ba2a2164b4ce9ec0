------------------------------ MODULE TimerHeap ------------------------------
(***************************************************************************)
(* The storage of mTimerRequests: PriorityQueue over a DynamicVector kept  *)
(* as a binary heap (util/heap_impl.h), and the backward scan with which   *)
(* TimerPool::cancelAllNanoappTimers removes elements from it by index.    *)
(* Indices are those of the code plus one.                                 *)
(***************************************************************************)
EXTENDS Integers, Sequences, SequencesExt, FiniteSets

CONSTANTS
  Owners,                    \* instance IDs
  System,                    \* kSystemInstanceId, which is never unloaded
  Times,                     \* expiration times
  MaxSize                    \* bound on the size of the heap

VARIABLES mData, unloaded

vars == <<mData, unloaded>>

\* TimerRequest::operator>, through std::greater: a expires after b.
Compare(a, b) == a.time > b.time

Swap(s, i, j) == [s EXCEPT ![i] = s[j], ![j] = s[i]]

Parent(i) == i \div 2

RECURSIVE SiftUp(_, _)
SiftUp(s, current) ==
  IF current > 1 /\ Compare(s[Parent(current)], s[current])
  THEN SiftUp(Swap(s, Parent(current), current), Parent(current))
  ELSE s

\* The last element is about to be erased and takes no part.
RECURSIVE SiftDown(_, _)
SiftDown(s, current) ==
  LET left == 2 * current
      child == IF left + 1 < Len(s) /\ Compare(s[left], s[left + 1])
               THEN left + 1 ELSE left
  IN  IF child < Len(s) /\ Compare(s[current], s[child])
      THEN SiftDown(Swap(s, current, child), child)
      ELSE s

PushHeap(s, element) == SiftUp(Append(s, element), Len(s) + 1)

PopHeap(s) == Front(SiftDown(Swap(s, 1, Len(s)), 1))

\* Mutant: the last element is erased without taking the removed one's place.
RemoveHeapNoSwap(s, index) == Front(SiftDown(s, index))

RemoveHeap(s, index) ==
  LET t == Swap(s, index, Len(s))
  IN  Front(IF index > 1 /\ Compare(t[Parent(index)], t[index])
            THEN SiftUp(t, index) ELSE SiftDown(t, index))

\* The for loop of cancelAllNanoappTimers from index i down to 1.
RECURSIVE BackwardScan(_, _, _)
BackwardScan(s, owner, i) ==
  IF i = 0 THEN s
  ELSE BackwardScan(IF s[i].owner = owner THEN RemoveHeap(s, i) ELSE s,
                    owner, i - 1)

Init == mData = <<>> /\ unloaded = {}

\* PriorityQueue::push.
Push(owner, time) ==
  /\ Len(mData) < MaxSize
  /\ owner \notin unloaded
  /\ mData' = PushHeap(mData, [owner |-> owner, time |-> time])
  /\ UNCHANGED unloaded

Pop ==
  /\ mData # <<>>
  /\ mData' = PopHeap(mData)
  /\ UNCHANGED unloaded

RemoveIndex(index) ==
  /\ mData' = RemoveHeap(mData, index)
  /\ UNCHANGED unloaded

\* cancelAllNanoappTimers; the owner is gone afterwards.
CancelAllNanoappTimers(owner) ==
  /\ owner \notin unloaded
  /\ mData' = BackwardScan(mData, owner, Len(mData))
  /\ unloaded' = unloaded \cup {owner}

Next ==
  \/ \E o \in Owners, t \in Times : Push(o, t)
  \/ Pop
  \/ \E i \in DOMAIN mData : RemoveIndex(i)
  \/ \E o \in Owners \ {System} : CancelAllNanoappTimers(o)

Spec == Init /\ [][Next]_vars

-----------------------------------------------------------------------------

\* The heap order survives every operation, removal from the middle included
\* (remove_heap may have to sift up): top() is the earliest request.
IsHeap == \A i \in DOMAIN mData \ {1} : ~Compare(mData[Parent(i)], mData[i])

Bag == INSTANCE TimerBag WITH requests <- ToBag(mData)

BagStep == [Bag!Next]_<<ToBag(mData), unloaded>>

\* The heap implements the bag that the pool's logic relies on: nothing is
\* lost or duplicated, and cancelling the timers of a nanoapp takes none of
\* anybody else's and, in a heap of fewer than SiftUpSize requests, all of its
\* own.
ImplementsTimerBag == Bag!Spec

\* "Cancels all timers held by a nanoapp" (timer_pool.h): none is left.
CancelAllCancelsAll ==
  \A i \in DOMAIN mData : mData[i].owner \notin unloaded
=============================================================================
