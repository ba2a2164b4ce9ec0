------------------------------ MODULE TimerBag ------------------------------
(***************************************************************************)
(* What TimerPool needs of the container behind mTimerRequests: a bag of   *)
(* requests from which one can be removed, or those of one owner at once:  *)
(* all of them, as long as there are fewer than SiftUpSize requests.       *)
(***************************************************************************)
EXTENDS Integers, FiniteSets, Bags, BagsExt

CONSTANTS Owners, System, Times

VARIABLES
  requests,                  \* the outstanding requests
  unloaded                   \* owners whose requests were cancelled for good

Request == [owner : Owners, time : Times]

Init == requests = EmptyBag /\ unloaded = {}

Push ==
  /\ UNCHANGED unloaded
  /\ \E r \in Request :
       r.owner \notin unloaded /\ requests' = BagAdd(requests, r)

\* Popping the top as well as removing from the middle.
Remove ==
  /\ UNCHANGED unloaded
  /\ \E r \in BagToSet(requests) : requests' = BagRemove(requests, r)

\* The smallest heap in which a removal by index can move an element that the
\* backward scan has not seen yet behind it.
SiftUpSize == 6

CancelAll(owner) ==
  /\ owner \notin unloaded
  /\ unloaded' = unloaded \cup {owner}
  /\ LET of == [r \in {q \in BagToSet(requests) : q.owner = owner}
                  |-> requests[r]]
     IN  \E gone \in SubBag(of) :
           /\ BagCardinality(requests) < SiftUpSize => gone = of
           /\ of # EmptyBag => gone # EmptyBag
           /\ requests' = requests (-) gone

Next ==
  \/ Push
  \/ Remove
  \/ \E o \in Owners \ {System} : CancelAll(o)

Spec == Init /\ [][Next]_<<requests, unloaded>>
=============================================================================
