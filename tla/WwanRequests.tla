---------------------------- MODULE WwanRequests ----------------------------
(***************************************************************************)
(* Cell info requests (core/wwan_request_manager.cc): one at a time, and   *)
(* the place is given back when the event with the result is freed.        *)
(***************************************************************************)
EXTENDS Integers, Sequences, FiniteSets

CONSTANTS
  Nanoapps,
  MaxCellRequests           \* bound: requests accepted

NoApp == 0
CellIds == 1..MaxCellRequests  \* a request is known by its cookie

VARIABLES
  cell,     \* a record: mCellInfoRequestingNanoappInstanceId, the cookie,
            \*   requests with the PAL, results the PAL has out, nanoapps
            \*   registered for the result
  queue,    \* the loop's queue: deferred callbacks and events
  told,     \* the cookies each nanoapp's requests got back
  owner,    \* history: the nanoapp of each request
  loaded,   \* nanoapps in mNanoapps
  requests  \* requests accepted

vars == <<cell, queue, told, owner, loaded, requests>>

Init ==
  /\ cell = [app |-> NoApp, cookie |-> 0, asked |-> 0, out |-> 0,
             registered |-> {}]
  /\ queue = <<>>
  /\ told = [n \in Nanoapps |-> <<>>]
  /\ owner = [i \in CellIds |-> NoApp]
  /\ loaded = Nanoapps
  /\ requests = 0

\* requestCellInfo, if it returns true.
RequestCellInfo(app) ==
  /\ cell.app = NoApp
  /\ cell' = [cell EXCEPT !.app = app, !.cookie = requests + 1, !.asked = @ + 1,
                          !.registered = @ \cup {app}]

Request(app) ==
  /\ app \in loaded
  /\ requests < MaxCellRequests
  /\ requests' = requests + 1
  /\ owner' = [owner EXCEPT ![requests + 1] = app]
  /\ RequestCellInfo(app)
  /\ UNCHANGED <<queue, told, loaded>>

\* The PAL has the result: handleCellInfoResult.
PalAnswers ==
  /\ cell.asked > 0
  /\ cell' = [cell EXCEPT !.asked = @ - 1, !.out = @ + 1]
  /\ queue' = Append(queue, [type |-> "result"])
  /\ UNCHANGED <<told, owner, loaded, requests>>

\* handleCellInfoResultSync: without a request the result is kept.
HandleCellInfoResultSync ==
  /\ queue # <<>>
  /\ Head(queue).type = "result"
  /\ queue' = IF cell.app = NoApp THEN Tail(queue)
              ELSE Append(Tail(queue), [type |-> "event", app |-> cell.app,
                                        cookie |-> cell.cookie])
  /\ UNCHANGED <<cell, told, owner, loaded, requests>>

\* handleFreeCellInfoResult
HandleFreeCellInfoResult ==
  cell' = IF cell.app # NoApp
          THEN [cell EXCEPT !.app = NoApp, !.registered = @ \ {cell.app},
                            !.out = @ - 1]
          ELSE [cell EXCEPT !.out = @ - 1]

\* The event is delivered, if its nanoapp is still there, and freed.
Deliver ==
  /\ queue # <<>>
  /\ Head(queue).type = "event"
  /\ queue' = Tail(queue)
  /\ told' = IF Head(queue).app \in loaded
             THEN [told EXCEPT ![Head(queue).app] =
                     Append(@, Head(queue).cookie)]
             ELSE told
  /\ HandleFreeCellInfoResult
  /\ UNCHANGED <<owner, loaded, requests>>

\* Unloading a nanoapp leaves its request in flight; its registrations go.
Unload(app) ==
  /\ app \in loaded
  /\ loaded' = loaded \ {app}
  /\ cell' = [cell EXCEPT !.registered = @ \ {app}]
  /\ UNCHANGED <<queue, told, owner, requests>>

LoopStep == HandleCellInfoResultSync \/ Deliver

Next ==
  \/ \E app \in Nanoapps : Request(app) \/ Unload(app)
  \/ PalAnswers
  \/ LoopStep

Spec == Init /\ [][Next]_vars

\* The loop runs its queue and the PAL answers.
FairStep == LoopStep \/ PalAnswers

Fairness == WF_vars(FairStep)

FairSpec == Spec /\ Fairness

-----------------------------------------------------------------------------
(* Properties.                                                             *)

CellTypeOK ==
  /\ cell \in [app : Nanoapps \cup {NoApp}, cookie : 0..requests, asked : 0..1,
               out : 0..1, registered : SUBSET Nanoapps]
  /\ \A i \in 1..Len(queue) : queue[i].type \in {"result", "event"}
  /\ told \in [Nanoapps -> Seq(CellIds)]
  /\ loaded \subseteq Nanoapps

\* Each result goes to the nanoapp that asked, with its own cookie, once, also
\* if requests follow closely or a nanoapp is unloaded in between.
CellInfoToItsRequester ==
  \A n \in Nanoapps :
    /\ \A i \in 1..Len(told[n]) : owner[told[n][i]] = n
    /\ \A i, j \in 1..Len(told[n]) : i # j => told[n][i] # told[n][j]

\* The place is taken exactly as long as the PAL owes a result or has one out,
\* and the nanoapp that has it is registered for the result.
CellInfoPlaceGivenBack ==
  /\ cell.app # NoApp <=> cell.asked + cell.out = 1
  /\ cell.registered = {cell.app} \cap loaded

NoCellRequestWaits == cell.app = NoApp

\* Every request of a nanoapp that stays is answered, and the place is free
\* again.
EveryCellRequestEnds == []<>NoCellRequestWaits
=============================================================================
